---------------------------- MODULE PublishingProofs ----------------------------
(***************************************************************************)
(* The way of a value from a chip to the master.  Below, on the bus: a     *)
(* register of a chip is read and written as it is, byte by byte, and over *)
(* SPI in software bit by bit on the clock, data and select wires.  Above, *)
(* in the registers: an answer to the master shows one pass, for           *)
(* everything that the sensor, the clock and the modem may say and         *)
(* everything that the master writes; each script is followed to the step  *)
(* that last puts a register, and, for the half of a float, to the         *)
(* conversion before that step.                                            *)
(*                                                                         *)
(* And the dates that are made of the chip's bytes: RTClib counts, orders  *)
(* and stores days as a calendar does, for every set of years of the       *)
(* century and all moments of a day, and each text that is made of a date  *)
(* is read back as that date.                                              *)
(***************************************************************************)
EXTENDS Publishing, BusRegister, CalendarWalk, FiniteSetTheorems, SequenceTheorems,
        WellFoundedInduction, TLAPS

--------------------------------------------------------------------------------
(* Running a script. *)

LEMMA NatSet ==
    ASSUME NEW P \in SUBSET Nat, 0 \in P, \A n \in P : n + 1 \in P
    PROVE  \A n \in Nat : n \in P
<1> SUFFICES ASSUME NEW n \in Nat, n \notin P PROVE FALSE
      OBVIOUS
<1> DEFINE N == Nat \ P
<1>1. PICK m \in N : \A k \in N : <<k, m>> \notin OpToRel(<, Nat)
      BY WFMin, NatLessThanWellFounded, Zenon
<1>2. \A k \in N : ~ (k < m)
      BY <1>1, Zenon DEF OpToRel
<1>3. m \in Nat /\ m \notin P /\ m # 0
      BY <1>1
<1>4. m - 1 \in Nat /\ m - 1 < m
      BY <1>3
<1>5. m - 1 \in P
      BY <1>2, <1>4
<1>6. (m - 1) + 1 \in P
      BY <1>5
<1> QED BY <1>3, <1>6

LEMMA RanIsRecursive ==
    ASSUME NEW script, NEW state, Len(script) \in Nat
    PROVE  \E after :
              /\ after[0] = state
              /\ \A n \in 1..Len(script) : after[n] = Done(after[n - 1], script[n])
              /\ Ran(script, state) = after[Len(script)]
<1> DEFINE Is(f, m) == f = [n \in 0..m |-> IF n = 0 THEN state ELSE Done(f[n - 1], script[n])]
           P == {m \in Nat : \E f : Is(f, m)}
<1>1. 0 \in P
      <2>1. Is([n \in 0..0 |-> state], 0)
            OBVIOUS
      <2> HIDE DEF Is
      <2> QED BY <2>1
<1>2. ASSUME NEW m \in P PROVE m + 1 \in P
      <2>1. PICK f : Is(f, m)
            BY <1>2
      <2> DEFINE g == [n \in 0..m + 1 |-> IF n = m + 1 THEN Done(f[m], script[m + 1]) ELSE f[n]]
      <2>2. g = [n \in 0..m + 1 |-> IF n = 0 THEN state ELSE Done(g[n - 1], script[n])]
            <3>1. ASSUME NEW n \in 0..m + 1
                  PROVE  g[n] = IF n = 0 THEN state ELSE Done(g[n - 1], script[n])
                  <4>1. CASE n = m + 1
                        BY <4>1
                  <4>2. CASE n # m + 1
                        <5>1. n \in 0..m /\ (n # 0 => n - 1 \in 0..m)
                              BY <4>2
                        <5>2. f[n] = IF n = 0 THEN state ELSE Done(f[n - 1], script[n])
                              BY <2>1, <5>1
                        <5> QED BY <4>2, <5>1, <5>2
                  <4> QED BY <4>1, <4>2
            <3> QED BY <3>1
      <2>3. m + 1 \in Nat
            OBVIOUS
      <2>4. Is(g, m + 1)
            BY <2>2
      <2> HIDE DEF Is, g
      <2> QED BY <2>3, <2>4
<1> HIDE DEF P
<1>3. P \in SUBSET Nat
      BY DEF P
<1>4. Len(script) \in P
      BY <1>1, <1>2, <1>3, NatSet
<1>5. \E f : Is(f, Len(script))
      BY <1>4 DEF P
<1> DEFINE after == CHOOSE f : Is(f, Len(script))
<1>6. Is(after, Len(script))
      <2> HIDE DEF Is
      <2> QED BY <1>5, Zenon
<1>7. Ran(script, state) = after[Len(script)]
      BY Zenon DEF Ran
<1>8. /\ after[0] = state
      /\ \A n \in 1..Len(script) : after[n] = Done(after[n - 1], script[n])
      <2> HIDE DEF after
      <2>1. after = [n \in 0..Len(script) |-> IF n = 0 THEN state ELSE Done(after[n - 1], script[n])]
            BY <1>6
      <2>2. \A n \in 1..Len(script) : n \in 0..Len(script) /\ n # 0
            OBVIOUS
      <2>3. 0 \in 0..Len(script)
            OBVIOUS
      <2> HIDE DEF Is
      <2> QED BY <2>1, <2>2, <2>3
<1> QED BY <1>7, <1>8

(* What a step does: the buffer, or one register.                           *)
Banks(s) == s = [bank |-> s.bank, buffer |-> s.buffer] /\ DOMAIN s.bank = Registers
            /\ s.bank = [r \in DOMAIN s.bank |-> s.bank[r]]
Steps == {"convert", "half", "put"}
Puts(step, r) == step.op \in {"half", "put"} /\ step.r = r
Word(s, step) == IF step.op = "half" THEN Half(s.buffer, step.i) ELSE step.word

LEMMA DoneDoes ==
    ASSUME NEW s, Banks(s), NEW step, step.op \in Steps,
           step.op # "convert" => step.r \in Registers
    PROVE  /\ Banks(Done(s, step))
           /\ Done(s, step).buffer = IF step.op = "convert" THEN step.float ELSE s.buffer
           /\ \A r \in Registers :
                Done(s, step).bank[r] = IF Puts(step, r) THEN Word(s, step) ELSE s.bank[r]
<1>1. CASE step.op = "convert"
      <2>1. Done(s, step) = [bank |-> s.bank, buffer |-> step.float]
            BY <1>1 DEF Done, Banks
      <2> QED BY <1>1, <2>1 DEF Banks, Puts
<1>2. CASE step.op = "half"
      <2>1. Done(s, step) = [bank |-> [s.bank EXCEPT ![step.r] = Half(s.buffer, step.i)],
                             buffer |-> s.buffer]
            BY <1>2 DEF Done, Banks
      <2> QED BY <1>2, <2>1 DEF Banks, Puts, Word
<1>3. CASE step.op = "put"
      <2>1. Done(s, step) = [bank |-> [s.bank EXCEPT ![step.r] = step.word],
                             buffer |-> s.buffer]
            BY <1>3 DEF Done, Banks
      <2> QED BY <1>3, <2>1 DEF Banks, Puts, Word
<1> QED BY <1>1, <1>2, <1>3 DEF Steps

(* A register that no step puts stays; one that is put last by step k has    *)
(* the word of that step, a half being of the float that was converted last, *)
(* which is one or two steps before.                                        *)
IsScript(script) ==
    /\ Len(script) \in Nat
    /\ \A n \in 1..Len(script) : /\ script[n].op \in Steps
                                 /\ script[n].op # "convert" => script[n].r \in Registers
LastPuts(script, k, r, word) ==
    /\ k \in 1..Len(script) /\ Puts(script[k], r)
    /\ \A n \in 1..Len(script) : n > k => ~ Puts(script[n], r)
    /\ script[k].op = "put" => script[k].word = word
    /\ script[k].op = "half" => \E j \in 1..(k - 1) :
          /\ script[j].op = "convert" /\ word = Half(script[j].float, script[k].i)
          /\ \A n \in 1..Len(script) : j < n /\ n < k => script[n].op # "convert"

LEMMA ScriptRuns ==
    ASSUME NEW script, IsScript(script), NEW state, Banks(state)
    PROVE  /\ Banks(Ran(script, state))
           /\ \A r \in Registers : (\A n \in 1..Len(script) : ~ Puts(script[n], r))
                 => Ran(script, state).bank[r] = state.bank[r]
           /\ \A r \in Registers : \A k \in 1..Len(script) : \A word :
                 LastPuts(script, k, r, word) => Ran(script, state).bank[r] = word
<1>1. PICK after :
         /\ after[0] = state
         /\ \A n \in 1..Len(script) : after[n] = Done(after[n - 1], script[n])
         /\ Ran(script, state) = after[Len(script)]
      BY RanIsRecursive DEF IsScript
<1> DEFINE L == Len(script)
<1>2. L \in Nat
      BY DEF IsScript
<1>3. \A n \in 0..L : Banks(after[n])
      <2> DEFINE P == {n \in Nat : n <= L => Banks(after[n])}
      <2>1. 0 \in P
            BY <1>1
      <2>2. ASSUME NEW n \in P PROVE n + 1 \in P
            <3> SUFFICES ASSUME n + 1 <= L PROVE Banks(after[n + 1])
                  OBVIOUS
            <3>1. n + 1 \in 1..L /\ (n + 1) - 1 = n /\ n <= L
                  BY <1>2
            <3>2. after[n + 1] = Done(after[n], script[n + 1])
                  BY <1>1, <3>1
            <3>3. Banks(after[n])
                  BY <3>1
            <3> QED BY <3>1, <3>2, <3>3, DoneDoes DEF IsScript
      <2> HIDE DEF P
      <2>3. P \in SUBSET Nat
            BY DEF P
      <2>4. \A n \in Nat : n \in P
            BY <2>1, <2>2, <2>3, NatSet
      <2> QED BY <1>2, <2>4 DEF P
<1>4. ASSUME NEW n \in 1..L
      PROVE  /\ after[n].buffer = IF script[n].op = "convert" THEN script[n].float
                                  ELSE after[n - 1].buffer
             /\ \A r \in Registers : after[n].bank[r] =
                    IF Puts(script[n], r) THEN Word(after[n - 1], script[n])
                    ELSE after[n - 1].bank[r]
      <2>1. n - 1 \in 0..L /\ Banks(after[n - 1]) /\ after[n] = Done(after[n - 1], script[n])
            BY <1>1, <1>2, <1>3
      <2>2. script[n].op \in Steps /\ (script[n].op # "convert" => script[n].r \in Registers)
            BY DEF IsScript
      <2> QED BY <2>1, <2>2, DoneDoes
<1>5. ASSUME NEW r \in Registers, NEW k \in 0..L,
             \A n \in 1..L : n > k => ~ Puts(script[n], r)
      PROVE  after[L].bank[r] = after[k].bank[r]
      <2> DEFINE P == {n \in Nat : k + n <= L => after[k + n].bank[r] = after[k].bank[r]}
      <2>1. 0 \in P
            BY <1>2
      <2>2. ASSUME NEW n \in P PROVE n + 1 \in P
            <3> SUFFICES ASSUME k + (n + 1) <= L
                         PROVE  after[k + (n + 1)].bank[r] = after[k].bank[r]
                  OBVIOUS
            <3> DEFINE m == k + (n + 1)
            <3>1. m \in 1..L /\ m > k /\ m - 1 = k + n /\ k + n <= L
                  BY <1>2
            <3>2. after[k + n].bank[r] = after[k].bank[r]
                  BY <3>1
            <3> HIDE DEF m
            <3>3. after[m].bank[r] = after[m - 1].bank[r]
                  BY <1>4, <1>5, <3>1
            <3> QED BY <3>1, <3>2, <3>3 DEF m
      <2> HIDE DEF P
      <2>3. P \in SUBSET Nat
            BY DEF P
      <2>4. \A n \in Nat : n \in P
            BY <2>1, <2>2, <2>3, NatSet
      <2>5. L - k \in P /\ k + (L - k) = L
            BY <1>2, <2>4
      <2> QED BY <2>5, <1>2 DEF P
<1>6. ASSUME NEW j \in 1..L, NEW k \in 1..L, j < k, script[j].op = "convert",
             \A n \in 1..L : j < n /\ n < k => script[n].op # "convert"
      PROVE  after[k - 1].buffer = script[j].float
      <2> DEFINE P == {n \in Nat : j + n < k => after[j + n].buffer = script[j].float}
      <2>1. 0 \in P
            BY <1>2, <1>4, <1>6
      <2>2. ASSUME NEW n \in P PROVE n + 1 \in P
            <3> SUFFICES ASSUME j + (n + 1) < k
                         PROVE  after[j + (n + 1)].buffer = script[j].float
                  OBVIOUS
            <3> DEFINE m == j + (n + 1)
            <3>1. m \in 1..L /\ j < m /\ m < k /\ m - 1 = j + n /\ j + n < k
                  BY <1>2
            <3>2. after[j + n].buffer = script[j].float
                  BY <3>1
            <3> HIDE DEF m
            <3>3. after[m].buffer = after[m - 1].buffer
                  BY <1>4, <1>6, <3>1
            <3> QED BY <3>1, <3>2, <3>3 DEF m
      <2> HIDE DEF P
      <2>3. P \in SUBSET Nat
            BY DEF P
      <2>4. \A n \in Nat : n \in P
            BY <2>1, <2>2, <2>3, NatSet
      <2>5. k - 1 - j \in Nat /\ j + (k - 1 - j) = k - 1 /\ k - 1 < k
            BY <1>2, <1>6
      <2>6. k - 1 - j \in P
            BY <2>4, <2>5
      <2> QED BY <2>5, <2>6 DEF P
<1>7. Banks(Ran(script, state))
      BY <1>1, <1>2, <1>3
<1>8. ASSUME NEW r \in Registers, \A n \in 1..L : ~ Puts(script[n], r)
      PROVE  Ran(script, state).bank[r] = state.bank[r]
      <2>1. 0 \in 0..L
            BY <1>2
      <2> QED BY <1>1, <1>5, <1>8, <2>1
<1>9. ASSUME NEW r \in Registers, NEW k \in 1..L, NEW word, LastPuts(script, k, r, word)
      PROVE  Ran(script, state).bank[r] = word
      <2>1. k \in 0..L /\ after[L].bank[r] = after[k].bank[r]
            BY <1>2, <1>5, <1>9 DEF LastPuts
      <2>2. after[k].bank[r] = Word(after[k - 1], script[k])
            BY <1>4, <1>9 DEF LastPuts
      <2>3. CASE script[k].op = "put"
            BY <1>1, <1>9, <2>1, <2>2, <2>3 DEF LastPuts, Word
      <2>4. CASE script[k].op = "half"
            <3>1. PICK j \in 1..(k - 1) :
                     /\ script[j].op = "convert" /\ word = Half(script[j].float, script[k].i)
                     /\ \A n \in 1..L : j < n /\ n < k => script[n].op # "convert"
                  BY <1>9, <2>4 DEF LastPuts
            <3>2. j \in 1..L /\ j < k
                  BY <1>2
            <3>3. after[k - 1].buffer = script[j].float
                  BY <1>6, <3>1, <3>2
            <3> QED BY <1>1, <2>1, <2>2, <2>4, <3>1, <3>3 DEF Word
      <2> QED BY <1>9, <2>3, <2>4 DEF LastPuts, Puts
<1> QED BY <1>7, <1>8, <1>9

--------------------------------------------------------------------------------
(* The scripts of the MB_Slave_Write_ functions.                            *)

LEMMA Kinds ==
    /\ \A f : Convert(f).op = "convert" /\ Convert(f).float = f /\ Convert(f).op \in Steps
    /\ \A r, i : /\ PutHalf(r, i).op = "half" /\ PutHalf(r, i).r = r /\ PutHalf(r, i).i = i
                 /\ PutHalf(r, i).op \in Steps
    /\ \A r, w : /\ Put(r, w).op = "put" /\ Put(r, w).r = r /\ Put(r, w).word = w
                 /\ Put(r, w).op \in Steps
    /\ \A f, r : ~ Puts(Convert(f), r)
    /\ \A q, i, r : Puts(PutHalf(q, i), r) <=> q = r
    /\ \A q, w, r : Puts(Put(q, w), r) <=> q = r
BY DEF Convert, PutHalf, Put, Puts, Steps

LEMMA Bank == Registers = 0..226
BY DEF Registers, NUMBER_REGISTER_USED

LEMMA ThirdOf ==
    ASSUME NEW n \in 1..48
    PROVE  \E i \in 0..15 : n \in {3 * i + 1, 3 * i + 2, 3 * i + 3}
<1>1. (n - 1) \div 3 \in 0..15
      OBVIOUS
<1> QED BY <1>1

LEMMA SensorSteps ==
    ASSUME NEW data, NEW i \in 0..15
    PROVE  /\ MB_Slave_Write_Sensor(data)[3 * i + 1] = Convert(data[i + 1])
           /\ MB_Slave_Write_Sensor(data)[3 * i + 2] = PutHalf(2 * i, 0)
           /\ MB_Slave_Write_Sensor(data)[3 * i + 3] = PutHalf(2 * i + 1, 1)
<1> DEFINE s == MB_Slave_Write_Sensor(data)
<1>1. \A k \in 1..48 : s[k] = Float(2 * ((k - 1) \div 3), data[((k - 1) \div 3) + 1])[((k - 1) % 3) + 1]
      BY DEF MB_Slave_Write_Sensor, SENSOR_NUMBER, SENSOR_DATA_START_REGISTER
<1>2. /\ 3 * i + 1 \in 1..48 /\ ((3 * i + 1) - 1) \div 3 = i /\ (((3 * i + 1) - 1) % 3) + 1 = 1
      /\ 3 * i + 2 \in 1..48 /\ ((3 * i + 2) - 1) \div 3 = i /\ (((3 * i + 2) - 1) % 3) + 1 = 2
      /\ 3 * i + 3 \in 1..48 /\ ((3 * i + 3) - 1) \div 3 = i /\ (((3 * i + 3) - 1) % 3) + 1 = 3
      OBVIOUS
<1> HIDE DEF s
<1>3. /\ s[3 * i + 1] = Float(2 * i, data[i + 1])[1]
      /\ s[3 * i + 2] = Float(2 * i, data[i + 1])[2]
      /\ s[3 * i + 3] = Float(2 * i, data[i + 1])[3]
      BY <1>1, <1>2
<1> QED BY <1>3 DEF Float, s

(* Each value in two registers.                                             *)
LEMMA SensorRuns ==
    ASSUME NEW data, NEW state, Banks(state)
    PROVE  /\ Banks(Ran(MB_Slave_Write_Sensor(data), state))
           /\ \A r \in Registers : Ran(MB_Slave_Write_Sensor(data), state).bank[r] =
                 IF r \in 0..31 THEN Half(data[(r \div 2) + 1], r % 2) ELSE state.bank[r]
<1> DEFINE s == MB_Slave_Write_Sensor(data)
<1>1. Len(s) = 48
      BY DEF MB_Slave_Write_Sensor, SENSOR_NUMBER
<1>2. \A i \in 0..15 : /\ s[3 * i + 1] = Convert(data[i + 1])
                       /\ s[3 * i + 2] = PutHalf(2 * i, 0)
                       /\ s[3 * i + 3] = PutHalf(2 * i + 1, 1)
      BY SensorSteps
<1> HIDE DEF s
<1>3. \A n \in 1..48 : \E i \in 0..15 :
         \/ n = 3 * i + 1 /\ s[n] = Convert(data[i + 1])
         \/ n = 3 * i + 2 /\ s[n] = PutHalf(2 * i, 0)
         \/ n = 3 * i + 3 /\ s[n] = PutHalf(2 * i + 1, 1)
      BY <1>2, ThirdOf
<1>4. IsScript(s)
      BY <1>1, <1>3, Kinds, Bank DEF IsScript
<1>5. ASSUME NEW r \in Registers, r \notin 0..31, NEW n \in 1..48
      PROVE  ~ Puts(s[n], r)
      BY <1>3, <1>5, Kinds, Bank
<1>6. ASSUME NEW r \in 0..31
      PROVE  \E k \in 1..48 : LastPuts(s, k, r, Half(data[(r \div 2) + 1], r % 2))
      <2> DEFINE i == r \div 2
                 k == 3 * i + 2 + (r % 2)
      <2>1. i \in 0..15 /\ r % 2 \in {0, 1} /\ r = 2 * i + (r % 2)
            OBVIOUS
      <2>2. /\ k \in 1..48 /\ 3 * i + 1 \in 1..(k - 1)
            /\ s[3 * i + 1] = Convert(data[i + 1]) /\ s[k] = PutHalf(r, r % 2)
            BY <1>2, <2>1
      <2>3. ASSUME NEW n \in 1..48, n > k PROVE ~ Puts(s[n], r)
            BY <1>3, <2>1, <2>3, Kinds
      <2>4. ASSUME NEW n \in 1..48, 3 * i + 1 < n, n < k PROVE s[n].op # "convert"
            BY <1>3, <2>1, <2>4, Kinds
      <2> HIDE DEF i, k
      <2>5. LastPuts(s, k, r, Half(data[i + 1], r % 2))
            BY <1>1, <2>2, <2>3, <2>4, Kinds DEF LastPuts
      <2> QED BY <2>2, <2>5 DEF i
<1>7. Banks(Ran(s, state))
      BY <1>4, ScriptRuns
<1>8. ASSUME NEW r \in Registers, r \notin 0..31
      PROVE  Ran(s, state).bank[r] = state.bank[r]
      <2>1. \A n \in 1..Len(s) : ~ Puts(s[n], r)
            BY <1>1, <1>5, <1>8
      <2> QED BY <1>4, <2>1, ScriptRuns
<1>9. ASSUME NEW r \in Registers, r \in 0..31
      PROVE  Ran(s, state).bank[r] = Half(data[(r \div 2) + 1], r % 2)
      <2>1. PICK k \in 1..48 : LastPuts(s, k, r, Half(data[(r \div 2) + 1], r % 2))
            BY <1>6, <1>9
      <2>2. k \in 1..Len(s)
            BY <1>1
      <2> QED BY <1>4, <2>1, <2>2, ScriptRuns
<1> QED BY <1>7, <1>8, <1>9 DEF s

(* Scripts that only put words, into registers that follow each other.      *)
PutsAll(s, first, last, word) ==
    /\ first \in Registers /\ last \in Registers /\ first <= last
    /\ Len(s) = (last - first) + 1
    /\ \A r \in first..last : s[(r - first) + 1] = Put(r, word[r])

LEMMA PutsRun ==
    ASSUME NEW s, NEW first, NEW last, NEW word, PutsAll(s, first, last, word),
           NEW state, Banks(state)
    PROVE  /\ Banks(Ran(s, state))
           /\ \A r \in Registers :
                Ran(s, state).bank[r] = IF r \in first..last THEN word[r] ELSE state.bank[r]
<1>1. first \in Nat /\ last \in Nat /\ first..last \subseteq Registers
      BY Bank DEF PutsAll
<1>2. ASSUME NEW n \in 1..Len(s)
      PROVE  s[n] = Put(first + (n - 1), word[first + (n - 1)]) /\ first + (n - 1) \in first..last
      <2>1. first + (n - 1) \in first..last /\ ((first + (n - 1)) - first) + 1 = n
            BY <1>1 DEF PutsAll
      <2> QED BY <2>1 DEF PutsAll
<1>3. IsScript(s)
      <2>1. \A n \in 1..Len(s) : /\ s[n].op = "put" /\ s[n].op \in Steps
                                 /\ s[n].r = first + (n - 1) /\ s[n].r \in Registers
            BY <1>1, <1>2, Kinds
      <2>2. Len(s) \in Nat
            BY <1>1 DEF PutsAll
      <2> QED BY <2>1, <2>2 DEF IsScript
<1>4. ASSUME NEW r \in Registers, r \notin first..last
      PROVE  \A n \in 1..Len(s) : ~ Puts(s[n], r)
      BY <1>2, <1>4, Kinds
<1>5. ASSUME NEW r \in first..last
      PROVE  (r - first) + 1 \in 1..Len(s) /\ LastPuts(s, (r - first) + 1, r, word[r])
      <2> DEFINE k == (r - first) + 1
      <2>1. k \in 1..Len(s) /\ s[k] = Put(r, word[r])
            BY <1>1 DEF PutsAll
      <2>2. \A n \in 1..Len(s) : n > k => first + (n - 1) # r
            BY <1>1
      <2> HIDE DEF k
      <2>3. \A n \in 1..Len(s) : n > k => ~ Puts(s[n], r)
            BY <1>2, <2>2, Kinds
      <2> QED BY <2>1, <2>3, Kinds DEF LastPuts, k
<1>6. Banks(Ran(s, state))
      BY <1>3, ScriptRuns
<1>7. ASSUME NEW r \in Registers, r \notin first..last
      PROVE  Ran(s, state).bank[r] = state.bank[r]
      BY <1>3, <1>4, <1>7, ScriptRuns
<1>8. ASSUME NEW r \in Registers, r \in first..last
      PROVE  Ran(s, state).bank[r] = word[r]
      BY <1>3, <1>5, <1>8, ScriptRuns
<1> QED BY <1>6, <1>7, <1>8

(* One register only. *)
Only(first, word) == [r \in first..first |-> word]

LEMMA ChangePuts ==
    ASSUME NEW data
    PROVE  PutsAll(MB_Slave_Write_Button_Change(data), 40, 40, Only(40, Number(data)))
BY Bank DEF PutsAll, Only, MB_Slave_Write_Button_Change, BUTTON_CHANGE_START_REGISTER

LEMMA StatusPuts ==
    ASSUME NEW data
    PROVE  PutsAll(MB_Slave_Write_Status(data), 41, 41, Only(41, Number(data)))
BY Bank DEF PutsAll, Only, MB_Slave_Write_Status, STATUS_START_REGISTER

LEMMA GetStatusPuts ==
    ASSUME NEW data
    PROVE  PutsAll(MB_Slave_Write_Get_Status(data), 54, 54, Only(54, Number(data)))
BY Bank DEF PutsAll, Only, MB_Slave_Write_Get_Status, GET_STATUS_START_REGISTER

LEMMA ConfigPuts ==
    ASSUME NEW data
    PROVE  PutsAll(MB_Slave_Write_Request_Config(data), 60, 60, Only(60, Number(data)))
BY Bank DEF PutsAll, Only, MB_Slave_Write_Request_Config, REQUEST_CONFIG_START_REGISTER

StateWords(data) == [r \in 32..39 |-> Pair(data[2 * (r - 32) + 1], data[2 * (r - 32) + 2])]
LEMMA StatePuts ==
    ASSUME NEW data
    PROVE  PutsAll(MB_Slave_Write_Button_State(data), 32, 39, StateWords(data))
<1> DEFINE s == MB_Slave_Write_Button_State(data)
<1>1. s = [i \in 1..8 |-> Put(32 + i - 1, Pair(data[2 * i - 1], data[2 * i]))]
      BY DEF MB_Slave_Write_Button_State, BUTTON_DATA_START_REGISTER, BUTTON_NUMBER
<1>2. ASSUME NEW r \in 32..39 PROVE s[(r - 32) + 1] = Put(r, StateWords(data)[r])
      <2> DEFINE i == (r - 32) + 1
      <2>1. i \in 1..8 /\ 32 + i - 1 = r /\ 2 * i - 1 = 2 * (r - 32) + 1 /\ 2 * i = 2 * (r - 32) + 2
            OBVIOUS
      <2> HIDE DEF s, i
      <2>2. s[i] = Put(32 + i - 1, Pair(data[2 * i - 1], data[2 * i]))
            BY <1>1, <2>1
      <2> QED BY <2>1, <2>2 DEF i, StateWords
<1>3. Len(s) = 8
      BY <1>1
<1> HIDE DEF s
<1>4. PutsAll(s, 32, 39, StateWords(data))
      BY <1>2, <1>3, Bank DEF PutsAll
<1> QED BY <1>4 DEF s

LEMMA Joined ==
    ASSUME NEW S, NEW a \in Seq(S), NEW b \in Seq(S)
    PROVE  /\ a \o b \in Seq(S) /\ Len(a \o b) = Len(a) + Len(b)
           /\ \A i \in 1..Len(a) : (a \o b)[i] = a[i]
           /\ \A i \in 1..Len(b) : (a \o b)[Len(a) + i] = b[i]
OBVIOUS

PingWords(data, phone) ==
    [r \in 42..47 |-> IF r = 42 THEN Number(data)
                      ELSE Pair(phone[2 * (r - 43) + 1], phone[2 * (r - 43) + 2])]
LEMMA PingPuts ==
    ASSUME NEW data, NEW phone
    PROVE  PutsAll(MB_Slave_Write_Ping_Status(data, phone), 42, 47, PingWords(data, phone))
<1> DEFINE s == MB_Slave_Write_Ping_Status(data, phone)
           first == <<Put(42, Number(data))>>
           rest == [i \in 1..5 |-> Put(42 + i, Pair(phone[2 * i - 1], phone[2 * i]))]
<1>1. s = first \o rest
      BY DEF MB_Slave_Write_Ping_Status, PING_STATUS_START_REGISTER
<1>2. Len(first) = 1 /\ Len(rest) = 5 /\ first[1] = Put(42, Number(data))
      OBVIOUS
<1> DEFINE S == {first[1]} \cup {rest[i] : i \in 1..5}
<1>3. first \in Seq(S) /\ rest \in Seq(S)
      OBVIOUS
<1> HIDE DEF s, first, S
<1>4. Len(s) = 6 /\ s[1] = Put(42, Number(data)) /\ \A n \in 2..6 : s[n] = rest[n - 1]
      <2> HIDE DEF rest
      <2>1. /\ Len(s) = 6 /\ \A i \in 1..1 : s[i] = first[i]
            /\ \A i \in 1..5 : s[1 + i] = rest[i]
            <3>1. /\ Len(first \o rest) = Len(first) + Len(rest)
                  /\ \A i \in 1..Len(first) : (first \o rest)[i] = first[i]
                  /\ \A i \in 1..Len(rest) : (first \o rest)[Len(first) + i] = rest[i]
                  BY <1>3, Joined
            <3> QED BY <1>1, <1>2, <3>1
      <2>2. \A n \in 2..6 : n - 1 \in 1..5 /\ 1 + (n - 1) = n
            OBVIOUS
      <2>3. 1 \in 1..1
            OBVIOUS
      <2> QED BY <1>2, <2>1, <2>2, <2>3
<1>5. ASSUME NEW r \in 42..47 PROVE s[(r - 42) + 1] = Put(r, PingWords(data, phone)[r])
      <2>1. CASE r = 42
            BY <1>4, <2>1 DEF PingWords
      <2>2. CASE r # 42
            <3> DEFINE i == r - 42
            <3>1. /\ i \in 1..5 /\ i + 1 \in 2..6 /\ (i + 1) - 1 = i /\ 42 + i = r
                  /\ 2 * i - 1 = 2 * (r - 43) + 1 /\ 2 * i = 2 * (r - 43) + 2
                  BY <2>2
            <3>2. s[i + 1] = rest[i]
                  BY <1>4, <3>1
            <3> HIDE DEF i
            <3>3. rest[i] = Put(42 + i, Pair(phone[2 * i - 1], phone[2 * i]))
                  BY <3>1
            <3> HIDE DEF rest
            <3> QED BY <2>2, <3>1, <3>2, <3>3 DEF PingWords, i
      <2> QED BY <2>1, <2>2
<1> HIDE DEF rest
<1>6. PutsAll(s, 42, 47, PingWords(data, phone))
      BY <1>4, <1>5, Bank DEF PutsAll
<1> QED BY <1>6 DEF s

Threes(S) == {s \in Seq(S) : Len(s) = 3}
LEMMA ThreeThrees ==
    ASSUME NEW S, NEW u \in Threes(S), NEW v \in Threes(S), NEW w \in Threes(S)
    PROVE  LET s == u \o v \o w
           IN  /\ Len(s) = 9 /\ s[1] = u[1] /\ s[2] = u[2] /\ s[3] = u[3]
               /\ s[4] = v[1] /\ s[5] = v[2] /\ s[6] = v[3]
               /\ s[7] = w[1] /\ s[8] = w[2] /\ s[9] = w[3]
<1>1. /\ u \o v \in Seq(S) /\ Len(u \o v) = 6
      /\ \A i \in 1..3 : (u \o v)[i] = u[i] /\ (u \o v)[3 + i] = v[i]
      <2>0. u \in Seq(S) /\ v \in Seq(S)
            BY DEF Threes
      <2>1. /\ u \o v \in Seq(S) /\ Len(u \o v) = Len(u) + Len(v)
            /\ \A i \in 1..Len(u) : (u \o v)[i] = u[i]
            /\ \A i \in 1..Len(v) : (u \o v)[Len(u) + i] = v[i]
            BY ONLY <2>0, Joined
      <2>2. Len(u) = 3 /\ Len(v) = 3
            BY DEF Threes
      <2> QED BY ONLY <2>1, <2>2
<1> DEFINE t == u \o v
<1>2. t \in Seq(S) /\ Len(t) = 6 /\ t[1] = u[1] /\ t[2] = u[2] /\ t[3] = u[3]
      /\ t[4] = v[1] /\ t[5] = v[2] /\ t[6] = v[3]
      BY <1>1
<1> HIDE DEF t
<1>3. /\ Len(t \o w) = 9 /\ \A i \in 1..6 : (t \o w)[i] = t[i]
      /\ \A i \in 1..3 : (t \o w)[6 + i] = w[i]
      <2>0. t \in Seq(S) /\ w \in Seq(S)
            BY <1>2 DEF Threes
      <2>1. /\ Len(t \o w) = Len(t) + Len(w)
            /\ \A i \in 1..Len(t) : (t \o w)[i] = t[i]
            /\ \A i \in 1..Len(w) : (t \o w)[Len(t) + i] = w[i]
            BY ONLY <2>0, Joined
      <2>2. Len(t) = 6 /\ Len(w) = 3
            BY <1>2 DEF Threes
      <2> QED BY ONLY <2>1, <2>2
<1>4. /\ Len(t \o w) = 9
      /\ (t \o w)[1] = t[1] /\ (t \o w)[2] = t[2] /\ (t \o w)[3] = t[3]
      /\ (t \o w)[4] = t[4] /\ (t \o w)[5] = t[5] /\ (t \o w)[6] = t[6]
      /\ (t \o w)[7] = w[1] /\ (t \o w)[8] = w[2] /\ (t \o w)[9] = w[3]
      BY <1>3
<1> QED BY <1>2, <1>4 DEF t

(* Three values, each in two registers.                                     *)
Triple(a, b, c) == <<a, b, c>>
LEMMA CalibRuns ==
    ASSUME NEW a, NEW b, NEW c, NEW state, Banks(state)
    PROVE  /\ Banks(Ran(MB_Slave_Write_Calib_Parameters(a, b, c), state))
           /\ \A r \in Registers :
                Ran(MB_Slave_Write_Calib_Parameters(a, b, c), state).bank[r] =
                 IF r \in 48..53 THEN Half(Triple(a, b, c)[((r - 48) \div 2) + 1], r % 2)
                 ELSE state.bank[r]
<1> DEFINE s == MB_Slave_Write_Calib_Parameters(a, b, c)
           data == Triple(a, b, c)
           S == {Convert(f) : f \in {a, b, c}} \cup {PutHalf(q, i) : q \in 48..53, i \in 0..1}
<1>1. s = Float(48, a) \o Float(50, b) \o Float(52, c)
      BY DEF MB_Slave_Write_Calib_Parameters, CALIB_PARAMETERS_START_REGISTER
<1> HIDE DEF s
<1>2. ASSUME NEW r \in {48, 50, 52}, NEW f \in {a, b, c}
      PROVE  /\ Float(r, f) \in Seq(S) /\ Len(Float(r, f)) = 3
             /\ Float(r, f)[1] = Convert(f) /\ Float(r, f)[2] = PutHalf(r, 0)
             /\ Float(r, f)[3] = PutHalf(r + 1, 1)
      <2>1. /\ Len(Float(r, f)) = 3 /\ Float(r, f) = [i \in 1..3 |-> Float(r, f)[i]]
            /\ Float(r, f)[1] = Convert(f) /\ Float(r, f)[2] = PutHalf(r, 0)
            /\ Float(r, f)[3] = PutHalf(r + 1, 1)
            BY DEF Float
      <2>2. \A i \in 1..3 : Float(r, f)[i] \in S
            <3>1. Convert(f) \in S
                  OBVIOUS
            <3>2. r \in 48..53 /\ r + 1 \in 48..53 /\ 0 \in 0..1 /\ 1 \in 0..1
                  OBVIOUS
            <3>3. PutHalf(r, 0) \in S /\ PutHalf(r + 1, 1) \in S
                  BY <3>2
            <3>4. \A i \in 1..3 : i = 1 \/ i = 2 \/ i = 3
                  OBVIOUS
            <3> HIDE DEF S
            <3> QED BY <2>1, <3>1, <3>3, <3>4
      <2> HIDE DEF S
      <2> QED BY <2>1, <2>2
<1> HIDE DEF S
<1>3. /\ Len(s) = 9
      /\ s[1] = Convert(a) /\ s[2] = PutHalf(48, 0) /\ s[3] = PutHalf(49, 1)
      /\ s[4] = Convert(b) /\ s[5] = PutHalf(50, 0) /\ s[6] = PutHalf(51, 1)
      /\ s[7] = Convert(c) /\ s[8] = PutHalf(52, 0) /\ s[9] = PutHalf(53, 1)
      <2> DEFINE u == Float(48, a)
                 v == Float(50, b)
                 w == Float(52, c)
      <2>1. u \in Threes(S) /\ v \in Threes(S) /\ w \in Threes(S) /\ s = u \o v \o w
            BY <1>1, <1>2 DEF Threes
      <2> HIDE DEF u, v, w
      <2>2. /\ Len(s) = 9 /\ s[1] = u[1] /\ s[2] = u[2] /\ s[3] = u[3]
            /\ s[4] = v[1] /\ s[5] = v[2] /\ s[6] = v[3]
            /\ s[7] = w[1] /\ s[8] = w[2] /\ s[9] = w[3]
            BY ONLY <2>1, ThreeThrees
      <2>5. 48 + 1 = 49 /\ 50 + 1 = 51 /\ 52 + 1 = 53
            OBVIOUS
      <2> QED BY <1>2, <2>2, <2>5 DEF u, v, w
<1>4. \A n \in 1..9 : n \in {1, 2, 3, 4, 5, 6, 7, 8, 9}
      OBVIOUS
<1>5. IsScript(s)
      <2>1. \A q \in 48..53 : q \in Registers
            BY Bank
      <2>2. \A n \in 1..9 : /\ s[n].op \in Steps
                            /\ s[n].op # "convert" => s[n].r \in Registers
            BY <1>3, <1>4, <2>1, Kinds
      <2> QED BY <1>3, <2>2 DEF IsScript
<1>6. ASSUME NEW r \in Registers, r \notin 48..53, NEW n \in 1..9
      PROVE  ~ Puts(s[n], r)
      BY <1>3, <1>4, <1>6, Kinds
<1>7. /\ LastPuts(s, 2, 48, Half(a, 0)) /\ LastPuts(s, 3, 49, Half(a, 1))
      /\ LastPuts(s, 5, 50, Half(b, 0)) /\ LastPuts(s, 6, 51, Half(b, 1))
      /\ LastPuts(s, 8, 52, Half(c, 0)) /\ LastPuts(s, 9, 53, Half(c, 1))
      <2> DEFINE Halves(j, f, q) ==
                   /\ LastPuts(s, j + 1, q, Half(f, 0))
                   /\ LastPuts(s, j + 2, q + 1, Half(f, 1))
      <2>1. ASSUME NEW j \in {1, 4, 7}, NEW f, NEW q \in {48, 50, 52}, s[j] = Convert(f),
                   s[j + 1] = PutHalf(q, 0), s[j + 2] = PutHalf(q + 1, 1),
                   \A n \in 1..9 : n > j + 2 => ~ Puts(s[n], q) /\ ~ Puts(s[n], q + 1)
            PROVE  Halves(j, f, q)
            <3>1. /\ j + 1 \in 1..Len(s) /\ j + 2 \in 1..Len(s)
                  /\ j \in 1..((j + 1) - 1) /\ j \in 1..((j + 2) - 1)
                  /\ \A n \in 1..Len(s) : n > j + 1 => n = j + 2 \/ n > j + 2
                  /\ \A n \in 1..Len(s) : ~ (j < n /\ n < j + 1)
                  /\ \A n \in 1..Len(s) : j < n /\ n < j + 2 => n = j + 1
                  /\ q # q + 1
                  BY <1>3
            <3>2. LastPuts(s, j + 1, q, Half(f, 0))
                  BY <1>3, <2>1, <3>1, Kinds DEF LastPuts
            <3>3. LastPuts(s, j + 2, q + 1, Half(f, 1))
                  BY <1>3, <2>1, <3>1, Kinds DEF LastPuts
            <3> QED BY <3>2, <3>3
      <2>2. \A n \in 1..9 : n > 3 => ~ Puts(s[n], 48) /\ ~ Puts(s[n], 49)
            BY <1>3, <1>4, Kinds
      <2>3. \A n \in 1..9 : n > 6 => ~ Puts(s[n], 50) /\ ~ Puts(s[n], 51)
            BY <1>3, <1>4, Kinds
      <2>4. \A n \in 1..9 : ~ (n > 9)
            OBVIOUS
      <2> HIDE DEF Halves
      <2>5. Halves(1, a, 48) /\ Halves(4, b, 50) /\ Halves(7, c, 52)
            BY <1>3, <2>1, <2>2, <2>3, <2>4
      <2> QED BY <2>5 DEF Halves
<1>8. ASSUME NEW r \in 48..53
      PROVE  \E k \in 1..Len(s) : LastPuts(s, k, r, Half(data[((r - 48) \div 2) + 1], r % 2))
      <2>1. /\ 2 \in 1..Len(s) /\ 3 \in 1..Len(s) /\ 5 \in 1..Len(s)
            /\ 6 \in 1..Len(s) /\ 8 \in 1..Len(s) /\ 9 \in 1..Len(s)
            BY <1>3
      <2>2. data[1] = a /\ data[2] = b /\ data[3] = c
            BY DEF Triple
      <2> HIDE DEF data
      <2>3. \/ r = 48 /\ ((r - 48) \div 2) + 1 = 1 /\ r % 2 = 0
            \/ r = 49 /\ ((r - 48) \div 2) + 1 = 1 /\ r % 2 = 1
            \/ r = 50 /\ ((r - 48) \div 2) + 1 = 2 /\ r % 2 = 0
            \/ r = 51 /\ ((r - 48) \div 2) + 1 = 2 /\ r % 2 = 1
            \/ r = 52 /\ ((r - 48) \div 2) + 1 = 3 /\ r % 2 = 0
            \/ r = 53 /\ ((r - 48) \div 2) + 1 = 3 /\ r % 2 = 1
            OBVIOUS
      <2> QED BY <1>7, <2>1, <2>2, <2>3
<1> HIDE DEF data
<1>9. Banks(Ran(s, state))
      BY <1>5, ScriptRuns
<1>10. ASSUME NEW r \in Registers, r \notin 48..53
       PROVE  Ran(s, state).bank[r] = state.bank[r]
       <2>1. \A n \in 1..Len(s) : ~ Puts(s[n], r)
             BY <1>3, <1>6, <1>10
       <2> QED BY <1>5, <2>1, ScriptRuns
<1>11. ASSUME NEW r \in Registers, r \in 48..53
       PROVE  Ran(s, state).bank[r] = Half(data[((r - 48) \div 2) + 1], r % 2)
       BY <1>5, <1>8, <1>11, ScriptRuns
<1> QED BY <1>9, <1>10, <1>11 DEF s, data
--------------------------------------------------------------------------------
(* The pass.                                                                *)

(* Which of the scripts has put a register when the pass is at a place.      *)
Ready(r, pc) ==
    CASE r \in 0..31 -> pc \notin {"arguments", "sensor"}
      [] r = 40 -> pc \notin {"arguments", "sensor", "change"}
      [] r \in 32..39 -> pc \notin {"arguments", "sensor", "change", "state"}
      [] r = 41 -> pc \in {"calib", "get", "ping", "config", "task"}
      [] r \in 48..53 -> pc \in {"get", "ping", "config", "task"}
      [] r = 54 -> pc \in {"ping", "config", "task"}
      [] r \in 42..47 -> pc \in {"config", "task"}
      [] r = 60 -> pc = "task"
      [] OTHER -> TRUE

PublishingInv ==
    /\ pcRun \in {"arguments", "sensor", "change", "state", "status", "calib", "get", "ping",
                  "config", "task"}
    /\ DOMAIN hreg = Registers /\ hreg = [r \in DOMAIN hreg |-> hreg[r]]
    /\ written = [r \in Asked |-> written[r]]
    /\ \A r \in Registers : Ready(r, pcRun) => hreg[r] = Layout(r, pass, written)
    /\ AnswersShowOnePass

LEMMA Places == Asked \subseteq 61..226
BY PublishingAssumption DEF REQUEST_CONFIG_START_REGISTER, NUMBER_REGISTER_USED

(* The layout without what the master has written depends on the pass only,  *)
(* and the rest on nothing else.                                            *)
LEMMA SensorLayout ==
    ASSUME NEW p, NEW own, NEW r \in 0..31
    PROVE  Half(SensorData(p.sensor)[(r \div 2) + 1], r % 2) = Layout(r, p, own)
<1>1. /\ (r \div 2) + 1 \in 1..16 /\ (r \in 0..1 <=> (r \div 2) + 1 = 1)
      /\ r \in 0..1 => r % 2 = r
      /\ r \in 0..1 \/ r \in 2..31
      OBVIOUS
<1>2. SensorData(p.sensor)[(r \div 2) + 1] = IF r \in 0..1 THEN p.sensor ELSE "100.5"
      BY <1>1 DEF SensorData, SENSOR_NUMBER
<1> QED BY <1>1, <1>2, Places DEF Layout

LEMMA StateLayout ==
    ASSUME NEW p, NEW own, NEW r \in 32..39
    PROVE  StateWords(ButtonData(p.md_time))[r] = Layout(r, p, own)
<1> DEFINE d == ButtonData(p.md_time)
<1>1. StateWords(d)[r] = Pair(d[2 * (r - 32) + 1], d[2 * (r - 32) + 2])
      BY DEF StateWords
<1>2. \A i \in 1..20 : d[i] = IF i <= 7 THEN p.md_time[i] ELSE 100
      BY DEF ButtonData
<1> SUFFICES StateWords(d)[r] = Layout(r, p, own)
      OBVIOUS
<1> HIDE DEF d
<1>3. CASE r \in 32..34
      <2>1. 2 * (r - 32) + 1 \in 1..7 /\ 2 * (r - 32) + 2 \in 1..7
            BY <1>3
      <2>2. d[2 * (r - 32) + 1] = p.md_time[2 * (r - 32) + 1]
            /\ d[2 * (r - 32) + 2] = p.md_time[2 * (r - 32) + 2]
            BY <1>2, <2>1
      <2>3. Layout(r, p, own) = Pair(p.md_time[2 * (r - 32) + 1], p.md_time[2 * (r - 32) + 2])
            BY <1>3, Places DEF Layout
      <2> QED BY <1>1, <2>2, <2>3
<1>4. CASE r = 35
      <2>1. Layout(r, p, own) = Pair(p.md_time[7], 100)
            BY <1>4, Places DEF Layout
      <2>2. 2 * (r - 32) + 1 = 7 /\ 2 * (r - 32) + 2 = 8
            BY <1>4
      <2> QED BY <1>1, <1>2, <2>1, <2>2
<1>5. CASE r \in 36..39
      <2>1. Layout(r, p, own) = Pair(100, 100)
            BY <1>5, Places DEF Layout
      <2>2. /\ 2 * (r - 32) + 1 \in 1..20 /\ 2 * (r - 32) + 1 > 7
            /\ 2 * (r - 32) + 2 \in 1..20 /\ 2 * (r - 32) + 2 > 7
            BY <1>5
      <2>3. d[2 * (r - 32) + 1] = 100 /\ d[2 * (r - 32) + 2] = 100
            BY <1>2, <2>2
      <2> QED BY <1>1, <2>1, <2>3
<1> QED BY <1>3, <1>4, <1>5

LEMMA PingLayout ==
    ASSUME NEW p, NEW own, NEW r \in 42..47
    PROVE  PingWords(p.ping, p.phone)[r] = Layout(r, p, own)
<1>1. CASE r = 42
      BY <1>1, Places DEF PingWords, Layout
<1>2. CASE r \in 43..47
      <2>1. Layout(r, p, own) = Pair(p.phone[2 * (r - 43) + 1], p.phone[2 * (r - 43) + 2])
            BY <1>2, Places DEF Layout
      <2> QED BY <1>2, <2>1 DEF PingWords
<1> QED BY <1>1, <1>2

LEMMA OtherLayout ==
    ASSUME NEW p, NEW own
    PROVE  /\ Layout(40, p, own) = Number(1) /\ Layout(41, p, own) = Number(p.status)
           /\ Layout(54, p, own) = Number(p.get) /\ Layout(60, p, own) = Number(1)
           /\ \A r \in 48..53 :
                Half(Triple("4.5", "5.5", "6.5")[((r - 48) \div 2) + 1], r % 2) = Layout(r, p, own)
<1>1. /\ Layout(40, p, own) = Number(1) /\ Layout(41, p, own) = Number(p.status)
      /\ Layout(54, p, own) = Number(p.get) /\ Layout(60, p, own) = Number(1)
      BY Places DEF Layout
<1>2. \A r \in 48..53 :
        Half(Triple("4.5", "5.5", "6.5")[((r - 48) \div 2) + 1], r % 2) = Layout(r, p, own)
      BY Places DEF Layout, Triple
<1> QED BY <1>1, <1>2

(* Running the script of a place makes its registers ready, and no other     *)
(* script touches them.                                                     *)
State == [bank |-> hreg, buffer |-> converted]

LEMMA Runs1 ==
    ASSUME PublishingInv
    PROVE  Banks(State)
BY DEF PublishingInv, Banks, State

(* What a script leaves, by the layout.                                     *)
Leaves(stage, rs) ==
    /\ Banks(Ran(Script[stage], State))
    /\ \A r \in Registers : Ran(Script[stage], State).bank[r] =
          IF r \in rs THEN Layout(r, pass, written) ELSE hreg[r]

LEMMA WordsLeft ==
    ASSUME PublishingInv, NEW stage, NEW first, NEW last, NEW word,
           PutsAll(Script[stage], first, last, word),
           \A r \in first..last : word[r] = Layout(r, pass, written)
    PROVE  Leaves(stage, first..last)
<1>1. Banks(State) /\ State.bank = hreg
      BY Runs1 DEF State
<1> QED BY <1>1, PutsRun DEF Leaves

LEMMA ScriptsLeave ==
    ASSUME PublishingInv
    PROVE  /\ Leaves("sensor", 0..31) /\ Leaves("change", 40..40) /\ Leaves("state", 32..39)
           /\ Leaves("status", 41..41) /\ Leaves("calib", 48..53) /\ Leaves("get", 54..54)
           /\ Leaves("ping", 42..47) /\ Leaves("config", 60..60)
<1>1. Banks(State) /\ State.bank = hreg
      BY Runs1 DEF State
<1>2. /\ Script["sensor"] = MB_Slave_Write_Sensor(SensorData(pass.sensor))
      /\ Script["change"] = MB_Slave_Write_Button_Change(1)
      /\ Script["state"] = MB_Slave_Write_Button_State(ButtonData(pass.md_time))
      /\ Script["status"] = MB_Slave_Write_Status(pass.status)
      /\ Script["calib"] = MB_Slave_Write_Calib_Parameters("4.5", "5.5", "6.5")
      /\ Script["get"] = MB_Slave_Write_Get_Status(pass.get)
      /\ Script["ping"] = MB_Slave_Write_Ping_Status(pass.ping, pass.phone)
      /\ Script["config"] = MB_Slave_Write_Request_Config(1)
      BY DEF Script
<1>3. Leaves("sensor", 0..31)
      BY <1>1, <1>2, SensorRuns, SensorLayout DEF Leaves
<1>4. Leaves("calib", 48..53)
      BY <1>1, <1>2, CalibRuns, OtherLayout DEF Leaves
<1>5. Leaves("change", 40..40)
      <2>1. \A r \in 40..40 : Only(40, Number(1))[r] = Layout(r, pass, written)
            BY OtherLayout DEF Only
      <2>2. PutsAll(Script["change"], 40, 40, Only(40, Number(1)))
            BY <1>2, ChangePuts
      <2> QED BY <2>1, <2>2, WordsLeft
<1>6. Leaves("status", 41..41)
      <2>1. \A r \in 41..41 : Only(41, Number(pass.status))[r] = Layout(r, pass, written)
            BY OtherLayout DEF Only
      <2>2. PutsAll(Script["status"], 41, 41, Only(41, Number(pass.status)))
            BY <1>2, StatusPuts
      <2> QED BY <2>1, <2>2, WordsLeft
<1>7. Leaves("get", 54..54)
      <2>1. \A r \in 54..54 : Only(54, Number(pass.get))[r] = Layout(r, pass, written)
            BY OtherLayout DEF Only
      <2>2. PutsAll(Script["get"], 54, 54, Only(54, Number(pass.get)))
            BY <1>2, GetStatusPuts
      <2> QED BY <2>1, <2>2, WordsLeft
<1>8. Leaves("config", 60..60)
      <2>1. \A r \in 60..60 : Only(60, Number(1))[r] = Layout(r, pass, written)
            BY OtherLayout DEF Only
      <2>2. PutsAll(Script["config"], 60, 60, Only(60, Number(1)))
            BY <1>2, ConfigPuts
      <2> QED BY <2>1, <2>2, WordsLeft
<1>9. Leaves("state", 32..39)
      <2>1. \A r \in 32..39 : StateWords(ButtonData(pass.md_time))[r] = Layout(r, pass, written)
            BY StateLayout
      <2>2. PutsAll(Script["state"], 32, 39, StateWords(ButtonData(pass.md_time)))
            BY <1>2, StatePuts
      <2> QED BY <2>1, <2>2, WordsLeft
<1>10. Leaves("ping", 42..47)
       <2> DEFINE word == PingWords(pass.ping, pass.phone)
       <2>1. \A r \in 42..47 : word[r] = Layout(r, pass, written)
             BY PingLayout
       <2>2. PutsAll(Script["ping"], 42, 47, word)
             BY <1>2, PingPuts
       <2> HIDE DEF word
       <2> QED BY <2>1, <2>2, WordsLeft
<1> QED BY <1>3, <1>4, <1>5, <1>6, <1>7, <1>8, <1>9, <1>10

(* The step from one place to the next makes those registers ready.         *)
LEMMA StageKeeps ==
    ASSUME PublishingInv, MB_Slave_Run, NEW rs, Leaves(pcRun, rs),
           pcRun' \in {"change", "state", "status", "calib", "get", "ping", "config", "task"},
           \A r \in Registers : Ready(r, pcRun') => r \in rs \/ Ready(r, pcRun)
    PROVE  PublishingInv'
<1>1. /\ UNCHANGED <<pass, answer, served, written>> /\ hreg' = Ran(Script[pcRun], State).bank
      BY DEF MB_Slave_Run, Runs, State
<1>2. DOMAIN hreg' = Registers /\ hreg' = [r \in DOMAIN hreg' |-> hreg'[r]]
      BY <1>1 DEF Leaves, Banks
<1>3. \A r \in Registers : hreg'[r] = IF r \in rs THEN Layout(r, pass, written) ELSE hreg[r]
      BY <1>1 DEF Leaves
<1>4. \A r : Layout(r, pass', written') = Layout(r, pass, written)
      BY <1>1 DEF Layout
<1>5. AnswersShowOnePass'
      BY <1>1 DEF AnswersShowOnePass, PublishingInv, Layout
<1> QED BY <1>1, <1>2, <1>3, <1>4, <1>5 DEF PublishingInv

LEMMA RunKeeps ==
    ASSUME PublishingInv, MB_Slave_Run
    PROVE  PublishingInv'
<1>1. /\ pcRun' = Then[pcRun]
      /\ pcRun \in {"sensor", "change", "state", "status", "calib", "get", "ping", "config"}
      BY DEF MB_Slave_Run, Script
<1>2. \/ pcRun = "sensor" /\ pcRun' = "change"
      \/ pcRun = "change" /\ pcRun' = "state"
      \/ pcRun = "state" /\ pcRun' = "status"
      \/ pcRun = "status" /\ pcRun' = "calib"
      \/ pcRun = "calib" /\ pcRun' = "get"
      \/ pcRun = "get" /\ pcRun' = "ping"
      \/ pcRun = "ping" /\ pcRun' = "config"
      \/ pcRun = "config" /\ pcRun' = "task"
      BY <1>1 DEF Then
<1>3. CASE pcRun = "sensor" /\ pcRun' = "change"
      BY <1>3, ScriptsLeave, StageKeeps DEF Ready
<1>4. CASE pcRun = "change" /\ pcRun' = "state"
      BY <1>4, ScriptsLeave, StageKeeps DEF Ready
<1>5. CASE pcRun = "state" /\ pcRun' = "status"
      BY <1>5, ScriptsLeave, StageKeeps DEF Ready
<1>6. CASE pcRun = "status" /\ pcRun' = "calib"
      BY <1>6, ScriptsLeave, StageKeeps DEF Ready
<1>7. CASE pcRun = "calib" /\ pcRun' = "get"
      BY <1>7, ScriptsLeave, StageKeeps DEF Ready
<1>8. CASE pcRun = "get" /\ pcRun' = "ping"
      BY <1>8, ScriptsLeave, StageKeeps DEF Ready
<1>9. CASE pcRun = "ping" /\ pcRun' = "config"
      BY <1>9, ScriptsLeave, StageKeeps DEF Ready
<1>10. CASE pcRun = "config" /\ pcRun' = "task"
       BY <1>10, ScriptsLeave, StageKeeps DEF Ready
<1> QED BY <1>2, <1>3, <1>4, <1>5, <1>6, <1>7, <1>8, <1>9, <1>10

--------------------------------------------------------------------------------
(* The other steps. *)

LEMMA ArgumentsKeep ==
    ASSUME PublishingInv, Arguments
    PROVE  PublishingInv'
<1>1. /\ pcRun' = "sensor" /\ answer' = Unread /\ UNCHANGED <<hreg, converted, served, written>>
      /\ pcRun = "arguments"
      BY DEF Arguments
<1>2. Len(answer'.words) = 0
      BY <1>1 DEF Unread
<1>3. ASSUME NEW r \in Registers, Ready(r, "sensor")
      PROVE  /\ Ready(r, "arguments")
             /\ Layout(r, pass', written') = Layout(r, pass, written)
      <2>1. r \notin 0..42 /\ r \notin 43..54 /\ r # 60
            BY <1>3, Bank DEF Ready
      <2> QED BY <1>1, <2>1 DEF Layout, Ready
<1>4. \A r \in Registers : Ready(r, pcRun)' => hreg'[r] = Layout(r, pass', written')
      BY <1>1, <1>3 DEF PublishingInv, Ready
<1>5. AnswersShowOnePass'
      BY <1>2 DEF AnswersShowOnePass
<1> QED BY <1>1, <1>4, <1>5 DEF PublishingInv

LEMMA TaskKeeps ==
    ASSUME PublishingInv, Task
    PROVE  PublishingInv'
<1>1. pcRun = "task" /\ pcRun' = "arguments" /\ UNCHANGED <<converted, pass>>
      BY DEF Task, Then
<1>2. \A r \in Registers : Ready(r, "task")
      BY DEF Ready
<1>3. \A r \in Registers : hreg[r] = Layout(r, pass, written)
      BY <1>1, <1>2 DEF PublishingInv
<1>4. CASE UNCHANGED <<hreg, answer, served, written>>
      <2>1. \A r : Layout(r, pass', written') = Layout(r, pass, written)
            BY <1>1, <1>4 DEF Layout
      <2>2. AnswersShowOnePass'
            BY <1>4 DEF AnswersShowOnePass, PublishingInv, Layout
      <2> QED BY <1>1, <1>3, <1>4, <2>1, <2>2 DEF PublishingInv
<1>5. ASSUME NEW range \in Reads,
             answer' = [from |-> range[1],
                        words |-> [i \in 1..(range[2] - range[1] + 1) |->
                                         hreg[range[1] + i - 1]]],
             served' = pass, UNCHANGED <<hreg, written>>
      PROVE  PublishingInv'
      <2>2. range[1] \in 0..226 /\ range[2] \in 0..226 /\ range[1] <= range[2]
            BY PublishingAssumption, Bank
      <2> DEFINE n == range[2] - range[1] + 1
      <2>3. n \in Nat /\ \A i \in 1..n : range[1] + i - 1 \in Registers
            <3> DEFINE first == range[1]
                       last == range[2]
            <3>1. first \in 0..226 /\ last \in 0..226 /\ first <= last
                  BY <2>2
            <3> HIDE DEF first, last
            <3>2. /\ last - first + 1 \in Nat
                  /\ \A i \in 1..(last - first + 1) : first + i - 1 \in Registers
                  BY <3>1, Bank
            <3> QED BY <3>2 DEF first, last
      <2>4. AnswersShowOnePass'
            <3>1. /\ answer'.words = [i \in 1..n |-> hreg[range[1] + i - 1]]
                  /\ answer'.from = range[1]
                  BY <1>5
            <3> HIDE DEF n
            <3>2. Len(answer'.words) = n
                  BY <2>3, <3>1
            <3>3. ASSUME NEW i \in 1..n
                  PROVE  answer'.words[i] = Layout(answer'.from + i - 1, served', written')
                  <4>1. answer'.words[i] = hreg[range[1] + i - 1] /\ range[1] + i - 1 \in Registers
                        BY <2>3, <3>1
                  <4> QED BY <1>3, <1>5, <3>1, <4>1
            <3> QED BY <3>2, <3>3 DEF AnswersShowOnePass
      <2> QED BY <1>1, <1>3, <1>5, <2>4 DEF PublishingInv
<1>6. ASSUME NEW r \in Asked, NEW message \in Messages,
             hreg' = [hreg EXCEPT ![r] = message], written' = [written EXCEPT ![r] = message],
             answer' = Unread, UNCHANGED served
      PROVE  PublishingInv'
      <2>1. Len(answer'.words) = 0
            BY <1>6 DEF Unread
      <2>2. AnswersShowOnePass'
            BY <2>1 DEF AnswersShowOnePass
      <2>3. /\ r \in 61..226 /\ r \in Registers
            /\ written' = [q \in Asked |-> IF q = r THEN message ELSE written[q]]
            /\ \A q \in Registers : hreg'[q] = IF q = r THEN message ELSE hreg[q]
            BY <1>6, Places, Bank DEF PublishingInv
      <2>4. ASSUME NEW q \in Registers, q # r PROVE Layout(q, pass', written') = Layout(q, pass, written)
            BY <1>1, <2>3, <2>4 DEF Layout
      <2>5. Layout(r, pass', written') = message
            BY <1>1, <2>3, Places DEF Layout
      <2>6. \A q \in Registers : hreg'[q] = Layout(q, pass', written')
            BY <1>3, <2>3, <2>4, <2>5
      <2>7. DOMAIN hreg' = Registers /\ hreg' = [q \in DOMAIN hreg' |-> hreg'[q]]
            BY <1>6 DEF PublishingInv
      <2>8. written' = [q \in Asked |-> written'[q]]
            BY <2>3
      <2> QED BY <1>1, <2>2, <2>6, <2>7, <2>8 DEF PublishingInv
<1> QED BY <1>4, <1>5, <1>6 DEF Task

LEMMA PublishingStarts == PublishingInit => PublishingInv
<1> SUFFICES ASSUME PublishingInit PROVE PublishingInv
      OBVIOUS
<1>1. /\ pcRun = "arguments" /\ hreg = [r \in Registers |-> Number(0)]
      /\ written = [r \in Asked |-> Number(0)] /\ Len(answer.words) = 0
      BY DEF PublishingInit, Unread
<1>2. ASSUME NEW r \in Registers, Ready(r, "arguments") PROVE Layout(r, pass, written) = Number(0)
      <2>1. r \notin 0..42 /\ r \notin 43..54 /\ r # 60
            BY <1>2, Bank DEF Ready
      <2> QED BY <1>1, <2>1 DEF Layout
<1>3. AnswersShowOnePass
      BY <1>1 DEF AnswersShowOnePass
<1> QED BY <1>1, <1>2, <1>3 DEF PublishingInv

LEMMA PublishingStep == PublishingInv /\ [PublishingNext]_publishingVars => PublishingInv'
<1>1. ASSUME PublishingInv, UNCHANGED publishingVars PROVE PublishingInv'
      BY <1>1 DEF PublishingInv, publishingVars, AnswersShowOnePass, Layout, Ready
<1> QED BY <1>1, ArgumentsKeep, RunKeeps, TaskKeeps DEF PublishingNext

\* Whatever the sensor, the clock and the modem say in a pass, and whatever the
\* master writes: each answer of MB_Slave_Run's mb.task() shows the values of one
\* pass, each in the registers that my_modbus.h names for it.
THEOREM AnswersAreOfOnePass == PublishingSpec => []AnswersShowOnePass
<1>1. PublishingInv => AnswersShowOnePass
      BY DEF PublishingInv
<1> QED BY <1>1, PublishingStarts, PublishingStep, PTL DEF PublishingSpec

--------------------------------------------------------------------------------
(* A transaction over the wires of SPI in software.                         *)
Byte == SUBSET (0..7)
Chips == [bytes : Seq(Byte), bits : Byte, count : 0..7, out : Byte]
Wires == [sck : BOOLEAN, mosi : BOOLEAN, miso : BOOLEAN, chip : Chips]
Transfers == [w : Wires, send : Byte, last : BOOLEAN, reply : Byte, replies : Seq(Byte)]

\* Between two bits: the clock is where the mode wants it, or was left low, and the chip shows
\* the next bit where the master reads it before the next edge.
BetweenBits(w) ==
    /\ bus.mode = 0 => w.sck = FALSE /\ w.miso = Driven(w.chip)
    /\ bus.mode = 1 => w.sck = FALSE
    /\ bus.mode = 2 /\ w.sck = TRUE => w.miso = Driven(w.chip)
\* Between two transactions.
AtRest(w) == w \in Wires /\ w.chip = Deselected /\ (bus.mode \in {0, 1} => w.sck = FALSE)

Sent(bytes, out) == [bytes |-> bytes, bits |-> {}, count |-> 0, out |-> out]

BusTypes ==
    /\ bus.mode \in 0..3 /\ bus.type \in 0..3 /\ bus.addresswidth \in {1, 2}
    /\ bus.width \in {1, 2, 4} /\ bus.msbFirst \in BOOLEAN /\ bus.lsbFirst \in BOOLEAN
    /\ bus.address \subseteq 0..15 /\ bus.address \cap FlagBits = {}
    /\ bus.type = Opcode => bus.addresswidth = 1
    /\ bus.addresswidth = 1 /\ bus.type # Opcode => bus.address \subseteq 0..7
    /\ memory \in [0..3 -> Byte]

LEMMA OrderFacts ==
    ASSUME BusTypes
    PROVE  /\ \A n \in 1..8 : BitOrder[n] \in 0..7
           /\ \A b \in 0..7 : \E n \in 1..8 : BitOrder[n] = b
           /\ \A m, n \in 1..8 : BitOrder[m] = BitOrder[n] => m = n
<1>1. CASE bus.msbFirst
      <2>1. \A n \in 1..8 : BitOrder[n] = 8 - n
            BY <1>1 DEF BitOrder
      <2> QED BY <2>1
<1>2. CASE ~ bus.msbFirst
      <2>1. \A n \in 1..8 : BitOrder[n] = n - 1
            BY <1>2 DEF BitOrder
      <2> QED BY <2>1
<1> QED BY <1>1, <1>2

LEMMA ReplyType == ASSUME BusTypes, NEW bytes PROVE Reply(bytes) \in Byte
BY DEF Reply, BusTypes, Byte

LEMMA ShiftedType ==
    ASSUME BusTypes, NEW chip \in Chips, NEW bit \in BOOLEAN
    PROVE  Shifted(chip, bit) \in Chips
<1> DEFINE bits == chip.bits \cup (IF bit THEN {BitOrder[chip.count + 1]} ELSE {})
           bytes == Append(chip.bytes, bits)
<1>1. BitOrder[chip.count + 1] \in 0..7
      BY OrderFacts DEF Chips
<1>2. bits \in Byte
      BY <1>1 DEF Chips, Byte
<1> HIDE DEF bits
<1>3. bytes \in Seq(Byte)
      BY <1>2 DEF Chips
<1> HIDE DEF bytes
<1>4. Shifted(chip, bit) = IF chip.count = 7
         THEN [bytes |-> bytes, bits |-> {}, count |-> 0, out |-> Reply(bytes)]
         ELSE [chip EXCEPT !.bits = bits, !.count = @ + 1]
      BY DEF Shifted, bits, bytes
<1>5. CASE chip.count = 7
      <2>1. Reply(bytes) \in Byte
            BY ReplyType
      <2> QED BY <1>3, <1>4, <1>5, <2>1 DEF Chips, Byte
<1>6. CASE chip.count # 7
      <2>1. chip.count + 1 \in 0..7
            BY <1>6 DEF Chips
      <2> QED BY <1>2, <1>4, <1>6, <2>1 DEF Chips
<1> QED BY <1>5, <1>6

\* One bit: the chip takes the master's, the master the chip's.
LEMMA BitCrosses ==
    ASSUME BusTypes, bus.mode # 3, NEW s \in Transfers, BetweenBits(s.w), NEW b \in 0..7,
           bus.mode \in {0, 2} => s.last # (b \in s.send) \/ s.w.mosi = s.last
    PROVE  LET t == TransferBit(s, b)
           IN /\ t.w \in Wires /\ BetweenBits(t.w) /\ t.w.chip = Shifted(s.w.chip, b \in s.send)
              /\ t.last = (b \in s.send)
              /\ bus.mode \in {0, 2} => t.w.mosi = t.last
              /\ t.reply = s.reply \cup (IF Driven(s.w.chip) THEN {b} ELSE {})
              /\ t.send = s.send /\ t.replies = s.replies
              /\ t \in Transfers
<1> DEFINE set == b \in s.send
           mosi == IF SecondPhase \/ s.last # set THEN set ELSE s.w.mosi
           w1 == IF SecondPhase THEN s.w ELSE [s.w EXCEPT !.mosi = mosi]
           high == Clock(w1, TRUE)
           w2 == [high EXCEPT !.mosi = mosi]
           low == Clock(w2, FALSE)
           bit == IF SecondPhase THEN low.miso ELSE high.miso
           c == s.w.chip
           c2 == Shifted(c, set)
<1>1. TransferBit(s, b) =
         [s EXCEPT !.w = low, !.last = set, !.reply = @ \cup (IF bit THEN {b} ELSE {})]
      BY DEF TransferBit
<1>2. mosi = set
      <2>1. set \in BOOLEAN /\ s.last \in BOOLEAN
            BY DEF Transfers
      <2>2. CASE SecondPhase
            BY <2>2
      <2>3. CASE ~ SecondPhase
            <3>1. bus.mode \in {0, 2}
                  BY <2>3 DEF SecondPhase, BusTypes
            <3>2. CASE s.last # set
                  BY <3>2
            <3>3. CASE s.last = set
                  BY <2>1, <2>3, <3>1, <3>3
            <3> QED BY <3>2, <3>3
      <2> QED BY <2>2, <2>3
<1>3. c \in Chips /\ c2 \in Chips /\ s.w \in Wires /\ set \in BOOLEAN
      <2>1. c \in Chips /\ s.w \in Wires
            BY DEF Transfers, Wires
      <2>2. set \in BOOLEAN
            OBVIOUS
      <2> HIDE DEF set, c
      <2> QED BY <2>1, <2>2, ShiftedType
<1> HIDE DEF set, mosi, c2, c
<1>4. /\ low \in Wires /\ BetweenBits(low) /\ low.chip = c2
      /\ bit = Driven(c)
      /\ bus.mode \in {0, 2} => low.mosi = set
      <2>1. Driven(c) \in BOOLEAN /\ Driven(c2) \in BOOLEAN
            BY DEF Driven
      <2>2. CASE bus.mode = 0
            <3>1. SecondPhase = FALSE /\ Idle = FALSE
                  BY <2>2 DEF SecondPhase, Idle
            <3>2. /\ w1 \in Wires /\ w1.sck = FALSE /\ w1.mosi = set /\ w1.chip = c
                  /\ w1.miso = Driven(c)
                  BY <1>2, <1>3, <2>2, <3>1 DEF Wires, BetweenBits, c
            <3> HIDE DEF w1
            <3>3. high = [w1 EXCEPT !.sck = TRUE, !.chip = c2]
                  <4>1. Shifted(w1.chip, w1.mosi) = c2
                        BY <3>2 DEF c2
                  <4>2. ((TRUE = Idle) = SecondPhase) = TRUE /\ (w1.sck = TRUE) = FALSE
                        BY <3>1, <3>2
                  <4>3. high = [w1 EXCEPT !.sck = TRUE, !.chip = Shifted(w1.chip, w1.mosi)]
                        BY <4>2, Zenon DEF Clock
                  <4> QED BY <4>1, <4>3
            <3>4. /\ high \in Wires /\ high.sck = TRUE /\ high.chip = c2 /\ high.mosi = set
                  /\ high.miso = Driven(c)
                  BY <1>3, <3>2, <3>3 DEF Wires
            <3> HIDE DEF high
            <3>5. /\ w2 \in Wires /\ w2.sck = TRUE /\ w2.chip = c2 /\ w2.mosi = set
                  BY <1>2, <1>3, <3>4 DEF Wires
            <3> HIDE DEF w2
            <3>6. low = [w2 EXCEPT !.sck = FALSE, !.miso = Driven(c2)]
                  BY <3>1, <3>5 DEF Clock
            <3>7. /\ low \in Wires /\ low.sck = FALSE /\ low.chip = c2 /\ low.mosi = set
                  /\ low.miso = Driven(c2)
                  BY <2>1, <3>5, <3>6 DEF Wires
            <3> HIDE DEF low
            <3> QED BY <2>2, <3>1, <3>4, <3>7 DEF BetweenBits
      <2>3. CASE bus.mode = 1
            <3>1. SecondPhase = TRUE /\ Idle = FALSE
                  BY <2>3 DEF SecondPhase, Idle
            <3>2. /\ w1 \in Wires /\ w1.sck = FALSE /\ w1.chip = c
                  BY <1>2, <1>3, <2>3, <3>1 DEF Wires, BetweenBits, c
            <3> HIDE DEF w1
            <3>3. high = [w1 EXCEPT !.sck = TRUE, !.miso = Driven(c)]
                  BY <3>1, <3>2 DEF Clock
            <3>4. high \in Wires /\ high.sck = TRUE /\ high.chip = c /\ high.miso = Driven(c)
                  BY <2>1, <3>2, <3>3 DEF Wires
            <3> HIDE DEF high
            <3>5. /\ w2 \in Wires /\ w2.sck = TRUE /\ w2.chip = c /\ w2.mosi = set
                  /\ w2.miso = Driven(c)
                  BY <1>2, <1>3, <3>4 DEF Wires
            <3> HIDE DEF w2
            <3>6. low = [w2 EXCEPT !.sck = FALSE, !.chip = c2]
                  <4>1. Shifted(w2.chip, w2.mosi) = c2
                        BY <3>5 DEF c2
                  <4>2. ((FALSE = Idle) = SecondPhase) = TRUE /\ (w2.sck = FALSE) = FALSE
                        BY <3>1, <3>5
                  <4>3. low = [w2 EXCEPT !.sck = FALSE, !.chip = Shifted(w2.chip, w2.mosi)]
                        BY <4>2 DEF Clock
                  <4> QED BY <4>1, <4>3
            <3>7. low \in Wires /\ low.sck = FALSE /\ low.chip = c2 /\ low.miso = Driven(c)
                  BY <1>3, <3>5, <3>6 DEF Wires
            <3> HIDE DEF low
            <3> QED BY <2>3, <3>1, <3>4, <3>7 DEF BetweenBits
      <2>4. CASE bus.mode = 2
            <3>1. SecondPhase = FALSE /\ Idle = TRUE
                  BY <2>4 DEF SecondPhase, Idle
            <3>2. /\ w1 \in Wires /\ w1.mosi = set /\ w1.chip = c
                  /\ w1.sck = TRUE => w1.miso = Driven(c)
                  BY <1>2, <1>3, <2>4, <3>1 DEF Wires, BetweenBits, c
            <3> HIDE DEF w1
            <3>3. high = IF w1.sck = TRUE THEN w1
                         ELSE [w1 EXCEPT !.sck = TRUE, !.miso = Driven(c)]
                  BY <3>1, <3>2 DEF Clock
            <3>4. /\ high \in Wires /\ high.sck = TRUE /\ high.chip = c /\ high.mosi = set
                  /\ high.miso = Driven(c)
                  BY <2>1, <3>2, <3>3 DEF Wires
            <3> HIDE DEF high
            <3>5. /\ w2 \in Wires /\ w2.sck = TRUE /\ w2.chip = c /\ w2.mosi = set
                  BY <1>2, <1>3, <3>4 DEF Wires
            <3> HIDE DEF w2
            <3>6. low = [w2 EXCEPT !.sck = FALSE, !.chip = c2]
                  <4>1. Shifted(w2.chip, w2.mosi) = c2
                        BY <3>5 DEF c2
                  <4>2. ((FALSE = Idle) = SecondPhase) = TRUE /\ (w2.sck = FALSE) = FALSE
                        BY <3>1, <3>5
                  <4>3. low = [w2 EXCEPT !.sck = FALSE, !.chip = Shifted(w2.chip, w2.mosi)]
                        BY <4>2 DEF Clock
                  <4> QED BY <4>1, <4>3
            <3>7. low \in Wires /\ low.sck = FALSE /\ low.chip = c2 /\ low.mosi = set
                  BY <1>3, <3>5, <3>6 DEF Wires
            <3> HIDE DEF low
            <3> QED BY <2>4, <3>1, <3>4, <3>7 DEF BetweenBits
      <2>5. bus.mode \in {0, 1, 2}
            BY DEF BusTypes
      <2> QED BY <2>2, <2>3, <2>4, <2>5
<1> HIDE DEF low, bit
<1>5. TransferBit(s, b) = [w |-> low, send |-> s.send, last |-> set,
                           reply |-> s.reply \cup (IF Driven(c) THEN {b} ELSE {}),
                           replies |-> s.replies]
      BY <1>1, <1>4 DEF Transfers
<1>6. s.reply \cup (IF Driven(c) THEN {b} ELSE {}) \in Byte
      BY DEF Transfers, Byte
<1> QED BY <1>3, <1>4, <1>5, <1>6 DEF Transfers, set, c, c2

Begun(s, byte) == [s EXCEPT !.send = byte, !.last = LastMosi(byte), !.reply = {}]
Ended(s) == [s EXCEPT !.replies = Append(@, s.reply)]

\* The recursion of Transfer has a solution.
LEMMA TransferIsRecursive ==
    ASSUME NEW s, NEW byte
    PROVE  \E after :
              /\ after[0] = Begun(s, byte)
              /\ \A n \in 1..8 : after[n] = TransferBit(after[n - 1], BitOrder[n])
              /\ Transfer(s, byte) = Ended(after[8])
<1> DEFINE begun == Begun(s, byte)
           Is(f, m) == f = [n \in 0..m |-> IF n = 0 THEN begun ELSE TransferBit(f[n - 1], BitOrder[n])]
           P == {m \in Nat : \E f : Is(f, m)}
<1>1. 0 \in P
      <2>1. Is([n \in 0..0 |-> begun], 0)
            OBVIOUS
      <2> HIDE DEF Is
      <2> QED BY <2>1
<1>2. ASSUME NEW m \in P PROVE m + 1 \in P
      <2>1. PICK f : Is(f, m)
            BY <1>2
      <2> DEFINE g == [n \in 0..m + 1 |-> IF n = m + 1 THEN TransferBit(f[m], BitOrder[m + 1]) ELSE f[n]]
      <2>2. Is(g, m + 1)
            <3> HIDE DEF begun
            <3>1. ASSUME NEW n \in 0..m + 1
                  PROVE  g[n] = IF n = 0 THEN begun ELSE TransferBit(g[n - 1], BitOrder[n])
                  <4>1. CASE n = m + 1
                        BY <4>1
                  <4>2. CASE n # m + 1
                        <5>1. n \in 0..m /\ (n # 0 => n - 1 \in 0..m)
                              BY <4>2
                        <5>2. f[n] = IF n = 0 THEN begun ELSE TransferBit(f[n - 1], BitOrder[n])
                              BY <2>1, <5>1
                        <5> QED BY <4>2, <5>1, <5>2
                  <4> QED BY <4>1, <4>2
            <3> QED BY <3>1
      <2>3. m + 1 \in Nat
            OBVIOUS
      <2> HIDE DEF Is, g
      <2> QED BY <2>2, <2>3
<1>3. P \in SUBSET Nat
      BY DEF P
<1> HIDE DEF P
<1>4. 8 \in P
      BY <1>1, <1>2, <1>3, NatSet
<1> DEFINE after == CHOOSE f : Is(f, 8)
<1>5. Is(after, 8)
      <2>1. \E f : Is(f, 8)
            BY <1>4 DEF P
      <2> HIDE DEF Is
      <2> QED BY <2>1, Zenon
<1>6. Transfer(s, byte) = Ended(after[8])
      BY Zenon DEF Transfer, Begun, Ended
<1>7. /\ after[0] = begun
      /\ \A n \in 1..8 : after[n] = TransferBit(after[n - 1], BitOrder[n])
      <2> HIDE DEF after, begun
      <2>1. after = [n \in 0..8 |-> IF n = 0 THEN begun ELSE TransferBit(after[n - 1], BitOrder[n])]
            BY <1>5
      <2>2. \A n \in 1..8 : n \in 0..8 /\ n # 0
            OBVIOUS
      <2> HIDE DEF Is
      <2> QED BY <2>1, <2>2
<1> QED BY <1>6, <1>7

\* The bits of a byte that are sent first.
First(n) == {BitOrder[j] : j \in 1..n}

\* What n bits of a byte leave of a transfer that began at s.
After(n, s, byte, t) ==
    /\ t \in Transfers /\ BetweenBits(t.w) /\ t.send = byte /\ t.replies = s.replies
    /\ t.reply = s.w.chip.out \cap First(n)
    /\ t.last # (BitOrder[1] \in byte) \/ n # 0
    /\ n # 0 /\ bus.mode \in {0, 2} => t.w.mosi = t.last
    /\ n = 8 => t.w.chip = Sent(Append(s.w.chip.bytes, byte), Reply(Append(s.w.chip.bytes, byte)))
    /\ n # 8 => /\ t.w.chip.bytes = s.w.chip.bytes /\ t.w.chip.bits = byte \cap First(n)
                /\ t.w.chip.count = n /\ t.w.chip.out = s.w.chip.out

\* A byte: the chip has it, and the master what the chip had to say.
LEMMA ByteCrosses ==
    ASSUME BusTypes, bus.mode # 3, NEW s \in Transfers, BetweenBits(s.w), NEW byte \in Byte,
           s.w.chip = Sent(s.w.chip.bytes, s.w.chip.out)
    PROVE  LET t == Transfer(s, byte)
               bytes == Append(s.w.chip.bytes, byte)
           IN /\ t \in Transfers /\ BetweenBits(t.w)
              /\ t.w.chip = Sent(bytes, Reply(bytes))
              /\ t.replies = Append(s.replies, s.w.chip.out)
<1> DEFINE c == s.w.chip
           bytes == Append(c.bytes, byte)
<1>0. c \in Chips /\ s.w \in Wires /\ c.out \in Byte
      BY DEF Transfers, Wires, Chips
<1>1. PICK after :
              /\ after[0] = Begun(s, byte)
              /\ \A n \in 1..8 : after[n] = TransferBit(after[n - 1], BitOrder[n])
              /\ Transfer(s, byte) = Ended(after[8])
      BY TransferIsRecursive
<1>2. First(0) = {} /\ First(8) = 0..7
      BY OrderFacts DEF First
<1>3. After(0, s, byte, after[0])
      <2>1. LastMosi(byte) \in BOOLEAN /\ {} \in Byte
            BY DEF LastMosi, Byte
      <2>2. /\ after[0] \in Transfers /\ after[0].w = s.w /\ after[0].send = byte
            /\ after[0].last = LastMosi(byte) /\ after[0].reply = {}
            /\ after[0].replies = s.replies
            BY <1>1, <2>1 DEF Transfers, Begun
      <2>3. LastMosi(byte) # (BitOrder[1] \in byte)
            BY DEF LastMosi
      <2> QED BY <1>2, <2>2, <2>3 DEF After, Sent
<1>4. ASSUME NEW n \in 1..8, After(n - 1, s, byte, after[n - 1]) PROVE After(n, s, byte, after[n])
      <2> DEFINE p == after[n - 1]
                 b == BitOrder[n]
                 t == after[n]
      <2>1. b \in 0..7 /\ b \notin First(n - 1) /\ First(n) = First(n - 1) \cup {b}
            BY OrderFacts DEF First
      <2>2. /\ p \in Transfers /\ BetweenBits(p.w) /\ p.send = byte /\ p.replies = s.replies
            /\ p.reply = c.out \cap First(n - 1)
            /\ p.last # (BitOrder[1] \in byte) \/ n # 1
            /\ n # 1 /\ bus.mode \in {0, 2} => p.w.mosi = p.last
            /\ p.w.chip.bytes = c.bytes /\ p.w.chip.bits = byte \cap First(n - 1)
            /\ p.w.chip.count = n - 1 /\ p.w.chip.out = c.out
            BY <1>4 DEF After
      <2>3. bus.mode \in {0, 2} => p.last # (b \in p.send) \/ p.w.mosi = p.last
            BY <2>2
      <2>4. t = TransferBit(p, b)
            BY <1>1
      <2> HIDE DEF p, b, t
      <2>5. /\ t.w \in Wires /\ BetweenBits(t.w) /\ t.w.chip = Shifted(p.w.chip, b \in p.send)
            /\ bus.mode \in {0, 2} => t.w.mosi = t.last
            /\ t.reply = p.reply \cup (IF Driven(p.w.chip) THEN {b} ELSE {})
            /\ t.send = p.send /\ t.replies = p.replies /\ t \in Transfers
            BY <2>1, <2>2, <2>3, <2>4, BitCrosses
      <2>6. BitOrder[p.w.chip.count + 1] = b
            BY <2>2 DEF b
      <2>7. t.reply = c.out \cap First(n)
            BY <2>1, <2>2, <2>5, <2>6 DEF Driven
      <2> DEFINE bits == byte \cap First(n)
      <2>8. p.w.chip.bits \cup (IF b \in byte THEN {BitOrder[p.w.chip.count + 1]} ELSE {}) = bits
            BY <2>1, <2>2, <2>6
      <2>9. n = 8 => t.w.chip = Sent(bytes, Reply(bytes))
            <3> SUFFICES ASSUME n = 8 PROVE t.w.chip = Sent(bytes, Reply(bytes))
                  OBVIOUS
            <3>1. bits = byte
                  BY <1>2 DEF Byte
            <3> HIDE DEF bits
            <3>2. p.w.chip.count = 7 /\ p.w.chip.bytes = c.bytes
                  BY <2>2
            <3> QED BY <2>2, <2>5, <2>8, <3>1, <3>2 DEF Shifted, Sent
      <2>10. n # 8 => /\ t.w.chip.bytes = c.bytes /\ t.w.chip.bits = bits
                      /\ t.w.chip.count = n /\ t.w.chip.out = c.out
            <3> SUFFICES ASSUME n # 8
                         PROVE  /\ t.w.chip.bytes = c.bytes /\ t.w.chip.bits = bits
                                /\ t.w.chip.count = n /\ t.w.chip.out = c.out
                  OBVIOUS
            <3>1. p.w.chip.count # 7 /\ p.w.chip.count + 1 = n
                  BY <2>2
            <3> HIDE DEF bits
            <3>2. t.w.chip = [p.w.chip EXCEPT !.bits = bits, !.count = @ + 1]
                  BY <2>2, <2>5, <2>8, <3>1 DEF Shifted
            <3>3. p.w.chip \in Chips
                  BY <2>2 DEF Transfers, Wires
            <3> QED BY <2>2, <3>1, <3>2, <3>3 DEF Chips
      <2> HIDE DEF bits
      <2>11. n # 0 /\ t.send = byte /\ t.replies = s.replies
             BY <2>2, <2>5
      <2> SUFFICES After(n, s, byte, t)
            BY DEF t
      <2> QED BY <2>5, <2>7, <2>9, <2>10, <2>11 DEF After, bits
<1>5. After(8, s, byte, after[8])
      <2> DEFINE P == {n \in Nat : n <= 8 => After(n, s, byte, after[n])}
      <2>1. 0 \in P
            BY <1>3
      <2>2. ASSUME NEW n \in P PROVE n + 1 \in P
            <3> SUFFICES ASSUME n + 1 <= 8 PROVE After(n + 1, s, byte, after[n + 1])
                  OBVIOUS
            <3>1. n + 1 \in 1..8 /\ (n + 1) - 1 = n /\ After(n, s, byte, after[n])
                  BY <2>2
            <3> QED BY <1>4, <3>1
      <2>3. P \in SUBSET Nat
            BY DEF P
      <2> HIDE DEF P
      <2>4. 8 \in P
            BY <2>1, <2>2, <2>3, NatSet
      <2> QED BY <2>4 DEF P
<1> DEFINE r == after[8]
           t == Transfer(s, byte)
<1>6. /\ r \in Transfers /\ BetweenBits(r.w) /\ r.replies = s.replies
      /\ r.reply = c.out /\ r.w.chip = Sent(bytes, Reply(bytes))
      BY <1>0, <1>2, <1>5 DEF After, Byte
<1>7. t = [r EXCEPT !.replies = Append(r.replies, r.reply)]
      BY <1>1 DEF Ended
<1> HIDE DEF r, t, bytes, c
<1>8. Append(r.replies, r.reply) \in Seq(Byte)
      BY <1>6 DEF Transfers
<1>9. t \in Transfers /\ t.w = r.w /\ t.replies = Append(r.replies, r.reply)
      BY <1>6, <1>7, <1>8 DEF Transfers
<1> QED BY <1>6, <1>9 DEF t, bytes, c

\* A whole transaction of n bytes, in the same way.
Opened(w) == [w |-> setChipSelect(w, FALSE), send |-> {}, last |-> FALSE, reply |-> {},
              replies |-> <<>>]

LEMMA SoftwareIsRecursive ==
    ASSUME NEW w, NEW bytes, Len(bytes) \in Nat
    PROVE  \E after :
              /\ after[0] = Opened(w)
              /\ \A n \in 1..Len(bytes) : after[n] = Transfer(after[n - 1], bytes[n])
              /\ InSoftware(w, bytes) = after[Len(bytes)]
<1> DEFINE begun == Opened(w)
           Is(f, m) == f = [n \in 0..m |-> IF n = 0 THEN begun ELSE Transfer(f[n - 1], bytes[n])]
           P == {m \in Nat : \E f : Is(f, m)}
<1>1. 0 \in P
      <2>1. Is([n \in 0..0 |-> begun], 0)
            OBVIOUS
      <2> HIDE DEF Is
      <2> QED BY <2>1
<1>2. ASSUME NEW m \in P PROVE m + 1 \in P
      <2>1. PICK f : Is(f, m)
            BY <1>2
      <2> DEFINE g == [n \in 0..m + 1 |-> IF n = m + 1 THEN Transfer(f[m], bytes[m + 1]) ELSE f[n]]
      <2>2. Is(g, m + 1)
            <3> HIDE DEF begun
            <3>1. ASSUME NEW n \in 0..m + 1
                  PROVE  g[n] = IF n = 0 THEN begun ELSE Transfer(g[n - 1], bytes[n])
                  <4>1. CASE n = m + 1
                        BY <4>1
                  <4>2. CASE n # m + 1
                        <5>1. n \in 0..m /\ (n # 0 => n - 1 \in 0..m)
                              BY <4>2
                        <5>2. f[n] = IF n = 0 THEN begun ELSE Transfer(f[n - 1], bytes[n])
                              BY <2>1, <5>1
                        <5> QED BY <4>2, <5>1, <5>2
                  <4> QED BY <4>1, <4>2
            <3> QED BY <3>1
      <2>3. m + 1 \in Nat
            OBVIOUS
      <2> HIDE DEF Is, g
      <2> QED BY <2>2, <2>3
<1>3. P \in SUBSET Nat
      BY DEF P
<1> HIDE DEF P
<1>4. Len(bytes) \in P
      BY <1>1, <1>2, <1>3, NatSet
<1> DEFINE after == CHOOSE f : Is(f, Len(bytes))
<1>5. Is(after, Len(bytes))
      <2>1. \E f : Is(f, Len(bytes))
            BY <1>4 DEF P
      <2> HIDE DEF Is
      <2> QED BY <2>1, Zenon
<1>6. InSoftware(w, bytes) = after[Len(bytes)]
      BY Zenon DEF InSoftware, Opened
<1>7. /\ after[0] = begun
      /\ \A n \in 1..Len(bytes) : after[n] = Transfer(after[n - 1], bytes[n])
      <2> HIDE DEF after, begun
      <2>1. after = [n \in 0..Len(bytes) |-> IF n = 0 THEN begun ELSE Transfer(after[n - 1], bytes[n])]
            BY <1>5
      <2>2. \A n \in 1..Len(bytes) : n \in 0..Len(bytes) /\ n # 0
            OBVIOUS
      <2>3. 0 \in 0..Len(bytes)
            OBVIOUS
      <2> HIDE DEF Is
      <2> QED BY <2>1, <2>2, <2>3
<1> QED BY <1>6, <1>7

Upto(bytes, n) == SubSeq(bytes, 1, n)
Replies(bytes, n) == [i \in 1..n |-> Reply(Upto(bytes, i - 1))]

LEMMA ReplyAt ==
    ASSUME NEW bytes, NEW n, NEW i \in 1..n
    PROVE  Replies(bytes, n)[i] = Reply(Upto(bytes, i - 1))
BY DEF Replies

LEMMA UptoGrows ==
    ASSUME NEW bytes \in Seq(Byte), NEW n \in 1..Len(bytes)
    PROVE  /\ Upto(bytes, n) = Append(Upto(bytes, n - 1), bytes[n])
           /\ bytes[n] \in Byte /\ Upto(bytes, n) \in Seq(Byte) /\ Upto(bytes, n - 1) \in Seq(Byte)
BY DEF Upto

LEMMA RepliesGrow ==
    ASSUME BusTypes, NEW bytes, NEW n \in Nat
    PROVE  /\ Append(Replies(bytes, n), Reply(Upto(bytes, n))) = Replies(bytes, n + 1)
           /\ Replies(bytes, n) \in Seq(Byte)
<1>1. \A i \in 1..(n + 1) : Reply(Upto(bytes, i - 1)) \in Byte
      BY ReplyType
<1>2. Replies(bytes, n) \in Seq(Byte) /\ Replies(bytes, n + 1) \in Seq(Byte)
      BY <1>1 DEF Replies
<1>3. Len(Replies(bytes, n)) = n /\ Len(Replies(bytes, n + 1)) = n + 1
      BY DEF Replies
<1>4. Replies(bytes, n + 1)[n + 1] = Reply(Upto(bytes, n))
      BY DEF Replies
<1>5. \A i \in 1..n : Replies(bytes, n + 1)[i] = Replies(bytes, n)[i]
      BY DEF Replies
<1>6. Reply(Upto(bytes, n)) \in Byte
      BY ReplyType
<1> QED BY <1>2, <1>3, <1>4, <1>5, <1>6

\* Bytes cross in software as hardware would send them.
LEMMA BytesCross ==
    ASSUME BusTypes, bus.mode # 3, NEW w, AtRest(w), NEW bytes \in Seq(Byte)
    PROVE  LET s == InSoftware(w, bytes)
           IN /\ s.w.chip.bytes = bytes /\ s.replies = Replies(bytes, Len(bytes))
              /\ s.w \in Wires
              /\ bus.mode \in {0, 1} => s.w.sck = FALSE
<1> DEFINE L == Len(bytes)
<1>1. PICK after :
              /\ after[0] = Opened(w)
              /\ \A n \in 1..L : after[n] = Transfer(after[n - 1], bytes[n])
              /\ InSoftware(w, bytes) = after[L]
      <2>1. L \in Nat
            OBVIOUS
      <2> QED BY <2>1, SoftwareIsRecursive
<1> DEFINE Is(n, t) == /\ t \in Transfers /\ BetweenBits(t.w) /\ t.replies = Replies(bytes, n)
                       /\ t.w.chip = Sent(Upto(bytes, n), Reply(Upto(bytes, n)))
<1>2. Is(0, after[0])
      <2> DEFINE x == setChipSelect(w, FALSE)
      <2>1. Header \in {1, 2} /\ Upto(bytes, 0) = <<>> /\ Replies(bytes, 0) = <<>>
            BY DEF Header, BusTypes, Upto, Replies
      <2>2. Reply(<<>>) = {}
            BY <2>1 DEF Reply
      <2>3. /\ w \in Wires /\ w.chip = Sent(<<>>, {})
            /\ bus.mode \in {0, 1} => w.sck = FALSE
            BY DEF AtRest, Deselected, Sent
      <2>4. Driven(w.chip) \in BOOLEAN
            BY DEF Driven
      <2>5. /\ x \in Wires /\ x.chip = w.chip /\ x.sck = w.sck
            /\ x.miso = IF SecondPhase THEN w.miso ELSE Driven(w.chip)
            BY <2>3, <2>4 DEF setChipSelect, Wires
      <2>6. BetweenBits(x)
            BY <2>3, <2>5 DEF BetweenBits, SecondPhase
      <2> HIDE DEF x
      <2>7. after[0] = [w |-> x, send |-> {}, last |-> FALSE, reply |-> {}, replies |-> <<>>]
            BY <1>1 DEF Opened, x
      <2>8. {} \in Byte /\ <<>> \in Seq(Byte)
            BY DEF Byte
      <2>9. after[0] \in Transfers
            BY <2>5, <2>7, <2>8 DEF Transfers
      <2>10. after[0].w = x /\ after[0].replies = <<>>
             BY <2>7
      <2> QED BY <2>1, <2>2, <2>3, <2>5, <2>6, <2>9, <2>10
<1>3. ASSUME NEW n \in 1..L, Is(n - 1, after[n - 1]) PROVE Is(n, after[n])
      <2> DEFINE p == after[n - 1]
                 t == after[n]
      <2>1. /\ p \in Transfers /\ BetweenBits(p.w) /\ p.replies = Replies(bytes, n - 1)
            /\ p.w.chip = Sent(Upto(bytes, n - 1), Reply(Upto(bytes, n - 1)))
            BY <1>3
      <2>2. t = Transfer(p, bytes[n])
            BY <1>1
      <2> HIDE DEF p, t
      <2>3. p.w.chip.bytes = Upto(bytes, n - 1) /\ p.w.chip.out = Reply(Upto(bytes, n - 1))
            BY <2>1 DEF Sent
      <2>4. bytes[n] \in Byte /\ Upto(bytes, n) = Append(Upto(bytes, n - 1), bytes[n])
            BY UptoGrows
      <2>5. /\ t \in Transfers /\ BetweenBits(t.w)
            /\ t.w.chip = Sent(Append(p.w.chip.bytes, bytes[n]), Reply(Append(p.w.chip.bytes, bytes[n])))
            /\ t.replies = Append(p.replies, p.w.chip.out)
            BY <2>1, <2>2, <2>3, <2>4, ByteCrosses
      <2>6. n - 1 \in Nat /\ (n - 1) + 1 = n
            OBVIOUS
      <2>7. t.replies = Replies(bytes, n)
            BY <2>1, <2>3, <2>5, <2>6, RepliesGrow
      <2>8. t.w.chip = Sent(Upto(bytes, n), Reply(Upto(bytes, n)))
            BY <2>3, <2>4, <2>5
      <2> QED BY <2>5, <2>7, <2>8 DEF t
<1>4. Is(L, after[L])
      <2> DEFINE P == {n \in Nat : n <= L => Is(n, after[n])}
      <2> HIDE DEF Is
      <2>1. 0 \in P
            BY <1>2
      <2>2. ASSUME NEW n \in P PROVE n + 1 \in P
            <3> SUFFICES ASSUME n + 1 <= L PROVE Is(n + 1, after[n + 1])
                  OBVIOUS
            <3>1. n + 1 \in 1..L /\ (n + 1) - 1 = n /\ Is(n, after[n])
                  BY <2>2
            <3> QED BY <1>3, <3>1
      <2>3. P \in SUBSET Nat
            BY DEF P
      <2> HIDE DEF P
      <2>4. L \in P
            BY <2>1, <2>2, <2>3, NatSet
      <2> QED BY <2>4 DEF P
<1>5. Upto(bytes, L) = bytes
      BY DEF Upto
<1>6. after[L].w \in Wires
      BY <1>4 DEF Transfers
<1> QED BY <1>1, <1>4, <1>5, <1>6 DEF Sent, BetweenBits

--------------------------------------------------------------------------------
(* The chip behind its address.                                             *)

LEMMA NumberIsNat == ASSUME NEW bits PROVE NumberOf(bits) \in Nat
<1> DEFINE Is(f, m) == f = [n \in 0..m |-> IF n = 0 THEN 0
                              ELSE 2 * f[n - 1] + (IF 16 - n \in bits THEN 1 ELSE 0)]
           P == {m \in Nat : \E f \in [0..m -> Nat] : Is(f, m)}
<1>1. 0 \in P
      <2>1. Is([n \in 0..0 |-> 0], 0) /\ [n \in 0..0 |-> 0] \in [0..0 -> Nat]
            OBVIOUS
      <2> HIDE DEF Is
      <2> QED BY <2>1
<1>2. ASSUME NEW m \in P PROVE m + 1 \in P
      <2>1. PICK f \in [0..m -> Nat] : Is(f, m)
            BY <1>2
      <2> DEFINE bit == IF 16 - (m + 1) \in bits THEN 1 ELSE 0
                 g == [n \in 0..m + 1 |-> IF n = m + 1 THEN 2 * f[m] + bit ELSE f[n]]
      <2>2. g \in [0..m + 1 -> Nat]
            <3>1. 2 * f[m] + bit \in Nat
                  OBVIOUS
            <3> HIDE DEF bit
            <3> QED BY <3>1
      <2>3. Is(g, m + 1)
            <3>1. ASSUME NEW n \in 0..m + 1
                  PROVE  g[n] = IF n = 0 THEN 0
                                ELSE 2 * g[n - 1] + (IF 16 - n \in bits THEN 1 ELSE 0)
                  <4>1. CASE n = m + 1
                        BY <4>1
                  <4>2. CASE n # m + 1
                        <5>1. n \in 0..m /\ (n # 0 => n - 1 \in 0..m)
                              BY <4>2
                        <5>2. f[n] = IF n = 0 THEN 0
                                     ELSE 2 * f[n - 1] + (IF 16 - n \in bits THEN 1 ELSE 0)
                              BY <2>1, <5>1
                        <5> QED BY <4>2, <5>1, <5>2
                  <4> QED BY <4>1, <4>2
            <3> QED BY <3>1
      <2>4. m + 1 \in Nat
            OBVIOUS
      <2> HIDE DEF Is, g
      <2> QED BY <2>2, <2>3, <2>4
<1>3. P \in SUBSET Nat
      BY DEF P
<1> HIDE DEF P
<1>4. 16 \in P
      BY <1>1, <1>2, <1>3, NatSet
<1>5. PICK f \in [0..16 -> Nat] : Is(f, 16)
      BY <1>4 DEF P
<1> DEFINE top == CHOOSE g : Is(g, 16)
<1>6. Is(top, 16)
      <2> HIDE DEF Is
      <2> QED BY <1>5, Zenon
<1>7. NumberOf(bits) = top[16]
      BY Zenon DEF NumberOf
<1> HIDE DEF top
<1>8. top[16] \in Nat
      <2> DEFINE Q == {n \in Nat : n <= 16 => top[n] \in Nat}
      <2>1. 0 \in Q
            BY <1>6
      <2>2. ASSUME NEW n \in Q PROVE n + 1 \in Q
            <3> SUFFICES ASSUME n + 1 <= 16 PROVE top[n + 1] \in Nat
                  OBVIOUS
            <3>1. n + 1 \in 0..16 /\ n + 1 # 0 /\ (n + 1) - 1 = n /\ top[n] \in Nat
                  BY <2>2
            <3>2. top[n + 1] = 2 * top[n] + (IF 16 - (n + 1) \in bits THEN 1 ELSE 0)
                  BY <1>6, <3>1
            <3> QED BY <3>1, <3>2
      <2>3. Q \in SUBSET Nat
            BY DEF Q
      <2> HIDE DEF Q
      <2>4. 16 \in Q
            BY <2>1, <2>2, <2>3, NatSet
      <2> QED BY <2>4 DEF Q
<1> QED BY <1>7, <1>8

LEMMA Halves ==
    ASSUME BusTypes
    PROVE  /\ LowByte \subseteq 0..7 /\ HighByte \subseteq 0..7
           /\ bus.address = LowByte \cup {b + 8 : b \in HighByte}
           /\ bus.address \subseteq 0..7 => HighByte = {}
<1>1. bus.address \subseteq 0..15
      BY DEF BusTypes
<1>2. LowByte \subseteq 0..7 /\ HighByte \subseteq 0..7
      BY DEF LowByte, HighByte
<1>3. ASSUME NEW b \in bus.address PROVE b \in LowByte \cup {c + 8 : c \in HighByte}
      <2>1. b \in 0..7 \/ b \in 8..15
            BY <1>1
      <2>2. CASE b \in 8..15
            <3>1. b - 8 \in HighByte /\ (b - 8) + 8 = b
                  BY <2>2 DEF HighByte
            <3> QED BY <3>1
      <2> QED BY <2>1, <2>2 DEF LowByte
<1>4. ASSUME NEW b \in LowByte \cup {c + 8 : c \in HighByte} PROVE b \in bus.address
      BY DEF LowByte, HighByte
<1>5. bus.address \subseteq 0..7 => HighByte = {}
      BY DEF HighByte
<1> QED BY <1>2, <1>3, <1>4, <1>5

\* The first bytes say what the chip is asked, and of which register.
Asks(reading, bytes) == \A i \in 1..Header : bytes[i] = AddrBuffer(reading)[i]

LEMMA Addressed ==
    ASSUME BusTypes, bus.interface # "i2c", NEW reading \in BOOLEAN, NEW bytes, Asks(reading, bytes)
    PROVE  /\ IsRead(bytes) <=> reading
           /\ AddressOf(bytes) = bus.address /\ Step(bytes) = 1
<1>1. /\ bus.type \in 0..3 /\ bus.addresswidth \in {1, 2}
      /\ bus.type = 3 => bus.addresswidth = 1
      /\ bus.addresswidth = 1 /\ bus.type # 3 => HighByte = {}
      /\ Header = bus.addresswidth + (IF bus.type = 3 THEN 1 ELSE 0)
      BY Halves DEF BusTypes, Header, Opcode
<1>2. /\ LowByte \subseteq 0..7 /\ HighByte \subseteq 0..7
      /\ bus.address = LowByte \cup {b + 8 : b \in HighByte}
      BY Halves
<1>3. bytes[1] = AddrBuffer(reading)[1] /\ (Header = 2 => bytes[2] = AddrBuffer(reading)[2])
      BY <1>1 DEF Asks
<1>4. {b + 8 : b \in {}} = {}
      OBVIOUS
<1>5. CASE bus.type \in {0, 2}
      <2>1. 7 \notin LowByte /\ LowByte \subseteq 0..6
            <3>1. FlagBits = {7}
                  BY <1>5 DEF FlagBits, Opcode
            <3>2. 7 \notin LowByte
                  BY <3>1 DEF BusTypes, LowByte
            <3> QED BY <1>2, <3>2
      <2>2. bytes[1] = IF (reading <=> bus.type = 0) THEN LowByte \cup {7} ELSE LowByte \ {7}
            BY <1>3, <1>5 DEF AddrBuffer, Opcode
      <2>3. bus.addresswidth = 2 => bytes[2] = HighByte
            BY <1>1, <1>3, <1>5 DEF AddrBuffer, Opcode
      <2>4. IsRead(bytes) <=> reading
            <3>1. CASE bus.type = 0
                  <4>1. IsRead(bytes) <=> 7 \in bytes[1]
                        BY <3>1 DEF IsRead, Opcode
                  <4> QED BY <2>2, <3>1, <4>1
            <3>2. CASE bus.type = 2
                  <4>1. IsRead(bytes) <=> 7 \notin bytes[1]
                        BY <3>2 DEF IsRead, Opcode
                  <4> QED BY <2>2, <3>2, <4>1
            <3> QED BY <1>5, <3>1, <3>2
      <2>5. bytes[1] \cap 0..6 = LowByte
            <3>1. 7 \notin 0..6
                  OBVIOUS
            <3> QED BY <2>1, <2>2, <3>1, Zenon
      <2>6. AddressOf(bytes) = bus.address
            BY <1>1, <1>2, <1>4, <1>5, <2>3, <2>5 DEF AddressOf, AddressBits, Opcode
      <2> QED BY <1>5, <2>4, <2>6 DEF Step
<1>6. CASE bus.type = 1
      <2>1. 7 \notin LowByte /\ LowByte \subseteq 0..5
            <3>1. FlagBits = {6, 7}
                  BY <1>6 DEF FlagBits, Opcode
            <3>2. 7 \notin LowByte /\ 6 \notin LowByte
                  BY <3>1 DEF BusTypes, LowByte
            <3>3. \A b \in 0..7 : b # 7 /\ b # 6 => b \in 0..5
                  OBVIOUS
            <3> QED BY <1>2, <3>2, <3>3
      <2>2. bytes[1] = IF reading THEN LowByte \cup {6, 7} ELSE (LowByte \ {7}) \cup {6}
            BY <1>3, <1>6 DEF AddrBuffer, Opcode
      <2>3. bus.addresswidth = 2 => bytes[2] = HighByte
            BY <1>1, <1>3, <1>6 DEF AddrBuffer, Opcode
      <2>4. IsRead(bytes) <=> reading
            BY <1>6, <2>2 DEF IsRead, Opcode
      <2>5. bytes[1] \cap 0..5 = LowByte
            <3>1. 6 \notin 0..5 /\ 7 \notin 0..5
                  OBVIOUS
            <3> QED BY <2>1, <2>2, <3>1, Zenon
      <2>6. AddressOf(bytes) = bus.address
            BY <1>1, <1>2, <1>4, <1>6, <2>3, <2>5 DEF AddressOf, AddressBits, Opcode
      <2>7. 6 \in bytes[1]
            BY <2>2
      <2> QED BY <1>6, <2>4, <2>6, <2>7 DEF Step
<1>7. CASE bus.type = 3
      <2>1. 0 \notin HighByte
            BY <1>7 DEF BusTypes, FlagBits, HighByte, Opcode
      <2>2. bytes[1] = IF reading THEN HighByte \cup {0} ELSE HighByte \ {0}
            BY <1>3, <1>7 DEF AddrBuffer, Opcode
      <2>3. bytes[2] = LowByte
            BY <1>1, <1>3, <1>7 DEF AddrBuffer, Opcode
      <2>4. IsRead(bytes) <=> reading
            BY <1>7, <2>2 DEF IsRead, Opcode
      <2>5. bytes[1] \ {0} = HighByte
            BY <2>1, <2>2
      <2>6. AddressOf(bytes) = bus.address
            BY <1>2, <1>7, <2>3, <2>5 DEF AddressOf, Opcode
      <2> QED BY <1>7, <2>4, <2>6 DEF Step
<1> QED BY <1>1, <1>5, <1>6, <1>7

LEMMA RegisterIs ==
    ASSUME BusTypes, bus.interface # "i2c", NEW reading \in BOOLEAN, NEW bytes, Asks(reading, bytes),
           NEW i \in Nat
    PROVE  Register(bytes, i) = i
<1>1. AddressOf(bytes) = bus.address /\ Step(bytes) = 1
      BY Addressed
<1>2. NumberOf(bus.address) \in Nat
      BY NumberIsNat
<1> QED BY <1>1, <1>2 DEF Register

LEMMA AddressBytesAsk ==
    ASSUME BusTypes, NEW reading \in BOOLEAN
    PROVE  /\ AddressBytes(reading) \in Seq(Byte) /\ Len(AddressBytes(reading)) = Header
           /\ Header \in {1, 2}
           /\ \A i \in 1..Header : AddressBytes(reading)[i] = AddrBuffer(reading)[i]
<1>1. Header \in {1, 2} /\ bus.type \in 0..3
      BY DEF BusTypes, Header, Opcode
<1>2. LowByte \in Byte /\ HighByte \in Byte
      BY Halves DEF Byte
<1>3. \E a, b \in Byte : AddrBuffer(reading) = <<a, b>>
      <2>1. /\ LowByte \cup {7} \in Byte /\ LowByte \ {7} \in Byte
            /\ LowByte \cup {6, 7} \in Byte /\ (LowByte \ {7}) \cup {6} \in Byte
            /\ HighByte \cup {0} \in Byte /\ HighByte \ {0} \in Byte
            BY <1>2 DEF Byte
      <2>2. CASE bus.type = 0
            BY <1>2, <2>1, <2>2 DEF AddrBuffer, Opcode
      <2>3. CASE bus.type = 1
            BY <1>2, <2>1, <2>3 DEF AddrBuffer, Opcode
      <2>4. CASE bus.type = 2
            BY <1>2, <2>1, <2>4 DEF AddrBuffer, Opcode
      <2>5. CASE bus.type = 3
            BY <1>2, <2>1, <2>5 DEF AddrBuffer, Opcode
      <2> QED BY <1>1, <2>2, <2>3, <2>4, <2>5
<1>4. AddrBuffer(reading) \in Seq(Byte) /\ Len(AddrBuffer(reading)) = 2
      BY <1>3
<1> HIDE <1>3
<1> QED BY <1>1, <1>4 DEF AddressBytes

\* Between transactions the wires of SPI in software are at rest.
Settled(w) == bus.interface = "software" => AtRest(w)
ModeWorks == bus.interface = "software" => bus.mode # 3

LEMMA ExchangeTells ==
    ASSUME BusTypes, ModeWorks, NEW w, Settled(w), NEW bytes \in Seq(Byte), NEW x \in Exchange(w, bytes)
    PROVE  /\ Settled(x.w) /\ x.memory = Stored(bytes)
           /\ x.replies = Replies(bytes, Len(bytes))
<1>1. CASE bus.interface = "software"
      <2> DEFINE s == InSoftware(w, bytes)
      <2>1. /\ s.w.chip.bytes = bytes /\ s.replies = Replies(bytes, Len(bytes))
            /\ s.w \in Wires /\ (bus.mode \in {0, 1} => s.w.sck = FALSE)
            BY <1>1, BytesCross DEF Settled, ModeWorks
      <2>2. x = [w |-> setChipSelect(s.w, TRUE), replies |-> s.replies,
                 memory |-> Stored(s.w.chip.bytes)]
            BY <1>1 DEF Exchange
      <2> HIDE DEF s
      <2>3. Deselected \in Chips
            BY DEF Deselected, Chips, Byte
      <2>4. setChipSelect(s.w, TRUE) = [s.w EXCEPT !.chip = Deselected]
            BY DEF setChipSelect
      <2>5. AtRest(setChipSelect(s.w, TRUE))
            BY <2>1, <2>3, <2>4 DEF AtRest, Wires
      <2> QED BY <2>1, <2>2, <2>5 DEF Settled
<1>2. CASE bus.interface # "software"
      <2>1. x = [w |-> w, memory |-> Stored(bytes),
                 replies |-> [i \in 1..Len(bytes) |-> Reply(SubSeq(bytes, 1, i - 1))]]
            BY <1>2 DEF Exchange
      <2> QED BY <2>1, <1>2 DEF Settled, Replies, Upto
<1> QED BY <1>1, <1>2

LEMMA StoredIs ==
    ASSUME BusTypes, bus.interface # "i2c", NEW buffer \in Seq(Byte)
    PROVE  Stored(AddressBytes(FALSE) \o buffer) = I2CWritten(buffer)
<1> DEFINE header == AddressBytes(FALSE)
           bytes == header \o buffer
<1>1. header \in Seq(Byte) /\ Len(header) = Header /\ Header \in {1, 2}
      BY AddressBytesAsk
<1>2. /\ Len(bytes) = Header + Len(buffer)
      /\ \A i \in 1..Header : bytes[i] = header[i]
      /\ \A i \in 1..Len(buffer) : bytes[Header + i] = buffer[i]
      <2> HIDE DEF header
      <2> QED BY <1>1
<1>3. Asks(FALSE, bytes)
      BY <1>2, AddressBytesAsk DEF Asks
<1> HIDE DEF bytes, header
<1>4. ~ IsRead(bytes) /\ \A i \in Nat : Register(bytes, i) = i
      BY <1>3, Addressed, RegisterIs
<1>5. memory = [r \in 0..3 |-> memory[r]]
      BY DEF BusTypes
<1>6. CASE Len(buffer) = 0
      <2>1. Stored(bytes) = memory
            <3>1. Len(bytes) <= Header
                  BY <1>1, <1>2, <1>6
            <3> QED BY <3>1 DEF Stored
      <2>2. I2CWritten(buffer) = memory
            BY <1>5, <1>6 DEF I2CWritten
      <2> QED BY <2>1, <2>2 DEF bytes, header
<1>7. CASE Len(buffer) # 0
      <2> DEFINE Hits(r) == {i \in 0..(Len(bytes) - Header - 1) : Register(bytes, i) = r}
      <2>1. Stored(bytes) = [r \in 0..3 |->
               IF Hits(r) = {} THEN memory[r]
               ELSE bytes[Header + 1 + CHOOSE i \in Hits(r) : \A j \in Hits(r) : j <= i]]
            <3>1. ~(Len(bytes) <= Header \/ IsRead(bytes))
                  BY <1>1, <1>2, <1>4, <1>7
            <3> QED BY <3>1 DEF Stored
      <2>2. ASSUME NEW r \in 0..3
            PROVE  (IF Hits(r) = {} THEN memory[r]
                    ELSE bytes[Header + 1 + CHOOSE i \in Hits(r) : \A j \in Hits(r) : j <= i])
                   = (IF r < Len(buffer) THEN buffer[r + 1] ELSE memory[r])
            <3>1. Hits(r) = IF r < Len(buffer) THEN {r} ELSE {}
                  BY <1>1, <1>2, <1>4
            <3>2. CASE r < Len(buffer)
                  <4>1. Hits(r) = {r}
                        BY <3>1, <3>2
                  <4> HIDE DEF Hits
                  <4>2. (CHOOSE i \in Hits(r) : \A j \in Hits(r) : j <= i) = r
                        BY <4>1
                  <4>3. bytes[Header + 1 + r] = buffer[r + 1]
                        BY <1>1, <1>2, <3>2
                  <4> QED BY <3>2, <4>1, <4>2, <4>3
            <3>3. CASE ~ (r < Len(buffer))
                  BY <3>1, <3>3
            <3> QED BY <3>2, <3>3
      <2> HIDE DEF Hits
      <2>3. Stored(bytes) = [r \in 0..3 |-> IF r < Len(buffer) THEN buffer[r + 1] ELSE memory[r]]
            BY <2>1, <2>2
      <2> QED BY <2>3 DEF I2CWritten, bytes, header
<1> QED BY <1>6, <1>7

\* What is left of a write, and what a read brings.
LEMMA Writing ==
    ASSUME BusTypes, ModeWorks, NEW w, Settled(w), NEW buffer \in Seq(Byte),
           NEW x \in WriteBuffer(w, buffer)
    PROVE  /\ Settled(x.w) /\ x.ok \in BOOLEAN
           /\ x.ok => x.memory = I2CWritten(buffer)
           /\ ~ x.ok => \E n \in 0..Len(buffer) : x.memory = I2CWritten(SubSeq(buffer, 1, n))
<1>1. CASE bus.interface = "i2c"
      <2>1. \/ x = [ok |-> TRUE, w |-> w, memory |-> I2CWritten(buffer)]
            \/ \E n \in 0..Len(buffer) :
                  x = [ok |-> FALSE, w |-> w, memory |-> I2CWritten(SubSeq(buffer, 1, n))]
            BY <1>1 DEF WriteBuffer
      <2>2. CASE x = [ok |-> TRUE, w |-> w, memory |-> I2CWritten(buffer)]
            BY <2>2
      <2>3. CASE \E n \in 0..Len(buffer) :
                   x = [ok |-> FALSE, w |-> w, memory |-> I2CWritten(SubSeq(buffer, 1, n))]
            BY <2>3
      <2> QED BY <2>1, <2>2, <2>3
<1>2. CASE bus.interface # "i2c"
      <2> DEFINE header == AddressBytes(FALSE)
                 bytes == header \o buffer
      <2>1. PICK y \in Exchange(w, bytes) : x = [ok |-> TRUE, w |-> y.w, memory |-> y.memory]
            BY <1>2 DEF WriteBuffer, SpiWrite
      <2>2. bytes \in Seq(Byte)
            <3>1. header \in Seq(Byte)
                  BY AddressBytesAsk
            <3> HIDE DEF header
            <3> QED BY <3>1
      <2>3. Stored(bytes) = I2CWritten(buffer)
            BY <1>2, StoredIs
      <2> HIDE DEF bytes
      <2>4. Settled(y.w) /\ y.memory = Stored(bytes)
            BY <2>2, ExchangeTells
      <2> QED BY <2>1, <2>3, <2>4
<1> QED BY <1>1, <1>2

LEMMA Reading ==
    ASSUME BusTypes, ModeWorks, NEW w, Settled(w), NEW len \in 1..4, NEW r \in ReadBuffer(w, len)
    PROVE  /\ Settled(r.w) /\ r.ok \in BOOLEAN
           /\ r.ok => r.bytes = [i \in 1..len |-> memory[i - 1]]
<1>1. CASE bus.interface = "i2c"
      <2>1. \/ r = [ok |-> TRUE, w |-> w, bytes |-> [i \in 1..len |-> memory[i - 1]]]
            \/ r = [ok |-> FALSE, w |-> w, bytes |-> <<>>]
            BY <1>1 DEF ReadBuffer
      <2>2. CASE r = [ok |-> TRUE, w |-> w, bytes |-> [i \in 1..len |-> memory[i - 1]]]
            BY <2>2
      <2>3. CASE r = [ok |-> FALSE, w |-> w, bytes |-> <<>>]
            BY <2>3
      <2> QED BY <2>1, <2>2, <2>3
<1>2. CASE bus.interface # "i2c"
      <2> DEFINE header == AddressBytes(TRUE)
                 bytes == header \o Filler(len)
      <2>1. PICK y \in Exchange(w, bytes) : r = [ok |-> TRUE, w |-> y.w, bytes |-> Data(y.replies)]
            BY <1>2 DEF ReadBuffer, write_then_read
      <2>2. header \in Seq(Byte) /\ Len(header) = Header /\ Header \in {1, 2}
            BY AddressBytesAsk
      <2>3. Filler(len) \in Seq(Byte) /\ Len(Filler(len)) = len
            BY DEF Filler, Byte
      <2>4. /\ bytes \in Seq(Byte) /\ Len(bytes) = Header + len
            /\ \A i \in 1..Header : bytes[i] = header[i]
            <3> HIDE DEF header
            <3> QED BY <2>2, <2>3
      <2>5. \A i \in 1..Header : bytes[i] = AddrBuffer(TRUE)[i]
            BY <2>4, AddressBytesAsk
      <2> HIDE DEF bytes, header
      <2>6. Settled(y.w) /\ y.replies = Replies(bytes, Header + len)
            BY <2>4, ExchangeTells
      <2>7. ASSUME NEW i \in 1..len
            PROVE  y.replies[Header + i] = memory[i - 1]
            <3> DEFINE u == Upto(bytes, (Header + i) - 1)
            <3>1. /\ Len(u) = (Header + i) - 1
                  /\ \A j \in 1..Header : u[j] = bytes[j]
                  BY <2>2, <2>4 DEF Upto
            <3>2. Asks(TRUE, u)
                  BY <2>5, <3>1 DEF Asks
            <3> HIDE DEF u
            <3>3. Len(u) - Header = i - 1 /\ i - 1 \in 0..3 /\ i - 1 \in Nat
                  BY <2>2, <3>1
            <3>4. IsRead(u) /\ Register(u, i - 1) = i - 1
                  BY <1>2, <3>2, <3>3, Addressed, RegisterIs
            <3>5. Reply(u) = memory[i - 1]
                  BY <3>3, <3>4 DEF Reply
            <3>6. Header + i \in 1..(Header + len)
                  BY <2>2
            <3>7. y.replies[Header + i] = Reply(Upto(bytes, (Header + i) - 1))
                  BY <2>6, <3>6, ReplyAt
            <3> QED BY <3>5, <3>7 DEF u
      <2>8. Len(y.replies) = Header + len /\ y.replies \in Seq(Byte)
            <3>1. Header + len \in Nat
                  BY <2>2
            <3>2. Len(Replies(bytes, Header + len)) = Header + len
                  BY <3>1 DEF Replies
            <3> QED BY <2>6, <3>1, <3>2, RepliesGrow
      <2>9. Data(y.replies) = [i \in 1..len |-> memory[i - 1]]
            <3>1. Data(y.replies) = SubSeq(y.replies, Header + 1, Header + len)
                  BY <2>8 DEF Data
            <3>2. SubSeq(y.replies, Header + 1, Header + len) =
                    [i \in 1..len |-> y.replies[Header + i]]
                  BY <2>2, <2>8
            <3> QED BY <2>7, <3>1, <3>2
      <2> QED BY <2>1, <2>6, <2>9
<1> QED BY <1>1, <1>2

--------------------------------------------------------------------------------
(* Values as bytes, and the register.                                       *)

LEMMA OrderedTwice ==
    ASSUME NEW S, NEW bytes \in Seq(S)
    PROVE  /\ Ordered(bytes) \in Seq(S) /\ Len(Ordered(bytes)) = Len(bytes)
           /\ Ordered(Ordered(bytes)) = bytes
<1>1. CASE bus.lsbFirst
      BY <1>1 DEF Ordered
<1>2. CASE ~ bus.lsbFirst
      <2> DEFINE r == Reverse(bytes)
      <2>1. r = [i \in 1..Len(bytes) |-> bytes[(Len(bytes) - i) + 1]]
            BY DEF Reverse
      <2>2. r \in Seq(S) /\ Len(r) = Len(bytes)
            BY <2>1
      <2>3. Reverse(r) = [i \in 1..Len(r) |-> r[(Len(r) - i) + 1]]
            BY DEF Reverse
      <2>4. ASSUME NEW i \in 1..Len(bytes) PROVE r[(Len(r) - i) + 1] = bytes[i]
            <3>1. (Len(r) - i) + 1 \in 1..Len(bytes)
                     /\ (Len(bytes) - ((Len(r) - i) + 1)) + 1 = i
                  BY <2>2
            <3> QED BY <2>1, <3>1
      <2> HIDE DEF r
      <2>5. Reverse(r) \in Seq(S) /\ Len(Reverse(r)) = Len(bytes)
            BY <2>2, <2>3
      <2>6. Reverse(r) = bytes
            BY <2>2, <2>3, <2>4, <2>5
      <2>7. Ordered(bytes) = r /\ Ordered(r) = Reverse(r)
            BY <1>2 DEF Ordered, r
      <2> QED BY <2>2, <2>6, <2>7
<1> QED BY <1>1, <1>2

\* The bytes of a value are the value, as far as they go.
LEMMA ValueCrosses ==
    ASSUME NEW value, NEW n \in Nat
    PROVE  /\ BytesOf(value, n) \in Seq(Byte) /\ Len(BytesOf(value, n)) = n
           /\ ValueOf(BytesOf(value, n)) = value \cap 0..(8 * n - 1)
<1> DEFINE little == [i \in 1..n |-> {b - 8 * (i - 1) : b \in value \cap (8 * (i - 1))..(8 * i - 1)}]
<1>1. ASSUME NEW i \in 1..n PROVE little[i] \in Byte
      <2>1. ASSUME NEW b \in (8 * (i - 1))..(8 * i - 1) PROVE b - 8 * (i - 1) \in 0..7
            OBVIOUS
      <2> QED BY <2>1 DEF Byte
<1>2. little \in Seq(Byte) /\ Len(little) = n
      <2> HIDE DEF little
      <2>1. DOMAIN little = 1..n /\ little = [i \in 1..n |-> little[i]]
            BY DEF little
      <2> QED BY <1>1, <2>1
<1>3. /\ BytesOf(value, n) = Ordered(little)
      BY DEF BytesOf
<1>4. Ordered(BytesOf(value, n)) = little
      BY <1>2, <1>3, OrderedTwice
<1>5. ValueOf(BytesOf(value, n)) = UNION {{j + 8 * (i - 1) : j \in little[i]} : i \in 1..Len(little)}
      BY <1>4 DEF ValueOf
<1> DEFINE all == UNION {{j + 8 * (i - 1) : j \in little[i]} : i \in 1..n}
<1>6. ASSUME NEW b \in all PROVE b \in value \cap 0..(8 * n - 1)
      <2>1. PICK i \in 1..n : b \in {j + 8 * (i - 1) : j \in little[i]}
            OBVIOUS
      <2>2. PICK j \in little[i] : b = j + 8 * (i - 1)
            BY <2>1
      <2>3. PICK c \in value \cap (8 * (i - 1))..(8 * i - 1) : j = c - 8 * (i - 1)
            BY <2>2
      <2>4. b = c
            BY <2>2, <2>3
      <2> HIDE DEF all, little
      <2> QED BY <2>3, <2>4
<1>7. ASSUME NEW b \in value \cap 0..(8 * n - 1) PROVE b \in all
      <2> DEFINE i == (b \div 8) + 1
      <2>1. i \in 1..n /\ b \in (8 * (i - 1))..(8 * i - 1)
            OBVIOUS
      <2> HIDE DEF i
      <2>2. b - 8 * (i - 1) \in little[i] /\ (b - 8 * (i - 1)) + 8 * (i - 1) = b
            BY <2>1
      <2> HIDE DEF little
      <2>3. b \in {j + 8 * (i - 1) : j \in little[i]}
            BY <2>2
      <2> QED BY <2>1, <2>3
<1> HIDE DEF little
<1>8. ValueOf(BytesOf(value, n)) = all
      BY <1>2, <1>5
<1> HIDE DEF all
<1>9. all = value \cap 0..(8 * n - 1)
      BY <1>6, <1>7
<1>10. BytesOf(value, n) \in Seq(Byte) /\ Len(BytesOf(value, n)) = n
       BY <1>2, <1>3, OrderedTwice
<1> QED BY <1>8, <1>9, <1>10

\* Where a bit of a value is: in the bytes, the one that At says.
At(i, n) == IF bus.lsbFirst THEN i ELSE (n - i) + 1

LEMMA OrderedAt ==
    ASSUME NEW bytes \in Seq(Byte), NEW i \in 1..Len(bytes)
    PROVE  Ordered(bytes)[i] = bytes[At(i, Len(bytes))] /\ At(i, Len(bytes)) \in 1..Len(bytes)
BY DEF Ordered, Reverse, At

LEMMA BitAt ==
    ASSUME NEW n \in Nat, NEW bytes \in Seq(Byte), Len(bytes) = n, NEW b
    PROVE  b \in ValueOf(bytes) <=>
             b \in 0..(8 * n - 1) /\ (b % 8) \in bytes[At((b \div 8) + 1, n)]
<1>1. ASSUME b \in ValueOf(bytes)
      PROVE  b \in 0..(8 * n - 1) /\ (b % 8) \in bytes[At((b \div 8) + 1, n)]
      <2>1. PICK i \in 1..n : b \in {j + 8 * (i - 1) : j \in Ordered(bytes)[i]}
            BY <1>1, OrderedTwice DEF ValueOf
      <2>2. PICK j \in Ordered(bytes)[i] : b = j + 8 * (i - 1)
            BY <2>1
      <2>3. Ordered(bytes)[i] = bytes[At(i, n)] /\ At(i, n) \in 1..n
            BY OrderedAt
      <2>4. j \in 0..7
            BY <2>2, <2>3 DEF Byte
      <2>5. (b \div 8) + 1 = i /\ (b % 8) = j /\ b \in 0..(8 * n - 1)
            BY <2>2, <2>4
      <2> QED BY <2>2, <2>3, <2>5
<1>2. ASSUME b \in 0..(8 * n - 1), (b % 8) \in bytes[At((b \div 8) + 1, n)]
      PROVE  b \in ValueOf(bytes)
      <2> DEFINE i == (b \div 8) + 1
                 j == (b % 8)
      <2>1. i \in 1..n /\ b = j + 8 * (i - 1)
            BY <1>2
      <2>2. j \in bytes[At(i, n)]
            BY <1>2
      <2> HIDE DEF i, j
      <2>3. j \in Ordered(bytes)[i]
            BY <2>1, <2>2, OrderedAt
      <2> QED BY <2>1, <2>3, OrderedTwice DEF ValueOf
<1> QED BY <1>1, <1>2

\* A value whose bytes are each of one value or of another has each bit of one or the other.
LEMMA MixedBits ==
    ASSUME NEW n \in Nat, NEW p \in Seq(Byte), NEW q \in Seq(Byte), NEW mix \in Seq(Byte),
           Len(p) = n, Len(q) = n, Len(mix) = n,
           \A k \in 1..n : mix[k] = p[k] \/ mix[k] = q[k], NEW b
    PROVE  \/ b \in ValueOf(mix) <=> b \in ValueOf(p)
           \/ b \in ValueOf(mix) <=> b \in ValueOf(q)
<1>1. CASE b \in 0..(8 * n - 1)
      <2> DEFINE k == At((b \div 8) + 1, n)
      <2>1. k \in 1..n
            BY <1>1 DEF At
      <2>2. /\ b \in ValueOf(mix) <=> (b % 8) \in mix[k]
            /\ b \in ValueOf(p) <=> (b % 8) \in p[k]
            /\ b \in ValueOf(q) <=> (b % 8) \in q[k]
            BY <1>1, BitAt
      <2> HIDE DEF k
      <2>3. mix[k] = p[k] \/ mix[k] = q[k]
            BY <2>1
      <2> QED BY <2>2, <2>3
<1>2. CASE ~ (b \in 0..(8 * n - 1))
      <2>1. b \notin ValueOf(mix) /\ b \notin ValueOf(p)
            BY <1>2, BitAt
      <2> QED BY <2>1
<1> QED BY <1>1, <1>2

\* The bytes of the register, and that it holds what it was given.
InChip(chip) == [i \in 1..bus.width |-> chip[i - 1]]
Faithful == /\ Differing(ValueOf(InChip(memory)), holds) \subseteq doubt
            /\ \A r \in bus.width..3 : memory[r] \in Fillings
Told == /\ outcome.call = "read" /\ outcome.ok => Differing(outcome.value, holds) \subseteq doubt
        /\ outcome.call = "bits" /\ outcome.ok
             => Differing(outcome.value, Extract(outcome.slice, holds)) \subseteq Extract(outcome.slice, doubt)
BusInv == ModeWorks => BusTypes /\ Settled(wire) /\ Faithful /\ Told

LEMMA WrittenIsHeld ==
    ASSUME BusTypes, NEW value, NEW chip, chip = I2CWritten(BytesOf(value, bus.width))
    PROVE  /\ chip \in [0..3 -> Byte] /\ ValueOf(InChip(chip)) = Truncated(value)
           /\ \A r \in bus.width..3 : chip[r] = memory[r]
<1> DEFINE bytes == BytesOf(value, bus.width)
<1>1. bus.width \in {1, 2, 4} /\ bus.width \in Nat /\ memory \in [0..3 -> Byte]
      BY DEF BusTypes
<1>2. bytes \in Seq(Byte) /\ Len(bytes) = bus.width /\ ValueOf(bytes) = Truncated(value)
      BY <1>1, ValueCrosses DEF Truncated, OwnBits
<1> HIDE DEF bytes
<1>3. chip = [r \in 0..3 |-> IF r < bus.width THEN bytes[r + 1] ELSE memory[r]]
      BY <1>2 DEF I2CWritten, bytes
<1>4. chip \in [0..3 -> Byte]
      <2>1. ASSUME NEW r \in 0..3 PROVE (IF r < bus.width THEN bytes[r + 1] ELSE memory[r]) \in Byte
            BY <1>1, <1>2
      <2> QED BY <1>3, <2>1
<1>5. InChip(chip) = bytes
      <2>1. \A i \in 1..bus.width : chip[i - 1] = bytes[i]
            BY <1>1, <1>3
      <2>2. InChip(chip) = [i \in 1..bus.width |-> bytes[i]]
            BY <2>1 DEF InChip
      <2>3. bytes = [i \in 1..bus.width |-> bytes[i]]
            BY <1>2
      <2> QED BY <2>2, <2>3
<1>6. \A r \in bus.width..3 : chip[r] = memory[r]
      BY <1>1, <1>3
<1> QED BY <1>2, <1>4, <1>5, <1>6

LEMMA BusStarts == BusInit => BusInv
<1> SUFFICES ASSUME BusInit, ModeWorks PROVE BusTypes /\ Settled(wire) /\ Faithful /\ Told
      BY DEF BusInv
<1>1. PICK byte \in Fillings : /\ memory = [r \in 0..3 |-> byte]
                               /\ holds = ValueOf([r \in 1..bus.width |-> byte])
      BY DEF BusInit
<1>2. /\ bus \in [interface : Interfaces, mode : Modes, msbFirst : BOOLEAN, type : RegTypes,
                  address : Addresses, addresswidth : {1, 2}, width : {1, 2, 4},
                  lsbFirst : BOOLEAN]
      /\ bus.type = Opcode => bus.addresswidth = 1
      /\ (bus.addresswidth = 1 /\ bus.type # Opcode) <=> (bus.address \subseteq 0..7)
      /\ bus.address \cap FlagBits = {}
      /\ wire = [sck |-> Idle, mosi |-> TRUE, miso |-> FALSE, chip |-> Deselected]
      BY DEF BusInit
<1>3. BusTypes
      <2>1. byte \in Byte
            BY BusAssumption DEF Byte
      <2> QED BY <1>1, <1>2, <2>1, BusAssumption DEF BusTypes
<1>4. Settled(wire)
      <2>1. Deselected \in Chips
            BY DEF Deselected, Chips, Byte
      <2>2. Idle \in BOOLEAN /\ (bus.mode \in {0, 1} => Idle = FALSE)
            BY DEF Idle
      <2> QED BY <1>2, <2>1, <2>2 DEF Settled, AtRest, Wires
<1>5. Faithful
      <2>1. bus.width \in {1, 2, 4}
            BY <1>3 DEF BusTypes
      <2>2. InChip(memory) = [i \in 1..bus.width |-> byte]
            BY <1>1, <2>1 DEF InChip
      <2>3. ValueOf(InChip(memory)) = holds /\ doubt = {}
            BY <1>1, <2>2 DEF BusInit
      <2> QED BY <1>1, <2>1, <2>3 DEF Faithful, Differing
<1>6. outcome.call = "none"
      BY DEF BusInit
<1> QED BY <1>3, <1>4, <1>5, <1>6 DEF Told

LEMMA BusTypesKept == ASSUME BusTypes, bus' = bus, memory' \in [0..3 -> Byte] PROVE BusTypes'
BY DEF BusTypes, FlagBits, Opcode

LEMMA ValueKept == ASSUME bus' = bus PROVE ValueOf(InChip(memory))' = ValueOf(InChip(memory'))
<1>1. InChip(memory)' = InChip(memory')
      BY DEF InChip
<1> HIDE DEF InChip
<1>2. CASE bus.lsbFirst
      BY <1>1, <1>2 DEF ValueOf, Ordered
<1>3. CASE ~ bus.lsbFirst
      BY <1>1, <1>3 DEF ValueOf, Ordered
<1> QED BY <1>2, <1>3

\* A write that fails leaves each bit as it was or as it should be.
LEMMA PartlyWritten ==
    ASSUME BusTypes, NEW value, NEW n \in 0..bus.width, NEW chip,
           chip = I2CWritten(SubSeq(BytesOf(value, bus.width), 1, n))
    PROVE  /\ chip \in [0..3 -> Byte]
           /\ \A b : \/ b \in ValueOf(InChip(chip)) <=> b \in Truncated(value)
                     \/ b \in ValueOf(InChip(chip)) <=> b \in ValueOf(InChip(memory))
           /\ \A r \in bus.width..3 : chip[r] = memory[r]
<1> DEFINE bytes == BytesOf(value, bus.width)
           part == SubSeq(bytes, 1, n)
<1>1. bus.width \in {1, 2, 4} /\ bus.width \in Nat /\ memory \in [0..3 -> Byte] /\ n \in Nat
      BY DEF BusTypes
<1>2. bytes \in Seq(Byte) /\ Len(bytes) = bus.width /\ ValueOf(bytes) = Truncated(value)
      BY <1>1, ValueCrosses DEF Truncated, OwnBits
<1> HIDE DEF bytes
<1>3. part \in Seq(Byte) /\ Len(part) = n /\ \A i \in 1..n : part[i] = bytes[i]
      BY <1>1, <1>2
<1> HIDE DEF part
<1>4. chip = [r \in 0..3 |-> IF r < n THEN part[r + 1] ELSE memory[r]]
      BY <1>3 DEF I2CWritten, part, bytes
<1>5. chip \in [0..3 -> Byte]
      <2>1. ASSUME NEW r \in 0..3 PROVE (IF r < n THEN part[r + 1] ELSE memory[r]) \in Byte
            BY <1>1, <1>3
      <2> QED BY <1>4, <2>1
<1>6. \A r \in bus.width..3 : chip[r] = memory[r]
      BY <1>1, <1>4
<1>7. /\ InChip(chip) \in Seq(Byte) /\ Len(InChip(chip)) = bus.width
      /\ InChip(memory) \in Seq(Byte) /\ Len(InChip(memory)) = bus.width
      <2>1. \A k \in 1..bus.width : k - 1 \in 0..3
            BY <1>1
      <2> QED BY <1>1, <1>5, <2>1 DEF InChip
<1>8. \A k \in 1..bus.width : InChip(chip)[k] = bytes[k] \/ InChip(chip)[k] = InChip(memory)[k]
      BY <1>1, <1>3, <1>4 DEF InChip
<1> DEFINE new == InChip(chip)
           old == InChip(memory)
<1> HIDE DEF new, old
<1>9. /\ new \in Seq(Byte) /\ Len(new) = bus.width
      /\ old \in Seq(Byte) /\ Len(old) = bus.width
      /\ \A k \in 1..bus.width : new[k] = bytes[k] \/ new[k] = old[k]
      BY <1>7, <1>8 DEF new, old
<1>10. ASSUME NEW b
       PROVE  \/ b \in ValueOf(new) <=> b \in ValueOf(bytes)
              \/ b \in ValueOf(new) <=> b \in ValueOf(old)
      BY ONLY <1>1, <1>2, <1>9, MixedBits
<1>11. \A b : \/ b \in ValueOf(new) <=> b \in Truncated(value)
              \/ b \in ValueOf(new) <=> b \in ValueOf(old)
      BY ONLY <1>2, <1>10
<1> HIDE DEF InChip
<1>12. \A b : \/ b \in ValueOf(InChip(chip)) <=> b \in Truncated(value)
              \/ b \in ValueOf(InChip(chip)) <=> b \in ValueOf(InChip(memory))
      BY ONLY <1>11 DEF new, old
<1> QED BY ONLY <1>5, <1>6, <1>12

\* A write of what was asked for leaves it in the register, but for the bits in doubt; the value
\* that is sent differs from what was asked for only in bits that were in doubt, or are spoilt.
LEMMA WriteKeeps ==
    ASSUME BusTypes, ModeWorks, Faithful, bus' = bus, NEW w, Settled(w), NEW value, NEW x \in WriteBuffer(w, BytesOf(value, bus.width)),
           wire' = x.w, memory' = x.memory, outcome' = [call |-> "write", ok |-> x.ok],
           NEW asked, NEW part, NEW spoilt, Ask(asked, part, x.ok, spoilt),
           Differing(Truncated(value), asked) \subseteq (doubt \ part) \cup spoilt
    PROVE  BusInv'
<1>1. bus.width \in {1, 2, 4} /\ memory \in [0..3 -> Byte]
      BY DEF BusTypes
<1>2. BytesOf(value, bus.width) \in Seq(Byte) /\ Len(BytesOf(value, bus.width)) = bus.width
      BY <1>1, ValueCrosses
<1>3. /\ Settled(x.w) /\ x.ok \in BOOLEAN
      /\ x.ok => x.memory = I2CWritten(BytesOf(value, bus.width))
      /\ ~ x.ok => \E n \in 0..bus.width :
                     x.memory = I2CWritten(SubSeq(BytesOf(value, bus.width), 1, n))
      BY <1>2, Writing
<1> DEFINE new == ValueOf(InChip(memory'))
           old == ValueOf(InChip(memory))
<1>4. /\ memory' \in [0..3 -> Byte] /\ Differing(new, holds') \subseteq doubt'
      /\ \A r \in bus.width..3 : memory'[r] = memory[r]
      <2>1. CASE x.ok
            <3>1. memory' \in [0..3 -> Byte] /\ new = Truncated(value)
                     /\ \A r \in bus.width..3 : memory'[r] = memory[r]
                  BY <1>3, <2>1, WrittenIsHeld
            <3> HIDE DEF new
            <3>2. holds' = asked /\ doubt' = spoilt \cup (doubt \ part)
                  BY <2>1 DEF Ask
            <3> QED BY <3>1, <3>2
      <2>2. CASE ~ x.ok
            <3>1. PICK n \in 0..bus.width :
                     memory' = I2CWritten(SubSeq(BytesOf(value, bus.width), 1, n))
                  BY <1>3, <2>2
            <3>2. /\ memory' \in [0..3 -> Byte]
                  /\ \A b : (b \in new <=> b \in Truncated(value)) \/ (b \in new <=> b \in old)
                  /\ \A r \in bus.width..3 : memory'[r] = memory[r]
                  BY <3>1, PartlyWritten
            <3>3. Differing(old, holds) \subseteq doubt
                  BY DEF Faithful
            <3> HIDE DEF new, old
            <3>4. holds' = holds /\ doubt' = spoilt \cup (doubt \cup Differing(asked, holds))
                  BY <2>2 DEF Ask
            <3>5. ASSUME NEW b \in Differing(new, holds) PROVE b \in doubt'
                  <4>1. CASE b \in new <=> b \in Truncated(value)
                        BY <3>4, <3>5, <4>1 DEF Differing
                  <4>2. CASE b \in new <=> b \in old
                        BY <3>3, <3>4, <3>5, <4>2 DEF Differing
                  <4> QED BY <3>2, <4>1, <4>2
            <3> QED BY <3>2, <3>4, <3>5
      <2> QED BY <1>3, <2>1, <2>2
<1>5. BusTypes'
      BY <1>4, BusTypesKept
<1>6. Faithful'
      <2>1. ValueOf(InChip(memory))' = ValueOf(InChip(memory'))
            BY ValueKept
      <2> QED BY <1>4, <2>1 DEF Faithful, Differing
<1>7. Settled(wire)'
      BY <1>3 DEF Settled, AtRest, Wires, Chips
<1>8. Told'
      BY DEF Told
<1> QED BY <1>5, <1>6, <1>7, <1>8 DEF BusInv

\* A read changes nothing but the levels of the lines.
LEMMA ReadKeeps ==
    ASSUME BusTypes, ModeWorks, Faithful, NEW r \in ReadBuffer(wire, bus.width), Settled(wire),
           wire' = r.w, UNCHANGED <<bus, memory, holds, doubt>>, Told'
    PROVE  BusInv'
<1>1. bus.width \in 1..4 /\ memory \in [0..3 -> Byte]
      BY DEF BusTypes
<1>2. Settled(r.w)
      BY <1>1, Reading
<1>3. Settled(wire)'
      BY <1>2 DEF Settled, AtRest
<1>4. Faithful'
      <2>1. ValueOf(InChip(memory))' = ValueOf(InChip(memory'))
            BY ValueKept
      <2>2. memory' = memory /\ InChip(memory') = InChip(memory)
            OBVIOUS
      <2> QED BY <2>1, <2>2 DEF Faithful, Differing
<1>5. BusTypes'
      BY <1>1, BusTypesKept
<1> QED BY <1>3, <1>4, <1>5 DEF BusInv

LEMMA ReadIsHeld ==
    ASSUME BusTypes, ModeWorks, Faithful, NEW r \in ReadBuffer(wire, bus.width), Settled(wire)
    PROVE  /\ Settled(r.w) /\ r.ok \in BOOLEAN
           /\ r.ok => Differing(ReadValue(r), holds) \subseteq doubt
<1>1. bus.width \in 1..4
      BY DEF BusTypes
<1>2. /\ Settled(r.w) /\ r.ok \in BOOLEAN
      /\ r.ok => r.bytes = [i \in 1..bus.width |-> memory[i - 1]]
      BY <1>1, Reading
<1> QED BY <1>2 DEF ReadValue, Faithful, InChip

LEMMA BusStep == BusInv /\ [BusNext]_busVars => BusInv'
<1> SUFFICES ASSUME BusInv, [BusNext]_busVars PROVE BusInv'
      OBVIOUS
<1>1. CASE UNCHANGED busVars
      BY <1>1 DEF BusInv, busVars, ModeWorks, BusTypes, FlagBits, Opcode, Settled, AtRest, Faithful, InChip, Told,
                  ValueOf, Ordered, Extract, InSlice, Differing
<1>2. CASE BusNext
      <2>1. bus' = bus
            BY <1>2 DEF BusNext, WriteValue, Untouched, ReadRegister, ReadBits, WriteBits
      <2> SUFFICES ASSUME ModeWorks PROVE BusInv'
            BY <2>1 DEF BusInv, ModeWorks
      <2>2. BusTypes /\ Settled(wire) /\ Faithful /\ Told
            BY DEF BusInv
      <2>3. ASSUME NEW value, NEW numbytes, WriteValue(value, numbytes) PROVE BusInv'
            <3>1. CASE numbytes > 4
                  <4>1. outcome' = [call |-> "write", ok |-> FALSE] /\ UNCHANGED <<bus, wire, memory, holds, doubt>>
                        BY <2>3, <3>1 DEF WriteValue, Untouched
                  <4> QED BY <2>2, <4>1 DEF BusInv, BusTypes, FlagBits, Opcode, Settled, AtRest, Faithful,
                                            InChip, Told, ValueOf, Ordered, Differing
            <3>2. CASE ~ (numbytes > 4)
                  <4>1. PICK x \in WriteBuffer(wire, BytesOf(value, bus.width)) :
                           /\ wire' = x.w /\ memory' = x.memory
                           /\ Ask(Truncated(value), OwnBits, x.ok, {})
                           /\ outcome' = [call |-> "write", ok |-> x.ok]
                        BY <2>3, <3>2 DEF WriteValue
                  <4>2. Differing(Truncated(value), Truncated(value)) \subseteq (doubt \ OwnBits) \cup {}
                        BY DEF Differing
                  <4> QED BY <2>1, <2>2, <4>1, <4>2, WriteKeeps
            <3> QED BY <3>1, <3>2
      <2>4. ASSUME ReadRegister PROVE BusInv'
            <3>1. PICK r \in ReadBuffer(wire, bus.width) :
                     /\ wire' = r.w /\ outcome' = [call |-> "read", ok |-> r.ok, value |-> ReadValue(r)]
                     /\ UNCHANGED <<bus, memory, holds, doubt>>
                  BY <2>4 DEF ReadRegister
            <3>2. r.ok => Differing(ReadValue(r), holds) \subseteq doubt
                  BY <2>2, ReadIsHeld
            <3>3. Told'
                  BY <3>1, <3>2 DEF Told, Differing
            <3> QED BY <2>2, <3>1, <3>3, ReadKeeps
      <2>5. ASSUME NEW slice, ReadBits(slice) PROVE BusInv'
            <3>1. PICK r \in ReadBuffer(wire, bus.width) :
                     /\ wire' = r.w
                     /\ outcome' = [call |-> "bits", ok |-> r.ok, slice |-> slice,
                                   value |-> Extract(slice, ReadValue(r))]
                     /\ UNCHANGED <<bus, memory, holds, doubt>>
                  BY <2>5 DEF ReadBits
            <3>2. r.ok => Differing(ReadValue(r), holds) \subseteq doubt
                  BY <2>2, ReadIsHeld
            <3>3. r.ok => Differing(Extract(slice, ReadValue(r)), Extract(slice, holds))
                            \subseteq Extract(slice, doubt)
                  BY <3>2 DEF Differing, Extract
            <3>4. Told'
                  BY <3>1, <3>3 DEF Told, Differing, Extract, InSlice
            <3> QED BY <2>2, <3>1, <3>4, ReadKeeps
      <2>6. ASSUME NEW slice, NEW data, WriteBits(slice, data) PROVE BusInv'
            <3>1. PICK r \in ReadBuffer(wire, bus.width) :
                     \E x \in WriteBuffer(r.w, BytesOf(Insert(slice, ReadValue(r), data), bus.width)) :
                        /\ wire' = x.w /\ memory' = x.memory
                        /\ Ask(Truncated(Insert(slice, holds, data)), InSlice(slice), x.ok,
                               IF r.ok THEN {} ELSE OwnBits \ InSlice(slice))
                        /\ outcome' = [call |-> "write", ok |-> x.ok]
                  BY <2>6 DEF WriteBits
            <3> DEFINE value == Insert(slice, ReadValue(r), data)
                       asked == Insert(slice, holds, data)
                       spoilt == IF r.ok THEN {} ELSE OwnBits \ InSlice(slice)
            <3>2. Settled(r.w) /\ (r.ok => Differing(ReadValue(r), holds) \subseteq doubt)
                  BY <2>2, ReadIsHeld
            <3>3. Differing(Truncated(value), Truncated(asked)) \subseteq (doubt \ InSlice(slice)) \cup spoilt
                  BY <3>2 DEF Differing, Truncated, Insert
            <3>4. PICK x \in WriteBuffer(r.w, BytesOf(value, bus.width)) :
                        /\ wire' = x.w /\ memory' = x.memory
                        /\ Ask(Truncated(asked), InSlice(slice), x.ok, spoilt)
                        /\ outcome' = [call |-> "write", ok |-> x.ok]
                  BY <3>1
            <3> HIDE DEF value, asked, spoilt
            <3> QED BY <2>1, <2>2, <3>2, <3>3, <3>4, WriteKeeps
      <2> QED BY <1>2, <2>3, <2>4, <2>5, <2>6 DEF BusNext
<1> QED BY <1>1, <1>2

\* Whatever the bus, its mode (3 in software excepted), the orders of bits and bytes, the type,
\* the address and the width of a register: it holds what the calls asked for, no other register
\* is written, and a read that succeeds gives what it holds; but for the bits that a failed I2C
\* write may have changed, and those around a slice that is written after a read that failed.
THEOREM RegistersHoldWhatIsGiven == BusSpec => []RegisterAsGiven
<1>1. BusInv => RegisterAsGiven
      BY DEF BusInv, ModeWorks, RegisterAsGiven, Faithful, Told, InChip
<1> QED BY <1>1, BusStarts, BusStep, PTL DEF BusSpec

--------------------------------------------------------------------------------
(* RTClib's dates, beside a calendar. *)

LEMMA BcdRoundTrip ==
    ASSUME NEW val \in 0..99
    PROVE  /\ bin2bcd(val) \in 0..255 /\ bcd2bin(bin2bcd(val)) = val
           /\ val < 80 => bin2bcd(val) < 128
BY DEF bin2bcd, bcd2bin

\* The days before each month, from the recursion.
LEMMA MonthsStart ==
    /\ DaysBeforeMonth[1] = 0 /\ DaysBeforeMonth[2] = 31 /\ DaysBeforeMonth[3] = 59
    /\ DaysBeforeMonth[4] = 90 /\ DaysBeforeMonth[5] = 120 /\ DaysBeforeMonth[6] = 151
    /\ DaysBeforeMonth[7] = 181 /\ DaysBeforeMonth[8] = 212 /\ DaysBeforeMonth[9] = 243
    /\ DaysBeforeMonth[10] = 273 /\ DaysBeforeMonth[11] = 304 /\ DaysBeforeMonth[12] = 334
    /\ DaysBeforeMonth \in [1..12 -> Nat]
<1> DEFINE Start(f) == [m \in 1..12 |-> IF m = 1 THEN 0 ELSE f[m - 1] + daysInMonth[m - 1]]
           g == <<0, 31, 59, 90, 120, 151, 181, 212, 243, 273, 304, 334>>
<1>1. /\ daysInMonth[1] = 31 /\ daysInMonth[2] = 28 /\ daysInMonth[3] = 31
      /\ daysInMonth[4] = 30 /\ daysInMonth[5] = 31 /\ daysInMonth[6] = 30
      /\ daysInMonth[7] = 31 /\ daysInMonth[8] = 31 /\ daysInMonth[9] = 30
      /\ daysInMonth[10] = 31 /\ daysInMonth[11] = 30
      BY DEF daysInMonth
<1>2. /\ g[1] = 0 /\ g[2] = 31 /\ g[3] = 59 /\ g[4] = 90 /\ g[5] = 120 /\ g[6] = 151
      /\ g[7] = 181 /\ g[8] = 212 /\ g[9] = 243 /\ g[10] = 273 /\ g[11] = 304
      /\ g[12] = 334 /\ g \in [1..12 -> Nat]
      OBVIOUS
<1> HIDE DEF g
<1>3. ASSUME NEW m \in 1..12 PROVE g[m] = Start(g)[m]
      <2>1. m \in {1, 2, 3, 4, 5, 6, 7, 8, 9, 10, 11, 12}
            OBVIOUS
      <2> QED BY <1>1, <1>2, <2>1
<1>4. g = Start(g)
      BY <1>2, <1>3
<1>5. DaysBeforeMonth = Start(DaysBeforeMonth)
      BY <1>4 DEF DaysBeforeMonth
<1> DEFINE f == DaysBeforeMonth
<1>6. DOMAIN f = 1..12 /\ \A m \in 1..12 : f[m] = Start(f)[m]
      BY <1>5
<1> HIDE DEF f
<1>7. /\ f[1] = 0 /\ f[2] = f[1] + daysInMonth[1] /\ f[3] = f[2] + daysInMonth[2]
      /\ f[4] = f[3] + daysInMonth[3] /\ f[5] = f[4] + daysInMonth[4]
      /\ f[6] = f[5] + daysInMonth[5] /\ f[7] = f[6] + daysInMonth[6]
      /\ f[8] = f[7] + daysInMonth[7] /\ f[9] = f[8] + daysInMonth[8]
      /\ f[10] = f[9] + daysInMonth[9] /\ f[11] = f[10] + daysInMonth[10]
      /\ f[12] = f[11] + daysInMonth[11]
      BY <1>6
<1>8. \A m \in 1..12 : f[m] = g[m]
      <2>1. ASSUME NEW m \in 1..12 PROVE f[m] = g[m]
            <3>1. m \in {1, 2, 3, 4, 5, 6, 7, 8, 9, 10, 11, 12}
                  OBVIOUS
            <3> QED BY <1>1, <1>2, <1>7, <3>1
      <2> QED BY <2>1
<1>9. f = Start(f)
      BY <1>5 DEF f
<1>10. \A m \in 1..12 : f[m] \in Nat
       BY <1>2, <1>8
<1>11. f \in [1..12 -> Nat]
       BY <1>6, <1>9, <1>10
<1> QED BY <1>2, <1>8, <1>11 DEF f

LEMMA Smallest ==
    ASSUME NEW N \in SUBSET Nat, N # {}
    PROVE  \E m \in N : \A k \in N : ~ (k < m)
<1>1. PICK m \in N : \A k \in N : <<k, m>> \notin OpToRel(<, Nat)
      BY WFMin, NatLessThanWellFounded, Zenon
<1> QED BY <1>1, Zenon DEF OpToRel

--------------------------------------------------------------------------------
\* Every fourth year has a leap day.
LeapYears(y) == {z \in 0..(y - 1) : z % 4 = 0}
LEMMA LeapDays ==
    ASSUME NEW y \in Nat
    PROVE  Cardinality(LeapYears(y)) = (y + 3) \div 4
<1> DEFINE Good(n) == IsFiniteSet(LeapYears(n)) /\ Cardinality(LeapYears(n)) = (n + 3) \div 4
           bad == {n \in Nat : ~ Good(n)}
<1>1. Good(0)
      <2>1. LeapYears(0) = {}
            BY DEF LeapYears
      <2> QED BY <2>1, FS_EmptySet
<1>2. ASSUME NEW n \in Nat, Good(n) PROVE Good(n + 1)
      <2> DEFINE S == LeapYears(n)
      <2>1. CASE n % 4 = 0
            <3>1. LeapYears(n + 1) = S \cup {n} /\ n \notin S
                  BY <2>1 DEF LeapYears
            <3> HIDE DEF S
            <3>2. IsFiniteSet(S \cup {n}) /\ Cardinality(S \cup {n}) = Cardinality(S) + 1
                  BY <1>2, <3>1, FS_AddElement DEF S
            <3>3. ((n + 1) + 3) \div 4 = (n + 3) \div 4 + 1
                  BY <2>1
            <3> QED BY <1>2, <3>1, <3>2, <3>3 DEF S
      <2>2. CASE n % 4 # 0
            <3>1. LeapYears(n + 1) = S
                  BY <2>2 DEF LeapYears
            <3>2. ((n + 1) + 3) \div 4 = (n + 3) \div 4
                  BY <2>2
            <3> QED BY <1>2, <3>1, <3>2
      <2> QED BY <2>1, <2>2
<1> HIDE DEF Good
<1>3. ASSUME bad # {} PROVE FALSE
      <2>1. PICK m \in bad : \A k \in bad : ~ (k < m)
            BY <1>3, Smallest
      <2>2. m \in Nat /\ m # 0 /\ ~ Good(m)
            BY <1>1, <2>1
      <2>3. m - 1 \in Nat /\ m - 1 < m /\ (m - 1) + 1 = m
            BY <2>2
      <2>4. Good(m - 1)
            BY <2>1, <2>3
      <2> QED BY <1>2, <2>2, <2>3, <2>4
<1> QED BY <1>3 DEF Good

\* The days before each year, in closed form.
LEMMA YearsStart ==
    ASSUME NEW y \in 0..137
    PROVE  DaysBeforeYear[y] = 365 * y + (y + 3) \div 4
<1>1. DaysBeforeYear[y] = 365 * y + Cardinality(LeapYears(y))
      BY DEF DaysBeforeYear, LeapYears
<1> QED BY <1>1, LeapDays

\* The days of a year before a month, which the months' lengths add up to.
DaysInYear(y, m) == DaysBeforeMonth[m] + (IF m > 2 /\ y % 4 = 0 THEN 1 ELSE 0)
LEMMA MonthsAddUp ==
    ASSUME NEW y \in Nat
    PROVE  /\ \A m \in 1..12 : DaysInYear(y, m) \in Nat /\ MonthLength(y, m) \in 28..31
           /\ DaysInYear(y, 1) = 0
           /\ \A m \in 1..11 : /\ LengthOf(y, m) = MonthLength(y, m)
                               /\ DaysInYear(y, m + 1) = DaysInYear(y, m) + MonthLength(y, m)
           /\ DaysInYear(y, 12) + 31 = 365 + Leap(y)
<1>1. /\ daysInMonth[1] = 31 /\ daysInMonth[2] = 28 /\ daysInMonth[3] = 31
      /\ daysInMonth[4] = 30 /\ daysInMonth[5] = 31 /\ daysInMonth[6] = 30
      /\ daysInMonth[7] = 31 /\ daysInMonth[8] = 31 /\ daysInMonth[9] = 30
      /\ daysInMonth[10] = 31 /\ daysInMonth[11] = 30
      BY DEF daysInMonth
<1>2. ASSUME NEW m \in 1..12 PROVE DaysInYear(y, m) \in Nat /\ MonthLength(y, m) \in 28..31
      BY MonthsStart DEF DaysInYear, MonthLength
<1>3. ASSUME NEW m \in 1..11
      PROVE  /\ LengthOf(y, m) = MonthLength(y, m)
             /\ DaysInYear(y, m + 1) = DaysInYear(y, m) + MonthLength(y, m)
      <2>1. m \in {1, 2, 3, 4, 5, 6, 7, 8, 9, 10, 11}
            OBVIOUS
      <2>2. LengthOf(y, m) = MonthLength(y, m)
            BY <1>1, <2>1 DEF LengthOf, MonthLength, Leap
      <2>3. DaysBeforeMonth[m + 1] = DaysBeforeMonth[m] + daysInMonth[m]
            BY <1>1, <2>1, MonthsStart
      <2>4. DaysInYear(y, m + 1) = DaysInYear(y, m) + LengthOf(y, m)
            BY <1>1, <2>1, <2>3, MonthsStart DEF DaysInYear, LengthOf, Leap
      <2> QED BY <2>2, <2>4
<1>4. DaysInYear(y, 1) = 0 /\ DaysInYear(y, 12) + 31 = 365 + Leap(y)
      BY MonthsStart DEF DaysInYear, Leap
<1> QED BY <1>2, <1>3, <1>4

\* The loop of DateTime(t) stops at the month in which the day falls.
LEMMA MonthFound ==
    ASSUME NEW y \in Nat, NEW m \in 1..12, NEW rest \in Nat,
           DaysInYear(y, m) <= rest, m < 12 => rest < DaysInYear(y, m + 1)
    PROVE  MonthAndDay(y, rest) = <<m, (rest - DaysInYear(y, m)) + 1>>
<1> DEFINE D == [i \in 1..12 |-> DaysInYear(y, i)]
           Length == [i \in 1..12 |-> LengthOf(y, i)]
           StepOf(f) == [i \in 1..12 |-> IF i = 1 THEN rest ELSE f[i - 1] - LengthOf(y, i - 1)]
           g == [i \in 1..12 |-> rest - D[i]]
           Left == CHOOSE f : f = StepOf(f)
           Stops(i) == /\ i = 12 \/ Left[i] < LengthOf(y, i)
                       /\ \A j \in 1..(i - 1) : Left[j] >= LengthOf(y, j)
           k == CHOOSE i \in 1..12 : Stops(i)
<1>1. MonthAndDay(y, rest) = <<k, Left[k] + 1>>
      BY DEF MonthAndDay
<1>2. /\ \A i \in 1..12 : D[i] \in Nat
      /\ D[1] = 0 /\ D[m] = DaysInYear(y, m)
      /\ \A i \in 1..11 : /\ D[i + 1] = D[i] + Length[i] /\ Length[i] = LengthOf(y, i)
                          /\ Length[i] \in 28..31
      /\ D[m] <= rest /\ (m < 12 => rest < D[m + 1])
      <2>1. /\ \A i \in 1..12 : DaysInYear(y, i) \in Nat /\ MonthLength(y, i) \in 28..31
            /\ DaysInYear(y, 1) = 0
            /\ \A i \in 1..11 : /\ LengthOf(y, i) = MonthLength(y, i)
                                /\ DaysInYear(y, i + 1) = DaysInYear(y, i) + MonthLength(y, i)
            BY MonthsAddUp
      <2>2. /\ \A i \in 1..12 : D[i] = DaysInYear(y, i)
            /\ \A i \in 1..11 : Length[i] = LengthOf(y, i)
            OBVIOUS
      <2>3. ASSUME NEW i \in 1..11
            PROVE  /\ D[i + 1] = D[i] + Length[i] /\ Length[i] = LengthOf(y, i)
                   /\ Length[i] \in 28..31
            <3>1. i \in 1..12 /\ i + 1 \in 1..12
                  OBVIOUS
            <3> QED BY <2>1, <2>2, <3>1
      <2>4. m < 12 => m + 1 \in 1..12
            OBVIOUS
      <2> HIDE DEF D, Length
      <2> QED BY <2>1, <2>2, <2>3, <2>4
<1> HIDE DEF D, Length
<1>3. g = StepOf(g)
      <2>1. ASSUME NEW i \in 1..12 PROVE g[i] = IF i = 1 THEN rest ELSE g[i - 1] - LengthOf(y, i - 1)
            <3>1. CASE i = 1
                  BY <1>2, <3>1
            <3>2. CASE i # 1
                  <4>1. i - 1 \in 1..11 /\ (i - 1) + 1 = i
                        BY <3>2
                  <4>2. D[i] = D[i - 1] + LengthOf(y, i - 1) /\ LengthOf(y, i - 1) \in Int
                        BY <1>2, <4>1
                  <4> QED BY <1>2, <3>2, <4>1, <4>2
            <3> QED BY <3>1, <3>2
      <2> QED BY <2>1
<1> HIDE DEF g
<1>4. Left = StepOf(Left)
      BY <1>3
<1> HIDE DEF Left
<1>5. /\ \A i \in 1..12 : Left[i] = StepOf(Left)[i]
      BY <1>4
<1>6. \A i \in 1..12 : Left[i] = rest - D[i]
      <2> DEFINE bad == {i \in 1..12 : Left[i] # rest - D[i]}
      <2>1. ASSUME bad # {} PROVE FALSE
            <3>1. PICK i \in bad : \A j \in bad : ~ (j < i)
                  BY <2>1, Smallest
            <3>2. CASE i = 1
                  BY <1>2, <1>5, <3>1, <3>2
            <3>3. CASE i # 1
                  <4>1. i - 1 \in 1..11 /\ (i - 1) + 1 = i /\ i - 1 < i
                        BY <3>1, <3>3
                  <4>2. Left[i - 1] = rest - D[i - 1]
                        BY <3>1, <4>1
                  <4>3. Left[i] = Left[i - 1] - LengthOf(y, i - 1)
                        BY <1>5, <3>1, <3>3
                  <4>4. D[i] = D[i - 1] + LengthOf(y, i - 1) /\ LengthOf(y, i - 1) \in Int
                        BY <1>2, <4>1
                  <4> QED BY <1>2, <3>1, <4>1, <4>2, <4>3, <4>4
            <3> QED BY <3>2, <3>3
      <2> QED BY <2>1
<1>7. \A i \in 1..12, j \in 1..12 : i < j => D[i + 1] <= D[j]
      <2>1. /\ D[2] = D[1] + Length[1] /\ D[3] = D[2] + Length[2] /\ D[4] = D[3] + Length[3]
            /\ D[5] = D[4] + Length[4] /\ D[6] = D[5] + Length[5] /\ D[7] = D[6] + Length[6]
            /\ D[8] = D[7] + Length[7] /\ D[9] = D[8] + Length[8] /\ D[10] = D[9] + Length[9]
            /\ D[11] = D[10] + Length[10] /\ D[12] = D[11] + Length[11]
            BY <1>2
      <2>2. D[1] < D[2] /\ D[2] < D[3] /\ D[3] < D[4] /\ D[4] < D[5] /\ D[5] < D[6]
            /\ D[6] < D[7] /\ D[7] < D[8] /\ D[8] < D[9] /\ D[9] < D[10] /\ D[10] < D[11]
            /\ D[11] < D[12]
            BY <1>2, <2>1
      <2>3. ASSUME NEW i \in 1..12, NEW j \in 1..12, i < j PROVE D[i + 1] <= D[j]
            <3>1. i \in {1, 2, 3, 4, 5, 6, 7, 8, 9, 10, 11} /\ j \in {2, 3, 4, 5, 6, 7, 8, 9, 10, 11, 12}
                  BY <2>3
            <3> QED BY <1>2, <2>2, <2>3, <3>1
      <2> QED BY <2>3
<1>8. Stops(m)
      <2>1. ASSUME m # 12 PROVE Left[m] < LengthOf(y, m)
            <3>1. m \in 1..11 /\ m < 12
                  BY <2>1
            <3>2. /\ D[m + 1] = D[m] + LengthOf(y, m) /\ LengthOf(y, m) \in Int
                  /\ D[m] \in Nat /\ rest < D[m + 1] /\ Left[m] = rest - D[m]
                  BY <1>2, <1>6, <3>1
            <3> QED BY <3>2
      <2>2. ASSUME NEW j \in 1..(m - 1) PROVE Left[j] >= LengthOf(y, j)
            <3>1. j \in 1..11 /\ j \in 1..12 /\ j < m
                  OBVIOUS
            <3>2. D[j + 1] <= D[m] /\ D[m] <= rest /\ D[j + 1] = D[j] + LengthOf(y, j)
                  BY <1>2, <1>7, <3>1
            <3>3. Left[j] = rest - D[j] /\ D[j] \in Nat /\ D[m] \in Nat /\ LengthOf(y, j) \in Int
                  BY <1>2, <1>6, <3>1
            <3> QED BY <3>2, <3>3
      <2> QED BY <2>1, <2>2
<1>9. ASSUME NEW i \in 1..12, Stops(i) PROVE i = m
      <2>1. CASE i < m
            <3>1. i \in 1..11 /\ Left[i] < LengthOf(y, i)
                  BY <1>9, <2>1
            <3>2. Left[i] >= LengthOf(y, i)
                  BY <1>8, <2>1
            <3> QED BY <1>2, <1>6, <3>1, <3>2
      <2>2. CASE m < i
            <3>1. m \in 1..11 /\ m \in 1..(i - 1)
                  BY <2>2
            <3>2. Left[m] >= LengthOf(y, m)
                  BY <1>9, <3>1
            <3>3. Left[m] < LengthOf(y, m)
                  BY <1>8, <3>1
            <3>4. Left[m] \in Int /\ LengthOf(y, m) \in Int
                  BY <1>2, <1>6, <3>1
            <3> QED BY <3>2, <3>3, <3>4
      <2> QED BY <2>1, <2>2
<1>10. k = m
       <2> HIDE DEF Stops
       <2>1. \E i \in 1..12 : Stops(i)
             BY <1>8
       <2>2. k \in 1..12 /\ Stops(k)
             BY <2>1
       <2> HIDE DEF k
       <2> QED BY <1>9, <2>2
<1> QED BY <1>1, <1>2, <1>6, <1>10

--------------------------------------------------------------------------------
\* The days of a date since 2000, and from them the date again.
DaysOf(y, m) == 1..MonthLength(y, m)
DayNumber(y, m, d) == 365 * y + (y + 3) \div 4 + DaysInYear(y, m) + (d - 1)
LEMMA DayNumberIs ==
    ASSUME NEW y \in 0..99, NEW m \in 1..12, NEW d \in DaysOf(y, m)
    PROVE  /\ DayNumber(y, m, d) \in Nat /\ DayNumber(y, m, d) <= 36600 /\ d \in 1..31
           /\ DaysBeforeYear[y] + DaysInYear(y, m) <= DayNumber(y, m, d)
           /\ DayNumber(y, m, d) = DaysBeforeYear[y] + DaysInYear(y, m) + (d - 1)
           /\ m < 12 => DayNumber(y, m, d) < DaysBeforeYear[y] + DaysInYear(y, m + 1)
           /\ DayNumber(y, m, d) < DaysBeforeYear[y + 1]
<1> DEFINE D == DaysInYear(y, m)
           L == MonthLength(y, m)
           n == DayNumber(y, m, d)
           Y == DaysBeforeYear[y]
<1>1. /\ D \in Nat /\ L \in 28..31 /\ DaysInYear(y, 12) + 31 = 365 + Leap(y)
      /\ m < 12 => DaysInYear(y, m + 1) = D + L
      <2>1. y \in Nat /\ (m < 12 => m \in 1..11)
            OBVIOUS
      <2>2. m < 12 => DaysInYear(y, m + 1) = D + L
            BY <2>1, MonthsAddUp
      <2>3. D \in Nat /\ L \in 28..31 /\ DaysInYear(y, 12) + 31 = 365 + Leap(y)
            BY <2>1, MonthsAddUp
      <2> QED BY <2>2, <2>3
<1>2. D <= 365
      BY MonthsStart DEF DaysInYear
<1>3. Y = 365 * y + (y + 3) \div 4
      BY YearsStart
<1>4. DaysBeforeYear[y + 1] = 365 * (y + 1) + ((y + 1) + 3) \div 4
      <2>1. y + 1 \in 0..137
            OBVIOUS
      <2> QED BY <2>1, YearsStart
<1>5. n = 365 * y + (y + 3) \div 4 + D + (d - 1)
      BY DEF DayNumber
<1>6. ((y + 1) + 3) \div 4 = (y + 3) \div 4 + Leap(y) /\ Leap(y) \in {0, 1}
      <2>1. CASE y % 4 = 0
            <3>1. Leap(y) = 1
                  BY <2>1 DEF Leap
            <3>2. ((y + 1) + 3) \div 4 = (y + 3) \div 4 + 1
                  BY <2>1
            <3> QED BY <3>1, <3>2
      <2>2. CASE y % 4 # 0
            <3>1. Leap(y) = 0
                  BY <2>2 DEF Leap
            <3>2. ((y + 1) + 3) \div 4 = (y + 3) \div 4
                  BY <2>2
            <3> QED BY <3>1, <3>2
      <2> QED BY <2>1, <2>2
<1>7. D + L <= 365 + Leap(y)
      <2>1. CASE m = 12
            <3>1. L = 31
                  BY <2>1 DEF MonthLength
            <3> QED BY <1>1, <2>1, <3>1
      <2>2. CASE m # 12
            BY <1>6, <2>2, MonthsStart DEF DaysInYear, MonthLength, Leap
      <2> QED BY <2>1, <2>2
<1> HIDE DEF D, L, n, Y
<1>8. d \in 1..L
      BY DEF L, DaysOf
<1>9. d \in Int /\ 1 <= d /\ d <= L /\ L <= 31
      BY <1>1, <1>8
<1>10. /\ n \in Int /\ 0 <= n /\ n <= 36600 /\ Y + D <= n /\ n = Y + D + (d - 1)
       BY <1>1, <1>2, <1>3, <1>5, <1>9
<1>14. Y \in Nat /\ D \in Nat /\ L \in Int
       BY <1>1, <1>3
<1>11. m < 12 => n < Y + DaysInYear(y, m + 1)
       BY <1>1, <1>3, <1>9, <1>10
<1>12. n < DaysBeforeYear[y + 1]
       <2> DEFINE e == Leap(y)
                  q == (y + 3) \div 4
       <2>1. q \in Int /\ e \in {0, 1}
             BY <1>6
       <2>2. DaysBeforeYear[y + 1] = 365 * (y + 1) + (q + e)
             BY <1>4, <1>6
       <2>3. D + L <= 365 + e /\ n = 365 * y + q + D + (d - 1)
             BY <1>5, <1>7
       <2> HIDE DEF e, q
       <2> QED BY <1>1, <1>9, <2>1, <2>2, <2>3
<1>13. n \in Nat /\ n <= 36600 /\ d \in 1..31
       BY ONLY <1>9, <1>10, <1>14
<1> QED BY <1>10, <1>11, <1>12, <1>13 DEF D, n, Y

\* Years do not overlap: a day is of one year.
LEMMA YearIsOne ==
    ASSUME NEW y \in 0..136, NEW z \in 0..136, NEW n \in Int,
           DaysBeforeYear[y] <= n, n < DaysBeforeYear[y + 1],
           DaysBeforeYear[z] <= n, n < DaysBeforeYear[z + 1]
    PROVE  z = y
<1>1. /\ DaysBeforeYear[y] = 365 * y + (y + 3) \div 4
      /\ DaysBeforeYear[z] = 365 * z + (z + 3) \div 4
      BY YearsStart
<1>2. /\ DaysBeforeYear[y + 1] = 365 * (y + 1) + ((y + 1) + 3) \div 4
      /\ DaysBeforeYear[z + 1] = 365 * (z + 1) + ((z + 1) + 3) \div 4
      <2>1. y + 1 \in 0..137 /\ z + 1 \in 0..137
            OBVIOUS
      <2> QED BY <2>1, YearsStart
<1>3. ASSUME y < z PROVE FALSE
      <2>1. ((y + 1) + 3) \div 4 <= (z + 3) \div 4
            BY <1>3
      <2> QED BY <1>1, <1>2, <1>3, <2>1
<1>4. ASSUME z < y PROVE FALSE
      <2>1. ((z + 1) + 3) \div 4 <= (y + 3) \div 4
            BY <1>4
      <2> QED BY <1>1, <1>2, <1>4, <2>1
<1> QED BY <1>3, <1>4

\* DateTime(t) of a time in the century.
UnixTime(n, s) == [days |-> DaysTo2000 + n, secs |-> s]
LEMMA DateOfDay ==
    ASSUME NEW y \in 0..99, NEW m \in 1..12, NEW d \in DaysOf(y, m), NEW s \in Nat, s < SecondsPerDay
    PROVE  DateTime(UnixTime(DayNumber(y, m, d), s))
             = Date(y, m, d, s \div 3600, (s \div 60) % 60, s % 60)
<1> DEFINE n == DayNumber(y, m, d)
           t == UnixTime(n, s)
           since == Diff32(t, [days |-> DaysTo2000, secs |-> 0])
           InYear(z) == DaysBeforeYear[z] <= since.days /\ since.days < DaysBeforeYear[z + 1]
           yOff == CHOOSE z \in 0..136 : InYear(z)
           md == MonthAndDay(yOff, since.days - DaysBeforeYear[yOff])
<1>1. /\ n \in Nat /\ n <= 36600 /\ n = DaysBeforeYear[y] + DaysInYear(y, m) + (d - 1)
      /\ DaysBeforeYear[y] + DaysInYear(y, m) <= n
      /\ m < 12 => n < DaysBeforeYear[y] + DaysInYear(y, m + 1)
      /\ n < DaysBeforeYear[y + 1] /\ d \in 1..31
      BY DayNumberIs
<1>2. /\ DaysInYear(y, m) \in Nat /\ DaysBeforeYear[y] \in Nat
      /\ m < 12 => DaysInYear(y, m + 1) \in Nat
      <2>1. m < 12 => m + 1 \in 1..12
            OBVIOUS
      <2>2. y \in 0..137 /\ y \in Nat
            OBVIOUS
      <2>3. 365 * y + (y + 3) \div 4 \in Nat
            OBVIOUS
      <2>4. DaysBeforeYear[y] \in Nat
            BY <2>2, <2>3, YearsStart
      <2> QED BY <2>1, <2>2, <2>4, MonthsAddUp
<1>3. DateTime(t) = Date(yOff, md[1], md[2], since.secs \div 3600, (since.secs \div 60) % 60,
                         since.secs % 60)
      BY DEF DateTime
<1> HIDE DEF n
<1>4. since = [days |-> n, secs |-> s]
      <2>0. n \in Nat /\ n <= 36600
            BY <1>1
      <2>1. Seconds((DaysTo2000 + n) - DaysTo2000, s - 0) = [days |-> n, secs |-> s]
            <3>1. s \div 86400 = 0 /\ s % 86400 = s /\ s - 0 = s
                  BY ONLY s \in Nat, s < SecondsPerDay DEF SecondsPerDay
            <3>2. (DaysTo2000 + n) - DaysTo2000 = n /\ n + 0 = n
                  BY ONLY <2>0 DEF DaysTo2000
            <3> QED BY ONLY <3>1, <3>2 DEF Seconds, SecondsPerDay
      <2>2. since = Wrapped([days |-> n, secs |-> s])
            BY ONLY <2>1 DEF Diff32, UnixTime, since, t
      <2> QED BY ONLY <2>0, <2>2 DEF Wrapped, TopDays
<1> HIDE DEF since, t
<1>5. since.days = n /\ since.secs = s
      BY ONLY <1>4
<1>6. yOff = y
      <2>1. y \in 0..136 /\ InYear(y)
            <3>1. DaysBeforeYear[y] <= n
                  <4> DEFINE Y == DaysBeforeYear[y]
                             D == DaysInYear(y, m)
                  <4>1. Y \in Nat /\ D \in Nat /\ Y + D <= n /\ n \in Nat /\ n <= 36600
                        BY <1>1, <1>2
                  <4> HIDE DEF Y, D
                  <4>2. Y <= n
                        BY ONLY <4>1
                  <4> QED BY <4>2 DEF Y
            <3>2. y \in 0..136
                  BY ONLY y \in 0..99
            <3> QED BY <1>1, <1>5, <3>1, <3>2
      <2>2. yOff \in 0..136 /\ InYear(yOff)
            <3> HIDE DEF InYear
            <3> QED BY <2>1
      <2>3. n \in Int
            BY <1>1
      <2> HIDE DEF yOff
      <2> QED BY <1>5, <2>1, <2>2, <2>3, YearIsOne
<1>7. md = <<m, d>>
      <2> DEFINE rest == n - DaysBeforeYear[y]
                 Y == DaysBeforeYear[y]
                 D == DaysInYear(y, m)
                 E == DaysInYear(y, m + 1)
      <2>1. /\ Y \in Nat /\ D \in Nat /\ Y + D <= n /\ n \in Nat /\ n <= 36600 /\ d \in 1..31
            /\ n = Y + D + (d - 1) /\ rest = n - Y
            BY <1>1, <1>2
      <2>2. m < 12 => n < Y + E /\ E \in Nat
            BY <1>1, <1>2
      <2>3. md = MonthAndDay(y, rest)
            BY <1>5, <1>6
      <2> HIDE DEF rest, Y, D, E
      <2>4. rest \in Nat /\ D <= rest /\ (rest - D) + 1 = d
            BY ONLY <2>1
      <2>5. m < 12 => rest < E
            BY ONLY <2>1, <2>2, m \in 1..12
      <2>6. y \in Nat
            OBVIOUS
      <2>7. MonthAndDay(y, rest) = <<m, (rest - D) + 1>>
            BY <2>4, <2>5, <2>6, MonthFound DEF D, E
      <2> QED BY <2>3, <2>4, <2>7
<1> HIDE DEF yOff, md
<1>8. md[1] = m /\ md[2] = d
      BY ONLY <1>7
<1> QED BY <1>3, <1>5, <1>6, <1>8 DEF n, t

--------------------------------------------------------------------------------
\* The date of a day at a second of it, and what the library makes of it.
DateAt(y, m, d, s) == Date(y, m, d, s \div 3600, (s \div 60) % 60, s % 60)
SecondsOfDay == {s \in Nat : s < SecondsPerDay}

LEMMA SecondsFields ==
    ASSUME NEW s \in SecondsOfDay
    PROVE  /\ s \div 3600 \in 0..23 /\ (s \div 60) % 60 \in 0..59 /\ s % 60 \in 0..59
           /\ ((s \div 3600) * 60 + ((s \div 60) % 60)) * 60 + (s % 60) = s
<1>1. s \in Nat /\ s < 86400
      BY DEF SecondsOfDay, SecondsPerDay
<1>2. PICK i, k \in Int : i = s \div 60 /\ k = s % 60
      BY <1>1
<1>3. s = 60 * i + k /\ k \in 0..59 /\ i \in Nat /\ i < 1440
      BY ONLY <1>1, <1>2
<1>4. PICK h, j \in Int : h = i \div 60 /\ j = i % 60
      BY <1>3
<1>5. i = 60 * h + j /\ j \in 0..59 /\ h \in 0..23
      BY ONLY <1>3, <1>4
<1>6. PICK g \in Int : g = s \div 3600
      BY <1>1
<1>7. 3600 * g <= s /\ s < 3600 * g + 3600
      BY ONLY <1>1, <1>6
<1>8. g = h
      BY ONLY <1>2, <1>3, <1>4, <1>5, <1>6, <1>7
<1>9. (h * 60 + j) * 60 + k = s
      BY ONLY <1>3, <1>5
<1>10. s \div 3600 = h /\ (s \div 60) % 60 = j /\ s % 60 = k
       BY ONLY <1>2, <1>4, <1>6, <1>8
<1>11. h \in 0..23 /\ j \in 0..59 /\ k \in 0..59
       BY <1>3, <1>5
<1> DEFINE a == s \div 3600
           b == (s \div 60) % 60
           c == s % 60
<1>12. a = h /\ b = j /\ c = k
       BY <1>10
<1> HIDE DEF a, b, c
<1>13. a \in 0..23 /\ b \in 0..59 /\ c \in 0..59 /\ (a * 60 + b) * 60 + c = s
       BY ONLY <1>9, <1>11, <1>12
<1> QED BY <1>13 DEF a, b, c

LEMMA DaysOfDate ==
    ASSUME NEW y \in 0..99, NEW m \in 1..12, NEW d \in DaysOf(y, m), NEW s \in SecondsOfDay
    PROVE  date2days(DateAt(y, m, d, s)) = DayNumber(y, m, d)
<1> DEFINE e == DaysBeforeMonth[m]
           f == IF m > 2 /\ y % 4 = 0 THEN 1 ELSE 0
           n == DayNumber(y, m, d)
           q == (y + 3) \div 4
           date == DateAt(y, m, d, s)
<1>1. e \in Nat /\ f \in {0, 1} /\ n \in Nat /\ n <= 36600 /\ d \in 1..31 /\ q \in Nat
      BY MonthsStart, DayNumberIs
<1>2. n = 365 * y + q + (e + f) + (d - 1)
      BY DEF DayNumber, DaysInYear
<1>3. date.d = d /\ date.m = m /\ date.yOff = y
      BY DEF DateAt, Date
<1>4. date2days(date) = (d + e + f + 365 * y + q - 1) % 65536
      BY <1>3 DEF date2days
<1> HIDE DEF e, f, n, q, date
<1>5. (d + e + f + 365 * y + q - 1) = n
      BY ONLY <1>1, <1>2, y \in 0..99
<1>6. n % 65536 = n
      BY ONLY <1>1
<1> QED BY <1>4, <1>5, <1>6 DEF n, date

\* Seconds of the century are below 2^32: nothing wraps.
Time(n, s) == [days |-> n, secs |-> s]
FewDays == {n \in Nat : n <= 48000}
LEMMA TimesAdd ==
    ASSUME NEW n \in FewDays, NEW s \in SecondsOfDay
    PROVE  /\ Seconds(n, s) = Time(n, s)
           /\ Wrapped(Time(n, s)) = Time(n, s)
           /\ Seconds(n, s + SecondsPerDay) = Time(n + 1, s)
           /\ Seconds(n + 1, s - SecondsPerDay) = Time(n, s)
<1>1. s \in Nat /\ s < 86400 /\ n \in Nat /\ n <= 48000
      BY DEF SecondsOfDay, SecondsPerDay, FewDays
<1>2. /\ s \div 86400 = 0 /\ s % 86400 = s
      /\ (s + 86400) \div 86400 = 1 /\ (s + 86400) % 86400 = s
      /\ (s - 86400) \div 86400 = -1 /\ (s - 86400) % 86400 = s
      BY ONLY <1>1
<1>3. n + 0 = n /\ (n + 1) + (-1) = n
      BY ONLY <1>1
<1>4. Wrapped(Time(n, s)) = Time(n, s)
      BY ONLY <1>1 DEF Wrapped, TopDays, Time
<1> QED BY ONLY <1>2, <1>3, <1>4 DEF Seconds, SecondsPerDay, Time

LEMMA TimeOfDate ==
    ASSUME NEW y \in 0..99, NEW m \in 1..12, NEW d \in DaysOf(y, m), NEW s \in SecondsOfDay
    PROVE  /\ unixtime(DateAt(y, m, d, s)) = UnixTime(DayNumber(y, m, d), s)
           /\ DateTime(UnixTime(DayNumber(y, m, d), s)) = DateAt(y, m, d, s)
           /\ isValid(DateAt(y, m, d, s))
<1> DEFINE n == DayNumber(y, m, d)
           date == DateAt(y, m, d, s)
           h == s \div 3600
           i == (s \div 60) % 60
           j == s % 60
<1>0. s \in SecondsOfDay
      OBVIOUS
<1>1. n \in Nat /\ n <= 36600
      BY DayNumberIs
<1>2. date2days(date) = n
      BY DaysOfDate
<1>3. date.hh = h /\ date.mm = i /\ date.ss = j /\ date.yOff = y
      BY DEF DateAt, Date
<1>4. (h * 60 + i) * 60 + j = s
      <2> HIDE DEF n, date
      <2> QED BY ONLY <1>0, SecondsFields DEF h, i, j
<1>5. (date.hh * 60 + date.mm) * 60 + date.ss = s
      BY <1>3, <1>4
<1>5a. DateTime(UnixTime(n, s)) = date
      <2>1. s \in Nat /\ s < SecondsPerDay
            BY DEF SecondsOfDay
      <2> QED BY <2>1, DateOfDay DEF DateAt
<1> HIDE DEF n, date, h, i, j
<1>6. secondstime(date) = Time(n, s)
      <2>1. secondstime(date) = Seconds(n, s)
            BY ONLY <1>2, <1>5 DEF secondstime
      <2>2. n \in FewDays
            BY ONLY <1>1 DEF FewDays
      <2>3. Seconds(n, s) = Time(n, s)
            BY ONLY <1>0, <2>2, TimesAdd
      <2> QED BY ONLY <2>1, <2>3
<1>7. unixtime(date) = UnixTime(n, s)
      <2>1. n + DaysTo2000 \in Nat /\ n + DaysTo2000 <= 48000 /\ s + 0 = s
            BY <1>1 DEF DaysTo2000, SecondsOfDay
      <2>2. DaysTo2000 + n = n + DaysTo2000
            BY <1>1 DEF DaysTo2000
      <2>3. unixtime(date) = Wrapped(Seconds(n + DaysTo2000, s))
            BY ONLY <1>6, <2>1, <2>2 DEF unixtime, Sum32, Time
      <2> DEFINE N == n + DaysTo2000
      <2> HIDE DEF N
      <2>4. N \in FewDays
            BY <2>1 DEF N, FewDays
      <2>5. Seconds(N, s) = Time(N, s) /\ Wrapped(Time(N, s)) = Time(N, s)
            BY ONLY <1>0, <2>4, TimesAdd
      <2> QED BY <2>2, <2>3, <2>5 DEF UnixTime, Time, N
<1>8. isValid(date)
      <2>1. date.yOff < 100
            BY <1>3
      <2> QED BY <1>5a, <1>7, <2>1 DEF isValid
<1> QED BY <1>5a, <1>7, <1>8 DEF n, date

--------------------------------------------------------------------------------
\* Sums and differences within a day and over midnight.
LEMMA WithinTheDay ==
    ASSUME NEW n \in FewDays, NEW r \in SecondsOfDay, NEW s \in SecondsOfDay, r < s
    PROVE  /\ s - r \in SecondsOfDay /\ Seconds(0, s - r) = Time(0, s - r)
           /\ Sum32(Time(n, r), Time(0, s - r)) = Time(n, s)
           /\ Diff32(Time(n, s), Time(n, r)) = Time(0, s - r)
           /\ Diff32(Time(n, s), Time(0, s - r)) = Time(n, r)
<1> DEFINE k == s - r
<1>1. r \in Nat /\ s \in Nat /\ s < 86400 /\ r < s /\ n \in Nat
      BY DEF SecondsOfDay, SecondsPerDay, FewDays
<1>2. k \in SecondsOfDay /\ 0 \in FewDays
      BY <1>1 DEF SecondsOfDay, SecondsPerDay, FewDays
<1>3. r + k = s /\ s - k = r /\ n + 0 = n /\ n - n = 0 /\ n - 0 = n
      BY <1>1
<1>4. s - r = k
      OBVIOUS
<1> HIDE DEF k
<1>5. Seconds(0, k) = Time(0, k) /\ Wrapped(Time(0, k)) = Time(0, k)
      BY <1>2, TimesAdd
<1>6. /\ Seconds(n, s) = Time(n, s) /\ Wrapped(Time(n, s)) = Time(n, s)
      /\ Seconds(n, r) = Time(n, r) /\ Wrapped(Time(n, r)) = Time(n, r)
      BY TimesAdd
<1>7. \A i, j : Time(i, j).days = i /\ Time(i, j).secs = j
      BY DEF Time
<1>8. Sum32(Time(n, r), Time(0, k)) = Time(n, s)
      BY <1>3, <1>6, <1>7 DEF Sum32
<1>9. Diff32(Time(n, s), Time(n, r)) = Time(0, k)
      BY <1>3, <1>4, <1>5, <1>7 DEF Diff32
<1>10. Diff32(Time(n, s), Time(0, k)) = Time(n, r)
       BY <1>3, <1>6, <1>7 DEF Diff32
<1> QED BY <1>2, <1>4, <1>5, <1>8, <1>9, <1>10

\* What is left of a day at a second of it.
RestOfDay(r) == Seconds(0, SecondsPerDay - r)
LEMMA RestOfDayIs ==
    ASSUME NEW r \in SecondsOfDay
    PROVE  \/ r = 0 /\ RestOfDay(r) = Time(1, 0)
           \/ /\ r > 0 /\ SecondsPerDay - r \in SecondsOfDay
              /\ RestOfDay(r) = Time(0, SecondsPerDay - r)
<1>1. r \in Nat /\ r < 86400
      BY DEF SecondsOfDay, SecondsPerDay
<1>2. 0 \in FewDays /\ 0 \in SecondsOfDay
      BY DEF FewDays, SecondsOfDay, SecondsPerDay
<1>3. CASE r = 0
      <2>1. SecondsPerDay - r = 0 + SecondsPerDay /\ 0 + 1 = 1
            BY <1>3 DEF SecondsPerDay
      <2>2. Seconds(0, 0 + SecondsPerDay) = Time(0 + 1, 0)
            BY <1>2, TimesAdd
      <2> QED BY <1>3, <2>1, <2>2 DEF RestOfDay
<1>4. CASE r # 0
      <2> DEFINE k == SecondsPerDay - r
      <2>1. k \in SecondsOfDay /\ r > 0
            BY <1>1, <1>4 DEF SecondsOfDay, SecondsPerDay
      <2> HIDE DEF k
      <2>2. Seconds(0, k) = Time(0, k)
            BY <1>2, <2>1, TimesAdd
      <2> QED BY <2>1, <2>2 DEF RestOfDay, k
<1> QED BY <1>3, <1>4

LEMMA OverMidnight ==
    ASSUME NEW n \in FewDays, n + 1 \in FewDays, NEW r \in SecondsOfDay
    PROVE  /\ Sum32(Time(n, r), RestOfDay(r)) = Time(n + 1, 0)
           /\ Diff32(Time(n + 1, 0), Time(n, r)) = RestOfDay(r)
           /\ Diff32(Time(n + 1, 0), RestOfDay(r)) = Time(n, r)
<1> DEFINE N == n + 1
<1>1. n \in Nat /\ N \in Nat /\ N = n + 1 /\ r \in Nat /\ r < SecondsPerDay /\ N \in FewDays
      BY DEF FewDays, SecondsOfDay
<1>2. 0 \in FewDays /\ 1 \in FewDays /\ 0 \in SecondsOfDay
      BY DEF FewDays, SecondsOfDay, SecondsPerDay
<1>3. \A i, j : Time(i, j).days = i /\ Time(i, j).secs = j
      BY DEF Time
<1> HIDE DEF N
<1>4. /\ Seconds(N, 0) = Time(N, 0) /\ Wrapped(Time(N, 0)) = Time(N, 0)
      /\ Seconds(n, r) = Time(n, r) /\ Wrapped(Time(n, r)) = Time(n, r)
      /\ Seconds(1, 0) = Time(1, 0) /\ Wrapped(Time(1, 0)) = Time(1, 0)
      /\ Seconds(n, 0 + SecondsPerDay) = Time(n + 1, 0)
      /\ Seconds(n + 1, r - SecondsPerDay) = Time(n, r)
      BY <1>1, <1>2, TimesAdd
<1>5. CASE r = 0 /\ RestOfDay(r) = Time(1, 0)
      <2>1. n + 1 = N /\ r + 0 = 0 /\ N - n = 1 /\ 0 - r = 0 /\ N - 1 = n /\ 0 - 0 = r
            BY <1>1, <1>5
      <2>2. Sum32(Time(n, r), Time(1, 0)) = Time(N, 0)
            BY <1>3, <1>4, <2>1 DEF Sum32
      <2>3. Diff32(Time(N, 0), Time(n, r)) = Time(1, 0)
            BY <1>3, <1>4, <2>1 DEF Diff32
      <2>4. Diff32(Time(N, 0), Time(1, 0)) = Time(n, r)
            BY <1>3, <1>4, <2>1 DEF Diff32
      <2> QED BY <1>1, <1>5, <2>2, <2>3, <2>4
<1>6. CASE /\ r > 0 /\ SecondsPerDay - r \in SecondsOfDay
           /\ RestOfDay(r) = Time(0, SecondsPerDay - r)
      <2> DEFINE k == SecondsPerDay - r
      <2>1. /\ n + 0 = n /\ r + k = 0 + SecondsPerDay /\ N - n = 0 + 1 /\ 0 - r = k - SecondsPerDay
            /\ N - 0 = n + 1 /\ 0 - k = r - SecondsPerDay
            BY <1>1, <1>6 DEF SecondsPerDay
      <2>2. k \in SecondsOfDay /\ RestOfDay(r) = Time(0, k)
            BY <1>6
      <2> HIDE DEF k
      <2>3. Seconds(0 + 1, k - SecondsPerDay) = Time(0, k) /\ Wrapped(Time(0, k)) = Time(0, k)
            BY <1>2, <2>2, TimesAdd
      <2>4. Sum32(Time(n, r), Time(0, k)) = Time(N, 0)
            BY <1>1, <1>3, <1>4, <2>1 DEF Sum32
      <2>5. Diff32(Time(N, 0), Time(n, r)) = Time(0, k)
            BY <1>3, <1>4, <2>1, <2>3 DEF Diff32
      <2>6. Diff32(Time(N, 0), Time(0, k)) = Time(n, r)
            BY <1>3, <1>4, <2>1 DEF Diff32
      <2> QED BY <1>1, <2>2, <2>4, <2>5, <2>6
<1> QED BY <1>5, <1>6, RestOfDayIs

\* A span of a day at most is the one that its fields make.
LEMMA SpanOfFields ==
    ASSUME NEW n \in {0, 1}, NEW s \in SecondsOfDay
    PROVE  LET fields == SpanFields(Time(n, s))
           IN  TimeSpan(fields[1], fields[2], fields[3], fields[4]) = Time(n, s)
<1> DEFINE h == s \div 3600
           g == h % 24
           i == (s \div 60) % 60
           j == s % 60
           fields == SpanFields(Time(n, s))
<1>1. n \in FewDays
      BY DEF FewDays
<1>2. h \in 0..23 /\ i \in 0..59 /\ j \in 0..59 /\ (h * 60 + i) * 60 + j = s
      <2> HIDE DEF fields
      <2> QED BY SecondsFields DEF h, i, j
<1>3. fields = <<n, g, i, j>>
      BY DEF SpanFields, Time
<1> HIDE DEF h, i, j
<1>4. g = h
      BY <1>2
<1> HIDE DEF g, fields
<1>5. fields[1] = n /\ fields[2] = h /\ fields[3] = i /\ fields[4] = j
      BY <1>3, <1>4
<1>6. h * 3600 + i * 60 + j = s
      BY ONLY <1>2
<1>7. TimeSpan(n, h, i, j) = Wrapped(Seconds(n, s))
      BY <1>6 DEF TimeSpan
<1>8. Wrapped(Seconds(n, s)) = Time(n, s)
      BY <1>1, TimesAdd
<1>9. TimeSpan(fields[1], fields[2], fields[3], fields[4]) = Time(n, s)
      BY <1>5, <1>7, <1>8
<1> QED BY <1>9 DEF fields

--------------------------------------------------------------------------------
\* The days of the century, each with its number, and its dates.
DaysOfCentury == {c \in (0..99) \X (1..12) \X (1..31) : c[3] \in DaysOf(c[1], c[2])}
DayCount(c) == DayNumber(c[1], c[2], c[3])
OnDay(c, s) == DateAt(c[1], c[2], c[3], s)
Stamp(c) == DaysTo2000 + DayCount(c)

LEMMA Calculated ==
    ASSUME NEW c \in DaysOfCentury, NEW s \in SecondsOfDay
    PROVE  /\ DayCount(c) \in Nat /\ DayCount(c) <= 36600 /\ Stamp(c) \in FewDays
           /\ date2days(OnDay(c, s)) = DayCount(c)
           /\ unixtime(OnDay(c, s)) = Time(Stamp(c), s)
           /\ DateTime(Time(Stamp(c), s)) = OnDay(c, s)
           /\ isValid(OnDay(c, s))
<1> DEFINE y == c[1]
           m == c[2]
           d == c[3]
<1>1. y \in 0..99 /\ m \in 1..12 /\ d \in DaysOf(y, m)
      BY DEF DaysOfCentury
<1>2. DayCount(c) = DayNumber(y, m, d) /\ OnDay(c, s) = DateAt(y, m, d, s)
      BY DEF DayCount, OnDay
<1> HIDE DEF y, m, d
<1>3. DayCount(c) \in Nat /\ DayCount(c) <= 36600
      BY <1>1, <1>2, DayNumberIs
<1>4. Stamp(c) \in FewDays
      BY <1>3 DEF Stamp, FewDays, DaysTo2000
<1>5. UnixTime(DayCount(c), s) = Time(Stamp(c), s)
      BY DEF UnixTime, Time, Stamp
<1> QED BY <1>1, <1>2, <1>3, <1>4, <1>5, DaysOfDate, TimeOfDate

\* A day of the calendar is before the day after it, and one less.
DayBefore(b, c) ==
    \/ b[1] < c[1]
    \/ b[1] = c[1] /\ b[2] < c[2]
    \/ b[1] = c[1] /\ b[2] = c[2] /\ b[3] < c[3]
LEMMA DayAfterCounts ==
    ASSUME NEW c \in DaysOfCentury, DayAfter(c)[1] < 100
    PROVE  /\ DayAfter(c) \in DaysOfCentury
           /\ DayCount(DayAfter(c)) = DayCount(c) + 1
           /\ DayBefore(c, DayAfter(c))
<1> DEFINE y == c[1]
           m == c[2]
           d == c[3]
           a == DayAfter(c)
           L == MonthLength(y, m)
           D == DaysInYear(y, m)
<1>1. y \in 0..99 /\ m \in 1..12 /\ d \in 1..31 /\ d \in 1..L
      BY DEF DaysOfCentury, DaysOf
<1>2. a = IF d < L THEN <<y, m, d + 1>> ELSE IF m < 12 THEN <<y, m + 1, 1>> ELSE <<y + 1, 1, 1>>
      BY DEF DayAfter
<1>3. DayCount(c) = 365 * y + (y + 3) \div 4 + D + (d - 1)
      BY DEF DayCount, DayNumber
<1>4. \A e \in 0..99, f \in 1..12, g \in 1..31 : g <= MonthLength(e, f) /\ MonthLength(e, f) \in 28..31
         => <<e, f, g>> \in DaysOfCentury
      BY DEF DaysOfCentury, DaysOf
<1>5. \A e, f, g : DayCount(<<e, f, g>>) = 365 * e + (e + 3) \div 4 + DaysInYear(e, f) + (g - 1)
      BY DEF DayCount, DayNumber
<1>6. /\ L \in 28..31 /\ D \in Nat /\ DaysInYear(y, 12) + 31 = 365 + Leap(y)
      /\ m < 12 => DaysInYear(y, m + 1) = D + L
      <2>1. y \in Nat /\ (m < 12 => m \in 1..11)
            BY <1>1
      <2> HIDE DEF y, m
      <2> QED BY <1>1, <2>1, MonthsAddUp
<1> HIDE DEF y, m, d, a, L, D
<1>7. CASE d < L
      <2>1. a = <<y, m, d + 1>> /\ d + 1 \in 1..31 /\ d + 1 <= L /\ (d + 1) - 1 = (d - 1) + 1
            BY <1>1, <1>2, <1>6, <1>7
      <2>2. a \in DaysOfCentury
            BY <1>1, <1>4, <1>6, <2>1 DEF L
      <2>3. DayCount(a) = 365 * y + (y + 3) \div 4 + D + ((d + 1) - 1)
            BY <1>5, <2>1 DEF D
      <2>4. DayCount(a) = DayCount(c) + 1
            BY <1>1, <1>3, <1>6, <2>3
      <2>5. DayBefore(c, a)
            BY <1>1, <2>1 DEF DayBefore, y, m, d
      <2> QED BY <2>2, <2>4, <2>5 DEF a
<1>8. CASE d >= L /\ m < 12
      <2>1. a = <<y, m + 1, 1>> /\ m + 1 \in 1..12 /\ d = L
            BY <1>1, <1>2, <1>6, <1>8
      <2>2. y \in Nat
            BY <1>1
      <2>3. MonthLength(y, m + 1) \in 28..31
            BY <2>1, <2>2, MonthsAddUp
      <2>4. a \in DaysOfCentury
            <3> DEFINE f == m + 1
            <3>1. f \in 1..12 /\ MonthLength(y, f) \in 28..31 /\ a = <<y, f, 1>>
                  BY <2>1, <2>3
            <3> HIDE DEF f
            <3>2. 1 \in 1..31 /\ 1 <= MonthLength(y, f)
                  BY <3>1
            <3> QED BY <1>1, <1>4, <3>1, <3>2
      <2>5. DayCount(a) = 365 * y + (y + 3) \div 4 + DaysInYear(y, m + 1) + (1 - 1)
            BY <1>5, <2>1
      <2>6. DayCount(a) = DayCount(c) + 1
            BY <1>1, <1>3, <1>6, <1>8, <2>1, <2>5
      <2>7. DayBefore(c, a)
            BY <1>1, <2>1 DEF DayBefore, y, m, d
      <2> QED BY <2>4, <2>6, <2>7 DEF a
<1>9. CASE d >= L /\ m = 12
      <2>1. a = <<y + 1, 1, 1>> /\ d = L /\ L = 31
            BY <1>1, <1>2, <1>6, <1>9 DEF MonthLength, L
      <2>2. y + 1 \in 0..99 /\ y + 1 \in Nat
            BY <1>1, <2>1 DEF a
      <2>3. MonthLength(y + 1, 1) \in 28..31 /\ DaysInYear(y + 1, 1) = 0
            BY <2>2, MonthsAddUp
      <2>4. a \in DaysOfCentury
            <3> DEFINE e == y + 1
            <3>1. e \in 0..99 /\ MonthLength(e, 1) \in 28..31 /\ a = <<e, 1, 1>>
                  BY <2>1, <2>2, <2>3
            <3> HIDE DEF e
            <3>2. 1 \in 1..31 /\ 1 \in 1..12 /\ 1 <= MonthLength(e, 1)
                  BY <3>1
            <3> QED BY <1>4, <3>1, <3>2
      <2>5. DayCount(a) = 365 * (y + 1) + ((y + 1) + 3) \div 4 + DaysInYear(y + 1, 1) + (1 - 1)
            BY <1>5, <2>1
      <2>6. ((y + 1) + 3) \div 4 = (y + 3) \div 4 + Leap(y) /\ Leap(y) \in {0, 1}
            <3>1. CASE y % 4 = 0
                  BY <1>1, <3>1 DEF Leap
            <3>2. CASE y % 4 # 0
                  BY <1>1, <3>2 DEF Leap
            <3> QED BY <3>1, <3>2
      <2>7. D + 31 = 365 + Leap(y)
            BY <1>6, <1>9 DEF D
      <2>8. DayCount(a) = DayCount(c) + 1
            <3> DEFINE q == (y + 3) \div 4
                       l == Leap(y)
            <3>1. /\ DayCount(a) = 365 * (y + 1) + (q + l) + 0 + (1 - 1) /\ D + 31 = 365 + l
                  /\ DayCount(c) = 365 * y + q + D + (31 - 1)
                  BY <1>3, <2>1, <2>3, <2>5, <2>6, <2>7
            <3>2. q \in Nat /\ l \in {0, 1}
                  BY <1>1, <2>6
            <3> HIDE DEF q, l
            <3> QED BY ONLY <1>1, <1>6, <3>1, <3>2
      <2>9. DayBefore(c, a)
            BY <1>1, <2>1 DEF DayBefore, y, m, d
      <2> QED BY <2>4, <2>8, <2>9 DEF a
<1>10. d \in Int /\ L \in Int /\ m \in 1..12
       BY <1>1, <1>6
<1> QED BY <1>7, <1>8, <1>9, <1>10 DEF a, d, L, m

\* The day of the week goes on by one with the day.
LEMMA WeekdayGoesOn ==
    ASSUME NEW n \in Nat
    PROVE  ((n + 1) + 6) % 7 = (((n + 6) % 7) + 1) % 7
OBVIOUS

--------------------------------------------------------------------------------
\* The order of dates: of operator<, by the first field that differs.
LEMMA FieldsOfDate ==
    ASSUME NEW c \in DaysOfCentury, NEW s \in SecondsOfDay
    PROVE  LET f == Fields(OnDay(c, s))
           IN  /\ f[1] = c[1] /\ f[2] = c[2] /\ f[3] = c[3] /\ f[4] = s \div 3600
               /\ f[5] = (s \div 60) % 60 /\ f[6] = s % 60
               /\ f[1] \in 0..99 /\ f[2] \in 1..12 /\ f[3] \in 1..31 /\ f[4] \in 0..23
               /\ f[5] \in 0..59 /\ f[6] \in 0..59
               /\ (f[4] * 60 + f[5]) * 60 + f[6] = s
<1> DEFINE f == Fields(OnDay(c, s))
           h == s \div 3600
           i == (s \div 60) % 60
           j == s % 60
<1>1. h \in 0..23 /\ i \in 0..59 /\ j \in 0..59 /\ (h * 60 + i) * 60 + j = s
      <2> HIDE DEF f
      <2> QED BY SecondsFields DEF h, i, j
<1>2. f = <<c[1], c[2], c[3], h, i, j>>
      BY DEF Fields, OnDay, DateAt, Date
<1>3. c[1] \in 0..99 /\ c[2] \in 1..12 /\ c[3] \in 1..31
      BY DEF DaysOfCentury
<1>4. f[1] = c[1] /\ f[2] = c[2] /\ f[3] = c[3] /\ f[4] = h /\ f[5] = i /\ f[6] = j
      <2> HIDE DEF h, i, j, f
      <2> QED BY <1>2
<1> HIDE DEF h, i, j, f
<1>5. (f[4] * 60 + f[5]) * 60 + f[6] = s
      BY ONLY <1>1, <1>4
<1>6. /\ f[1] \in 0..99 /\ f[2] \in 1..12 /\ f[3] \in 1..31 /\ f[4] \in 0..23
      /\ f[5] \in 0..59 /\ f[6] \in 0..59
      BY ONLY <1>1, <1>3, <1>4
<1> QED BY <1>4, <1>5, <1>6 DEF f, h, i, j

LEMMA EarlierOnce ==
    ASSUME NEW a, NEW b,
           \A i \in 1..6 : Fields(a)[i] \in Int /\ Fields(b)[i] \in Int,
           Earlier(a, b)
    PROVE  ~ Earlier(b, a)
<1> DEFINE A(i) == Fields(a)[i]
           B(i) == Fields(b)[i]
<1>1. \A i \in 1..6 : A(i) \in Int /\ B(i) \in Int
      OBVIOUS
<1>2. PICK i \in 1..6 : A(i) < B(i) /\ \A k \in 1..(i - 1) : A(k) = B(k)
      BY DEF Earlier
<1>3. ASSUME NEW j \in 1..6, B(j) < A(j), \A k \in 1..(j - 1) : B(k) = A(k)
      PROVE  FALSE
      <2> HIDE DEF A, B
      <2>1. CASE i < j
            <3>1. i \in 1..(j - 1)
                  BY <2>1
            <3> QED BY <1>1, <1>2, <1>3, <3>1
      <2>2. CASE j < i
            <3>1. j \in 1..(i - 1)
                  BY <2>2
            <3> QED BY <1>1, <1>2, <1>3, <3>1
      <2>3. CASE i = j
            BY <1>1, <1>2, <1>3, <2>3
      <2> QED BY <2>1, <2>2, <2>3
<1> QED BY <1>3 DEF Earlier

LEMMA LaterIsLater ==
    ASSUME NEW b \in DaysOfCentury, NEW c \in DaysOfCentury,
           NEW r \in SecondsOfDay, NEW s \in SecondsOfDay,
           DayBefore(b, c) \/ (b = c /\ r < s)
    PROVE  /\ Earlier(OnDay(b, r), OnDay(c, s)) /\ ~ Earlier(OnDay(c, s), OnDay(b, r))
<1> DEFINE f == Fields(OnDay(b, r))
           g == Fields(OnDay(c, s))
<1>1. /\ f[1] = b[1] /\ f[2] = b[2] /\ f[3] = b[3]
      /\ f[1] \in 0..99 /\ f[2] \in 1..12 /\ f[3] \in 1..31 /\ f[4] \in 0..23
      /\ f[5] \in 0..59 /\ f[6] \in 0..59 /\ (f[4] * 60 + f[5]) * 60 + f[6] = r
      BY FieldsOfDate
<1>2. /\ g[1] = c[1] /\ g[2] = c[2] /\ g[3] = c[3]
      /\ g[1] \in 0..99 /\ g[2] \in 1..12 /\ g[3] \in 1..31 /\ g[4] \in 0..23
      /\ g[5] \in 0..59 /\ g[6] \in 0..59 /\ (g[4] * 60 + g[5]) * 60 + g[6] = s
      BY FieldsOfDate
<1> DEFINE Less(i) == f[i] < g[i] /\ \A j \in 1..(i - 1) : f[j] = g[j]
<1> HIDE DEF f, g
<1>3. ASSUME DayBefore(b, c) PROVE Less(1) \/ Less(2) \/ Less(3)
      <2>1. CASE f[1] < g[1]
            BY <2>1
      <2>2. CASE f[1] = g[1] /\ f[2] < g[2]
            BY <2>2
      <2>3. CASE f[1] = g[1] /\ f[2] = g[2] /\ f[3] < g[3]
            <3>1. \A j \in 1..(3 - 1) : j = 1 \/ j = 2
                  OBVIOUS
            <3> QED BY <2>3, <3>1
      <2> QED BY <1>1, <1>2, <1>3, <2>1, <2>2, <2>3 DEF DayBefore
<1>4. ASSUME b = c, r < s PROVE Less(4) \/ Less(5) \/ Less(6)
      <2>1. f[1] = g[1] /\ f[2] = g[2] /\ f[3] = g[3]
            BY <1>1, <1>2, <1>4
      <2>2. \/ f[4] < g[4]
            \/ f[4] = g[4] /\ f[5] < g[5]
            \/ f[4] = g[4] /\ f[5] = g[5] /\ f[6] < g[6]
            <3> DEFINE F4 == f[4]
                       F5 == f[5]
                       F6 == f[6]
                       G4 == g[4]
                       G5 == g[5]
                       G6 == g[6]
            <3>1. /\ F4 \in 0..23 /\ F5 \in 0..59 /\ F6 \in 0..59 /\ (F4 * 60 + F5) * 60 + F6 = r
                  /\ G4 \in 0..23 /\ G5 \in 0..59 /\ G6 \in 0..59 /\ (G4 * 60 + G5) * 60 + G6 = s
                  BY <1>1, <1>2
            <3> HIDE DEF F4, F5, F6, G4, G5, G6
            <3>2. /\ F4 \in Int /\ 0 <= F5 /\ F5 <= 59 /\ 0 <= F6 /\ F6 <= 59 /\ F5 \in Int /\ F6 \in Int
                  /\ G4 \in Int /\ 0 <= G5 /\ G5 <= 59 /\ 0 <= G6 /\ G6 <= 59 /\ G5 \in Int /\ G6 \in Int
                  /\ 3600 * F4 + 60 * F5 + F6 < 3600 * G4 + 60 * G5 + G6
                  BY <1>4, <3>1
            <3>3. F4 <= G4 /\ (F4 = G4 => F5 <= G5) /\ (F4 = G4 /\ F5 = G5 => F6 < G6)
                  BY ONLY <3>2
            <3>4. \/ F4 < G4
                  \/ F4 = G4 /\ F5 < G5
                  \/ F4 = G4 /\ F5 = G5 /\ F6 < G6
                  BY ONLY <3>2, <3>3
            <3> QED BY <3>4 DEF F4, F5, F6, G4, G5, G6
      <2>3. CASE f[4] < g[4]
            <3>1. \A j \in 1..(4 - 1) : j \in {1, 2, 3}
                  OBVIOUS
            <3> QED BY <2>1, <2>3, <3>1
      <2>4. CASE f[4] = g[4] /\ f[5] < g[5]
            <3>1. \A j \in 1..(5 - 1) : j \in {1, 2, 3, 4}
                  OBVIOUS
            <3> QED BY <2>1, <2>4, <3>1
      <2>5. CASE f[4] = g[4] /\ f[5] = g[5] /\ f[6] < g[6]
            <3>1. \A j \in 1..(6 - 1) : j \in {1, 2, 3, 4, 5}
                  OBVIOUS
            <3> QED BY <2>1, <2>5, <3>1
      <2> QED BY <2>2, <2>3, <2>4, <2>5
<1>5. \E i \in 1..6 : Less(i)
      <2> HIDE DEF Less
      <2> QED BY <1>3, <1>4
<1>6. Earlier(OnDay(b, r), OnDay(c, s))
      BY <1>5 DEF Earlier, f, g
<1>7. \A i \in 1..6 : f[i] \in Int /\ g[i] \in Int
      <2>1. \A i \in 1..6 : i \in {1, 2, 3, 4, 5, 6}
            OBVIOUS
      <2>2. /\ f[1] \in Int /\ f[2] \in Int /\ f[3] \in Int /\ f[4] \in Int /\ f[5] \in Int /\ f[6] \in Int
            /\ g[1] \in Int /\ g[2] \in Int /\ g[3] \in Int /\ g[4] \in Int /\ g[5] \in Int /\ g[6] \in Int
            <3>1. \A i, j : i..j \subseteq Int
                  OBVIOUS
            <3> QED BY ONLY <1>1, <1>2, <3>1, Zenon
      <2> QED BY ONLY <2>1, <2>2, Zenon
<1>8. ~ Earlier(OnDay(c, s), OnDay(b, r))
      BY <1>6, <1>7, EarlierOnce DEF f, g
<1> QED BY <1>6, <1>8

--------------------------------------------------------------------------------
\* The walk stays beside the library: the date is the calendar's day at the
\* moment, and the one before it a date of that day or of the day before.
WalkInv ==
    /\ calendarDay \in DaysOfCentury /\ moment \in 1..Len(Moments)
    /\ dateTime = OnDay(calendarDay, Moments[moment])
    /\ calendarDays = DayCount(calendarDay)
    /\ \/ dateBefore = dateTime
       \/ \E r \in SecondsOfDay : r < Moments[moment] /\ dateBefore = OnDay(calendarDay, r)
       \/ /\ moment = 1
          /\ \E b \in DaysOfCentury, r \in SecondsOfDay :
                DayAfter(b)[1] < 100 /\ calendarDay = DayAfter(b) /\ dateBefore = OnDay(b, r)

LEMMA MomentsAre ==
    /\ Len(Moments) \in Nat /\ 1 \in 1..Len(Moments) /\ Moments[1] = 0
    /\ \A i \in 1..Len(Moments) : Moments[i] \in SecondsOfDay
    /\ \A i \in 1..Len(Moments) : i < Len(Moments) =>
          i + 1 \in 1..Len(Moments) /\ Moments[i] < Moments[i + 1]
<1> DEFINE n == Len(Moments)
<1>1. Moments \in Seq(0..(SecondsPerDay - 1)) /\ n > 0 /\ Moments[1] = 0
      BY CalendarWalkAssumption
<1>2. n \in Nat /\ \A i \in 1..n : Moments[i] \in 0..(SecondsPerDay - 1)
      <2> DEFINE S == 0..(SecondsPerDay - 1)
      <2> HIDE DEF S
      <2>1. Moments \in Seq(S)
            BY <1>1 DEF S
      <2>2. n \in Nat /\ \A i \in 1..n : Moments[i] \in S
            BY <2>1
      <2> QED BY <2>2 DEF S
<1>3. ASSUME NEW i \in 1..n PROVE Moments[i] \in SecondsOfDay
      <2> DEFINE last == SecondsPerDay - 1
                 t == Moments[i]
      <2>1. t \in 0..last /\ last \in Int /\ last < SecondsPerDay
            <3>1. last \in Int /\ last < SecondsPerDay
                  BY ONLY DEF SecondsPerDay
            <3>2. t \in 0..last
                  BY ONLY <1>2, <1>3
            <3> QED BY ONLY <3>1, <3>2
      <2> HIDE DEF last, t
      <2>2. t \in Nat /\ t <= last
            BY ONLY <2>1
      <2>3. t < SecondsPerDay
            BY ONLY <2>1, <2>2 DEF SecondsPerDay
      <2> QED BY <2>2, <2>3 DEF SecondsOfDay, t
<1>4. \A i \in 1..(n - 1) : Moments[i] < Moments[i + 1]
      BY CalendarWalkAssumption
<1> HIDE DEF n
<1>5. 1 \in 1..n
      BY <1>1, <1>2
<1>6. \A i \in 1..n : i < n => i \in 1..(n - 1) /\ i + 1 \in 1..n
      BY <1>2
<1> QED BY <1>1, <1>2, <1>3, <1>4, <1>5, <1>6 DEF n

LEMMA WalkStarts == WalkInit => WalkInv
<1> SUFFICES ASSUME WalkInit PROVE WalkInv
    OBVIOUS
<1>1. PICK y \in Years :
         /\ dateTime = DateOf(2000 + y, 1, 1, 0, 0, 0) /\ dateBefore = dateTime
         /\ calendarDay = <<y, 1, 1>> /\ calendarDays = DaysBeforeYear[y] /\ moment = 1
      BY DEF WalkInit
<1>2. y \in 0..99
      BY CalendarWalkAssumption
<1>3. MonthLength(y, 1) \in 28..31 /\ DaysInYear(y, 1) = 0
      <2>1. y \in Nat /\ 1 \in 1..12
            BY <1>2
      <2> QED BY <2>1, MonthsAddUp
<1>4. calendarDay \in DaysOfCentury
      <2>1. 1 \in DaysOf(y, 1)
            BY <1>3 DEF DaysOf
      <2> QED BY <1>1, <1>2, <2>1 DEF DaysOfCentury
<1>5. DayCount(calendarDay) = DaysBeforeYear[y]
      <2>1. DayCount(calendarDay) = 365 * y + (y + 3) \div 4 + 0 + (1 - 1)
            BY <1>1, <1>3 DEF DayCount, DayNumber
      <2>2. DaysBeforeYear[y] = 365 * y + (y + 3) \div 4
            BY <1>2, YearsStart
      <2> QED BY <1>2, <2>1, <2>2
<1>6. dateTime = OnDay(calendarDay, 0)
      <2>1. /\ (2000 + y) - 2000 = y /\ y % 256 = y /\ 2000 + y >= 2000
            /\ 0 \div 3600 = 0 /\ (0 \div 60) % 60 = 0 /\ 0 % 60 = 0
            BY <1>2
      <2>2. dateTime = Date(y, 1, 1, 0, 0, 0)
            BY <1>1, <2>1 DEF DateOf
      <2>3. OnDay(calendarDay, 0) = Date(y, 1, 1, 0 \div 3600, (0 \div 60) % 60, 0 % 60)
            BY <1>1 DEF OnDay, DateAt
      <2> QED BY ONLY <2>1, <2>2, <2>3
<1> QED BY <1>1, <1>4, <1>5, <1>6, MomentsAre DEF WalkInv

LEMMA WalkGoesOn == WalkInv /\ [WalkNext]_walkVars => WalkInv'
<1> SUFFICES ASSUME WalkInv, [WalkNext]_walkVars PROVE WalkInv'
    OBVIOUS
<1> DEFINE c == calendarDay
           r == Moments[moment]
<1>1. /\ c \in DaysOfCentury /\ moment \in 1..Len(Moments) /\ r \in SecondsOfDay
      /\ dateTime = OnDay(c, r) /\ calendarDays = DayCount(c)
      BY MomentsAre DEF WalkInv
<1>2. /\ unixtime(OnDay(c, r)) = Time(Stamp(c), r) /\ Stamp(c) \in FewDays
      /\ DayCount(c) \in Nat
      BY <1>1, Calculated
<1> HIDE DEF c, r
<1>3. CASE LaterThatDay
      <2> DEFINE s == Moments[moment + 1]
      <2>1. /\ moment + 1 \in 1..Len(Moments) /\ s \in SecondsOfDay /\ r < s
            BY <1>1, <1>3, MomentsAre DEF LaterThatDay, r
      <2>2. dateTime' = Plus(dateTime, Seconds(0, s - r))
            BY <1>3 DEF LaterThatDay, r
      <2>3. s = Moments'[moment'] /\ c' = c /\ calendarDays' = calendarDays /\ dateBefore' = dateTime
            BY <1>3 DEF LaterThatDay, c
      <2> HIDE DEF s
      <2>4. /\ Seconds(0, s - r) = Time(0, s - r)
            /\ Sum32(Time(Stamp(c), r), Time(0, s - r)) = Time(Stamp(c), s)
            BY <1>1, <1>2, <2>1, WithinTheDay
      <2>5. DateTime(Time(Stamp(c), s)) = OnDay(c, s)
            BY <1>1, <2>1, Calculated
      <2>6. dateTime' = OnDay(c, s)
            BY <1>1, <1>2, <2>2, <2>4, <2>5 DEF Plus
      <2>7. moment' = moment + 1
            BY <1>3 DEF LaterThatDay
      <2> QED BY <1>1, <2>1, <2>3, <2>6, <2>7 DEF WalkInv, c, s
<1>4. CASE NextDay
      <2> DEFINE a == DayAfter(c)
      <2>1. a \in DaysOfCentury /\ DayCount(a) = DayCount(c) + 1
            BY <1>1, <1>4, DayAfterCounts DEF NextDay, c
      <2>2. /\ dateTime' = Plus(dateTime, RestOfDay(r)) /\ c' = a /\ moment' = 1
            /\ calendarDays' = calendarDays + 1 /\ dateBefore' = dateTime /\ a[1] < 100
            BY <1>4 DEF NextDay, RestOfDay, c, r
      <2> HIDE DEF a
      <2>3. 0 \in SecondsOfDay
            BY DEF SecondsOfDay, SecondsPerDay
      <2>4. /\ Stamp(a) \in FewDays /\ DateTime(Time(Stamp(a), 0)) = OnDay(a, 0)
            BY <2>1, <2>3, Calculated
      <2>5. Stamp(a) = Stamp(c) + 1
            BY <1>2, <2>1 DEF Stamp, DaysTo2000
      <2>6. Sum32(Time(Stamp(c), r), RestOfDay(r)) = Time(Stamp(a), 0)
            BY <1>1, <1>2, <2>4, <2>5, OverMidnight
      <2>7. dateTime' = OnDay(a, 0)
            BY <1>1, <1>2, <2>2, <2>4, <2>6 DEF Plus
      <2>8. dateBefore' = OnDay(c, r) /\ calendarDay' = DayAfter(c) /\ DayAfter(c)[1] < 100
            BY <1>1, <2>2 DEF a, c
      <2>9. moment' \in 1..Len(Moments) /\ Moments[moment'] = 0
            BY <2>2, MomentsAre
      <2>10. calendarDays' = DayCount(calendarDay') /\ dateTime' = OnDay(calendarDay', Moments[moment'])
             /\ calendarDay' \in DaysOfCentury
             BY <1>1, <2>1, <2>2, <2>7, <2>9 DEF c
      <2> QED BY <1>1, <2>2, <2>8, <2>9, <2>10 DEF WalkInv
<1>5. CASE EndOfTime \/ UNCHANGED walkVars
      BY <1>5 DEF EndOfTime, walkVars, WalkInv
<1> QED BY <1>3, <1>4, <1>5 DEF WalkNext

\* On such a date the library counts, orders and stores as the calendar does.
LEMMA WalkCounts == WalkInv => DatesAgree
<1> SUFFICES ASSUME WalkInv PROVE DatesAgree
    OBVIOUS
<1> DEFINE c == calendarDay
           s == Moments[moment]
<1>1. /\ c \in DaysOfCentury /\ s \in SecondsOfDay /\ dateTime = OnDay(c, s)
      /\ calendarDays = DayCount(c)
      BY MomentsAre DEF WalkInv
<1>2. c = <<c[1], c[2], c[3]>>
      BY <1>1 DEF DaysOfCentury
<1> HIDE DEF c, s
<1>3. isValid(dateTime) /\ date2days(dateTime) = calendarDays
      BY <1>1, Calculated
<1>4. /\ dateTime.yOff = c[1] /\ dateTime.m = c[2] /\ dateTime.d = c[3]
      BY <1>1 DEF OnDay, DateAt, Date
<1>5. (dateTime.hh * 60 + dateTime.mm) * 60 + dateTime.ss = s
      <2> DEFINE h == s \div 3600
                 i == (s \div 60) % 60
                 j == s % 60
      <2>1. dateTime.hh = h /\ dateTime.mm = i /\ dateTime.ss = j
            BY <1>1 DEF OnDay, DateAt, Date
      <2>2. (h * 60 + i) * 60 + j = s
            BY <1>1, SecondsFields
      <2> HIDE DEF h, i, j
      <2> QED BY ONLY <2>1, <2>2
<1> QED BY <1>2, <1>3, <1>4, <1>5 DEF DatesAgree, c, s

LEMMA WalkOrders == WalkInv => OrderAgrees
<1> SUFFICES ASSUME WalkInv, dateBefore # dateTime PROVE OrderAgrees
    BY DEF OrderAgrees
<1> DEFINE c == calendarDay
           s == Moments[moment]
           span == Between(dateTime, dateBefore)
           SpanOf(t) == LET fields == SpanFields(t)
                        IN  TimeSpan(fields[1], fields[2], fields[3], fields[4])
<1>1. /\ c \in DaysOfCentury /\ s \in SecondsOfDay /\ dateTime = OnDay(c, s)
      BY MomentsAre DEF WalkInv
<1>2. /\ unixtime(OnDay(c, s)) = Time(Stamp(c), s) /\ Stamp(c) \in FewDays
      /\ date2days(OnDay(c, s)) = DayCount(c)
      BY <1>1, Calculated
<1>3. SUFFICES /\ Earlier(dateBefore, dateTime) /\ ~ Earlier(dateTime, dateBefore)
               /\ Minus(dateTime, span) = dateBefore /\ SpanOf(span) = span
               /\ dayOfTheWeek(dateTime) =
                     (dayOfTheWeek(dateBefore) + (IF moment = 1 THEN 1 ELSE 0)) % 7
      BY DEF OrderAgrees
<1>4. \A i \in {0, 1}, k \in SecondsOfDay : SpanOf(Time(i, k)) = Time(i, k)
      BY SpanOfFields
<1> HIDE DEF c, s, span, SpanOf
<1>5. CASE \E r \in SecondsOfDay : r < Moments[moment] /\ dateBefore = OnDay(calendarDay, r)
      <2>1. PICK r \in SecondsOfDay : r < s /\ dateBefore = OnDay(c, r)
            BY <1>5 DEF c, s
      <2>2. /\ unixtime(OnDay(c, r)) = Time(Stamp(c), r) /\ date2days(OnDay(c, r)) = DayCount(c)
            /\ DateTime(Time(Stamp(c), r)) = OnDay(c, r) /\ DayCount(c) \in Nat
            BY <1>1, Calculated
      <2>3. Earlier(dateBefore, dateTime) /\ ~ Earlier(dateTime, dateBefore)
            BY <1>1, <2>1, LaterIsLater
      <2> DEFINE k == s - r
      <2>4. /\ k \in SecondsOfDay /\ Diff32(Time(Stamp(c), s), Time(Stamp(c), r)) = Time(0, k)
            /\ Diff32(Time(Stamp(c), s), Time(0, k)) = Time(Stamp(c), r)
            BY <1>1, <1>2, <2>1, WithinTheDay
      <2> HIDE DEF k
      <2>5. span = Time(0, k)
            BY <1>1, <1>2, <2>1, <2>2, <2>4 DEF span, Between
      <2>6. Minus(dateTime, span) = dateBefore
            BY <1>1, <1>2, <2>1, <2>2, <2>4, <2>5 DEF Minus
      <2>7. SpanOf(span) = span
            BY <1>4, <2>4, <2>5
      <2>8. moment # 1
            <3>1. s # 0
                  BY <1>1, <2>1 DEF SecondsOfDay
            <3> QED BY <3>1, MomentsAre DEF s
      <2>9. dayOfTheWeek(dateTime) = (dayOfTheWeek(dateBefore) + 0) % 7
            <3>1. (DayCount(c) + 6) % 7 = (((DayCount(c) + 6) % 7) + 0) % 7
                  BY <2>2
            <3>2. /\ dayOfTheWeek(dateTime) = (DayCount(c) + 6) % 7
                  /\ dayOfTheWeek(dateBefore) = (DayCount(c) + 6) % 7
                  BY <1>1, <1>2, <2>1, <2>2 DEF dayOfTheWeek
            <3> QED BY ONLY <3>1, <3>2
      <2> QED BY <2>3, <2>6, <2>7, <2>8, <2>9
<1>6. CASE /\ moment = 1
           /\ \E b \in DaysOfCentury, r \in SecondsOfDay :
                DayAfter(b)[1] < 100 /\ calendarDay = DayAfter(b) /\ dateBefore = OnDay(b, r)
      <2>1. PICK b \in DaysOfCentury, r \in SecondsOfDay :
                DayAfter(b)[1] < 100 /\ c = DayAfter(b) /\ dateBefore = OnDay(b, r)
            BY <1>6 DEF c
      <2>2. /\ unixtime(OnDay(b, r)) = Time(Stamp(b), r) /\ date2days(OnDay(b, r)) = DayCount(b)
            /\ DateTime(Time(Stamp(b), r)) = OnDay(b, r) /\ DayCount(b) \in Nat /\ Stamp(b) \in FewDays
            BY Calculated
      <2>3. s = 0
            BY <1>6, MomentsAre DEF s
      <2>4. DayCount(c) = DayCount(b) + 1 /\ DayBefore(b, c)
            BY <2>1, DayAfterCounts
      <2>5. Stamp(c) = Stamp(b) + 1
            BY <2>2, <2>4 DEF Stamp, DaysTo2000
      <2>6. Earlier(dateBefore, dateTime) /\ ~ Earlier(dateTime, dateBefore)
            BY <1>1, <2>1, <2>4, LaterIsLater
      <2>7. /\ Diff32(Time(Stamp(c), 0), Time(Stamp(b), r)) = RestOfDay(r)
            /\ Diff32(Time(Stamp(c), 0), RestOfDay(r)) = Time(Stamp(b), r)
            BY <1>2, <2>2, <2>5, OverMidnight
      <2>8. span = RestOfDay(r)
            BY <1>1, <1>2, <2>1, <2>2, <2>3, <2>7 DEF span, Between
      <2>9. Minus(dateTime, span) = dateBefore
            BY <1>1, <1>2, <2>1, <2>2, <2>3, <2>7, <2>8 DEF Minus
      <2>10. SpanOf(span) = span
             <3>1. 0 \in SecondsOfDay
                   BY DEF SecondsOfDay, SecondsPerDay
             <3> QED BY <1>4, <2>8, <3>1, RestOfDayIs
      <2>11. dayOfTheWeek(dateTime) = (dayOfTheWeek(dateBefore) + 1) % 7
             <3>1. ((DayCount(b) + 1) + 6) % 7 = (((DayCount(b) + 6) % 7) + 1) % 7
                   BY <2>2, WeekdayGoesOn
             <3>2. /\ dayOfTheWeek(dateTime) = ((DayCount(b) + 1) + 6) % 7
                   /\ dayOfTheWeek(dateBefore) = (DayCount(b) + 6) % 7
                   BY <1>1, <1>2, <2>1, <2>2, <2>4 DEF dayOfTheWeek
             <3> QED BY ONLY <3>1, <3>2
      <2> QED BY <1>6, <2>6, <2>9, <2>10, <2>11
<1> QED BY <1>5, <1>6 DEF WalkInv

LEMMA WalkStores == WalkInv => BytesAgree
<1> SUFFICES ASSUME WalkInv, NEW i \in 1..6
             PROVE  bcd2bin(bin2bcd(Fields(dateTime)[i])) = Fields(dateTime)[i]
    BY DEF BytesAgree
<1> DEFINE f == Fields(dateTime)
<1>1. /\ calendarDay \in DaysOfCentury /\ Moments[moment] \in SecondsOfDay
      /\ dateTime = OnDay(calendarDay, Moments[moment])
      BY MomentsAre DEF WalkInv
<1>2. /\ f[1] \in 0..99 /\ f[2] \in 1..12 /\ f[3] \in 1..31 /\ f[4] \in 0..23
      /\ f[5] \in 0..59 /\ f[6] \in 0..59
      <2> DEFINE s == Moments[moment]
      <2> HIDE DEF s
      <2>1. s \in SecondsOfDay /\ dateTime = OnDay(calendarDay, s)
            BY <1>1 DEF s
      <2> QED BY <1>1, <2>1, FieldsOfDate
<1> HIDE DEF f
<1>3. f[1] \in 0..99 /\ f[2] \in 0..99 /\ f[3] \in 0..99 /\ f[4] \in 0..99
      /\ f[5] \in 0..99 /\ f[6] \in 0..99
      BY <1>2
<1>4. i \in {1, 2, 3, 4, 5, 6}
      OBVIOUS
<1>5. f[i] \in 0..99
      BY ONLY <1>3, <1>4, Zenon
<1> QED BY <1>5, BcdRoundTrip DEF f

--------------------------------------------------------------------------------
\* What toString() writes at a place: the first that fits, or nothing.
LEMMA NothingFits ==
    ASSUME NEW rules, NEW text, NEW i, \A r \in DOMAIN rules : ~ IsAt(rules[r][1], text, i)
    PROVE  OverwriteAt(rules, text, i) = text
<1>1. {r \in DOMAIN rules : IsAt(rules[r][1], text, i)} = {}
      OBVIOUS
<1> QED BY <1>1 DEF OverwriteAt

LEMMA FirstFits ==
    ASSUME NEW rules, NEW text, NEW i, DOMAIN rules \subseteq Nat,
           NEW r \in DOMAIN rules, IsAt(rules[r][1], text, i),
           \A q \in DOMAIN rules : q < r => ~ IsAt(rules[q][1], text, i)
    PROVE  OverwriteAt(rules, text, i) =
              [k \in DOMAIN text |-> IF k \in i..(i + Len(rules[r][1]) - 1)
                                     THEN rules[r][2][k - i + 1] ELSE text[k]]
<1> DEFINE found == {q \in DOMAIN rules : IsAt(rules[q][1], text, i)}
           first == CHOOSE p \in found : \A q \in found : p <= q
<1>1. OverwriteAt(rules, text, i) =
        IF found = {} THEN text
        ELSE [k \in DOMAIN text |-> IF k \in i..(i + Len(rules[first][1]) - 1)
                                    THEN rules[first][2][k - i + 1] ELSE text[k]]
      BY DEF OverwriteAt
<1>2. r \in found
      OBVIOUS
<1>3. ASSUME NEW q \in found PROVE r <= q /\ q \in Nat
      OBVIOUS
<1>4. r \in Nat
      OBVIOUS
<1> HIDE DEF found
<1>5. first \in found /\ \A q \in found : first <= q
      BY <1>2, <1>3
<1> HIDE DEF first
<1>6. first = r
      BY <1>2, <1>3, <1>4, <1>5
<1> QED BY <1>1, <1>2, <1>6

\* The places of a text of which the first ones are written.
Mixed(F, T, j) == [k \in DOMAIN F |-> IF k <= j THEN T[k] ELSE F[k]]

\* The rules, each with the letters that it looks for.
Openers == {"h", "m", "s", "D", "M", "Y", "A", "a"}
RuleIs(rule, pattern, put) == rule[1] = pattern /\ rule[2] = put
LEMMA RulesAre ==
    ASSUME NEW date, NEW hour
    PROVE  LET rules == Specifiers(date, hour)
           IN  /\ DOMAIN rules = 1..11
               /\ RuleIs(rules[1], <<"h","h">>, Two(hour))
               /\ RuleIs(rules[2], <<"m","m">>, Two(date.mm))
               /\ RuleIs(rules[3], <<"s","s">>, Two(date.ss))
               /\ RuleIs(rules[4], <<"D","D","D">>, DayNames[dayOfTheWeek(date) + 1])
               /\ RuleIs(rules[5], <<"D","D">>, Two(date.d))
               /\ RuleIs(rules[6], <<"M","M","M">>, MonthNames[date.m])
               /\ RuleIs(rules[7], <<"M","M">>, Two(date.m))
               /\ RuleIs(rules[8], <<"Y","Y","Y","Y">>, <<"2", "0">> \o Two(date.yOff % 100))
               /\ RuleIs(rules[9], <<"Y","Y">>, Two(date.yOff % 100))
               /\ RuleIs(rules[10], <<"A","P">>, <<IF isPM(date.hh) THEN "P" ELSE "A", "M">>)
               /\ RuleIs(rules[11], <<"a","p">>, <<IF isPM(date.hh) THEN "p" ELSE "a", "m">>)
<1> DEFINE rules == Specifiers(date, hour)
           p1 == <<"h","h">>
           w1 == Two(hour)
           p2 == <<"m","m">>
           w2 == Two(date.mm)
           p3 == <<"s","s">>
           w3 == Two(date.ss)
           p4 == <<"D","D","D">>
           w4 == DayNames[dayOfTheWeek(date) + 1]
           p5 == <<"D","D">>
           w5 == Two(date.d)
           p6 == <<"M","M","M">>
           w6 == MonthNames[date.m]
           p7 == <<"M","M">>
           w7 == Two(date.m)
           p8 == <<"Y","Y","Y","Y">>
           w8 == <<"2", "0">> \o Two(date.yOff % 100)
           p9 == <<"Y","Y">>
           w9 == Two(date.yOff % 100)
           p10 == <<"A","P">>
           w10 == <<IF isPM(date.hh) THEN "P" ELSE "A", "M">>
           p11 == <<"a","p">>
           w11 == <<IF isPM(date.hh) THEN "p" ELSE "a", "m">>
<1>1. rules = <<<<p1, w1>>, <<p2, w2>>, <<p3, w3>>, <<p4, w4>>, <<p5, w5>>, <<p6, w6>>,
                <<p7, w7>>, <<p8, w8>>, <<p9, w9>>, <<p10, w10>>, <<p11, w11>>>>
      BY DEF Specifiers
<1> HIDE DEF rules, p1, w1, p2, w2, p3, w3, p4, w4, p5, w5, p6, w6,
        p7, w7, p8, w8, p9, w9, p10, w10, p11, w11
<1>2. DOMAIN rules = 1..11
      BY <1>1
<1>3. \A p, w : RuleIs(<<p, w>>, p, w)
      BY DEF RuleIs
<1>4. /\ rules[1] = <<p1, w1>>
      /\ rules[2] = <<p2, w2>>
      /\ rules[3] = <<p3, w3>>
      /\ rules[4] = <<p4, w4>>
      /\ rules[5] = <<p5, w5>>
      /\ rules[6] = <<p6, w6>>
      /\ rules[7] = <<p7, w7>>
      /\ rules[8] = <<p8, w8>>
      /\ rules[9] = <<p9, w9>>
      /\ rules[10] = <<p10, w10>>
      /\ rules[11] = <<p11, w11>>
      BY <1>1
<1>5. /\ RuleIs(rules[1], p1, w1)
      /\ RuleIs(rules[2], p2, w2)
      /\ RuleIs(rules[3], p3, w3)
      /\ RuleIs(rules[4], p4, w4)
      /\ RuleIs(rules[5], p5, w5)
      /\ RuleIs(rules[6], p6, w6)
      /\ RuleIs(rules[7], p7, w7)
      /\ RuleIs(rules[8], p8, w8)
      /\ RuleIs(rules[9], p9, w9)
      /\ RuleIs(rules[10], p10, w10)
      /\ RuleIs(rules[11], p11, w11)
      BY ONLY <1>3, <1>4, Zenon
<1> QED BY ONLY <1>2, <1>5 DEF rules, p1, w1, p2, w2, p3, w3, p4, w4, p5, w5, p6, w6,
        p7, w7, p8, w8, p9, w9, p10, w10, p11, w11

LEMMA RulesDomain ==
    ASSUME NEW date, NEW hour
    PROVE  DOMAIN Specifiers(date, hour) = 1..11
BY RulesAre

\* The letters of a pattern: of one kind, but for "AP" and "ap".
Opens == <<"h", "m", "s", "D", "D", "M", "M", "Y", "Y", "A", "a">>
Follows == <<"h", "m", "s", "D", "D", "M", "M", "Y", "Y", "P", "p">>
Widths == <<2, 2, 2, 3, 2, 3, 2, 4, 2, 2, 2>>
PatternIs(p, r) ==
    /\ Len(p) = Widths[r] /\ DOMAIN p = 1..Widths[r]
    /\ p[1] = Opens[r] /\ \A k \in 2..Widths[r] : p[k] = Follows[r]
LEMMA PatternsAre ==
    ASSUME NEW date, NEW hour, NEW r \in 1..11
    PROVE  PatternIs(Specifiers(date, hour)[r][1], r) /\ Widths[r] \in {2, 3, 4}
<1> DEFINE p == Specifiers(date, hour)[r][1]
           Good(s, w) == /\ Len(s) = w /\ DOMAIN s = 1..w
                         /\ s[1] = Opens[r] /\ \A k \in 2..w : s[k] = Follows[r]
<1>1. r \in {1, 2, 3, 4, 5, 6, 7, 8, 9, 10, 11}
      OBVIOUS
<1>2. /\ Widths[1] = 2 /\ Widths[2] = 2 /\ Widths[3] = 2 /\ Widths[4] = 3 /\ Widths[5] = 2
      /\ Widths[6] = 3 /\ Widths[7] = 2 /\ Widths[8] = 4 /\ Widths[9] = 2 /\ Widths[10] = 2
      /\ Widths[11] = 2
      BY DEF Widths
<1>3. /\ Opens[1] = "h" /\ Opens[2] = "m" /\ Opens[3] = "s" /\ Opens[4] = "D" /\ Opens[5] = "D"
      /\ Opens[6] = "M" /\ Opens[7] = "M" /\ Opens[8] = "Y" /\ Opens[9] = "Y" /\ Opens[10] = "A"
      /\ Opens[11] = "a"
      BY DEF Opens
<1>4. /\ Follows[1] = "h" /\ Follows[2] = "m" /\ Follows[3] = "s" /\ Follows[4] = "D"
      /\ Follows[5] = "D" /\ Follows[6] = "M" /\ Follows[7] = "M" /\ Follows[8] = "Y"
      /\ Follows[9] = "Y" /\ Follows[10] = "P" /\ Follows[11] = "p"
      BY DEF Follows
<1>5. \A a, b : /\ Len(<<a, b>>) = 2 /\ DOMAIN <<a, b>> = 1..2 /\ <<a, b>>[1] = a
                /\ \A k \in 2..2 : <<a, b>>[k] = b
      OBVIOUS
<1>6. \A a : /\ Len(<<a, a, a>>) = 3 /\ DOMAIN <<a, a, a>> = 1..3 /\ <<a, a, a>>[1] = a
             /\ \A k \in 2..3 : <<a, a, a>>[k] = a
      OBVIOUS
<1>7. \A a : /\ Len(<<a, a, a, a>>) = 4 /\ DOMAIN <<a, a, a, a>> = 1..4 /\ <<a, a, a, a>>[1] = a
             /\ \A k \in 2..4 : <<a, a, a, a>>[k] = a
      OBVIOUS
<1>8. \/ \E a, b : p = <<a, b>> /\ Opens[r] = a /\ Follows[r] = b /\ Widths[r] = 2
      \/ \E a : p = <<a, a, a>> /\ Opens[r] = a /\ Follows[r] = a /\ Widths[r] = 3
      \/ \E a : p = <<a, a, a, a>> /\ Opens[r] = a /\ Follows[r] = a /\ Widths[r] = 4
      <2> DEFINE rules == Specifiers(date, hour)
      <2>1. /\ rules[1][1] = <<"h","h">> /\ rules[2][1] = <<"m","m">> /\ rules[3][1] = <<"s","s">>
            /\ rules[4][1] = <<"D","D","D">> /\ rules[5][1] = <<"D","D">>
            /\ rules[6][1] = <<"M","M","M">> /\ rules[7][1] = <<"M","M">>
            /\ rules[8][1] = <<"Y","Y","Y","Y">> /\ rules[9][1] = <<"Y","Y">>
            /\ rules[10][1] = <<"A","P">> /\ rules[11][1] = <<"a","p">>
            BY RulesAre DEF RuleIs
      <2>2. p = rules[r][1]
            OBVIOUS
      <2> HIDE DEF rules, p
      <2> QED BY <1>1, <1>2, <1>3, <1>4, <2>1, <2>2
<1>9. Good(p, Widths[r])
      <2> DEFINE w == Widths[r]
                 o == Opens[r]
                 f == Follows[r]
      <2>1. \A s : Good(s, w) <=> /\ Len(s) = w /\ DOMAIN s = 1..w
                                  /\ s[1] = o /\ \A k \in 2..w : s[k] = f
            OBVIOUS
      <2> HIDE DEF p, w, o, f, Good
      <2>2. ASSUME NEW a, NEW b, p = <<a, b>>, o = a, f = b, w = 2 PROVE Good(p, w)
            BY <1>5, <2>1, <2>2
      <2>3. ASSUME NEW a, p = <<a, a, a>>, o = a, f = a, w = 3 PROVE Good(p, w)
            BY <1>6, <2>1, <2>3
      <2>4. ASSUME NEW a, p = <<a, a, a, a>>, o = a, f = a, w = 4 PROVE Good(p, w)
            BY <1>7, <2>1, <2>4
      <2> QED BY <1>8, <2>2, <2>3, <2>4 DEF w, o, f
<1>10. Widths[r] \in {2, 3, 4}
       BY <1>1, <1>2
<1> QED BY <1>9, <1>10 DEF PatternIs

\* A text of n characters.
IsText(t, n) == t = [k \in 1..n |-> t[k]]
LEMMA LenOfText ==
    ASSUME NEW n \in Nat, NEW t, IsText(t, n)
    PROVE  Len(t) = n /\ DOMAIN t = 1..n
<1>1. t \in Seq({t[k] : k \in 1..n})
      BY DEF IsText
<1>2. DOMAIN t = 1..n /\ DOMAIN t = 1..Len(t) /\ Len(t) \in Nat
      <2>1. DOMAIN t = 1..n
            BY DEF IsText
      <2> QED BY <1>1, <2>1, LenProperties
<1>3. Len(t) = n
      <2>1. 1..n = 1..Len(t)
            BY <1>2
      <2> DEFINE l == Len(t)
      <2>2. l \in Nat /\ 1..n = 1..l
            BY <1>2, <2>1
      <2> HIDE DEF l
      <2>3. ASSUME n < l PROVE FALSE
            <3>1. l \in 1..l /\ l \notin 1..n
                  BY <2>2, <2>3
            <3> QED BY <2>2, <3>1
      <2>4. ASSUME l < n PROVE FALSE
            <3>1. n \in 1..n /\ n \notin 1..l
                  BY <2>2, <2>4
            <3> QED BY <2>2, <3>1
      <2> QED BY <2>2, <2>3, <2>4 DEF l
<1> QED BY <1>2, <1>3

LEMMA MixedIs ==
    ASSUME NEW n \in Nat, NEW F, IsText(F, n), NEW T, IsText(T, n), NEW j \in Int
    PROVE  /\ IsText(Mixed(F, T, j), n)
           /\ \A k \in 1..n : Mixed(F, T, j)[k] = IF k <= j THEN T[k] ELSE F[k]
BY DEF Mixed, IsText

\* A letter written that no rule takes for the start of a specifier.
Inert(a, b) == a \notin Openers \/ (a = "a" /\ b # "p") \/ (a = "h" /\ b # "h")

StartsAt(text, i, r, n) ==
    /\ i + Widths[r] - 1 <= n /\ text[i] = Opens[r]
    /\ \A k \in 2..Widths[r] : text[i + k - 1] = Follows[r]
LEMMA IsAtStarts ==
    ASSUME NEW date, NEW hour, NEW r \in 1..11, NEW n \in Nat, NEW text, IsText(text, n),
           NEW i \in 1..n,
           IsAt(Specifiers(date, hour)[r][1], text, i)
    PROVE  StartsAt(text, i, r, n)
<1> DEFINE p == Specifiers(date, hour)[r][1]
           w == Widths[r]
<1>1. PatternIs(p, r) /\ w \in {2, 3, 4}
      BY PatternsAre
<1>2. Len(text) = n
      BY LenOfText
<1>3. i + Len(p) - 1 <= Len(text) /\ \A k \in DOMAIN p : text[i + k - 1] = p[k]
      BY DEF IsAt
<1> HIDE DEF p
<1>4. /\ Len(p) = w /\ DOMAIN p = 1..w /\ p[1] = Opens[r]
      /\ \A k \in 2..w : p[k] = Follows[r]
      BY <1>1 DEF PatternIs
<1> HIDE DEF w
<1>5. text[i] = Opens[r]
      <2>1. 1 \in 1..w /\ i + 1 - 1 = i
            BY <1>1
      <2>2. text[i + 1 - 1] = p[1]
            BY ONLY <1>3, <1>4, <2>1
      <2> QED BY <1>4, <2>1, <2>2
<1>6. ASSUME NEW k \in 2..w PROVE text[i + k - 1] = Follows[r]
      <2>1. k \in 1..w
            BY <1>1
      <2> QED BY <1>3, <1>4, <2>1
<1>7. i + w - 1 <= n
      BY <1>2, <1>3, <1>4
<1> QED BY <1>5, <1>6, <1>7 DEF w, StartsAt

LEMMA InertIsLeft ==
    ASSUME NEW date, NEW hour, NEW n \in Nat, NEW text, IsText(text, n),
           NEW i \in 1..n,
           Inert(text[i], text[i + 1])
    PROVE  OverwriteAt(Specifiers(date, hour), text, i) = text
<1> DEFINE rules == Specifiers(date, hour)
<1>1. DOMAIN rules = 1..11
      BY RulesDomain
<1>2. ASSUME NEW r \in 1..11, IsAt(rules[r][1], text, i) PROVE FALSE
      <2>1. StartsAt(text, i, r, n)
            BY <1>2, IsAtStarts
      <2> DEFINE w == Widths[r]
                 a == text[i]
                 b == text[i + 1]
      <2>2. r \in {1, 2, 3, 4, 5, 6, 7, 8, 9, 10, 11}
            OBVIOUS
      <2>3. w \in {2, 3, 4}
            BY PatternsAre
      <2> HIDE DEF rules, w
      <2>4. 2 \in 2..w /\ i + 2 - 1 = i + 1
            BY <2>3
      <2>5. a = Opens[r] /\ b = Follows[r]
            BY <2>1, <2>4 DEF StartsAt, w
      <2>6. /\ Opens[r] \in Openers /\ (Opens[r] = "a" => Follows[r] = "p")
            /\ (Opens[r] = "h" => Follows[r] = "h")
            BY <2>2 DEF Opens, Follows, Openers
      <2>7. Inert(a, b)
            OBVIOUS
      <2> HIDE DEF a, b
      <2> QED BY <2>5, <2>6, <2>7 DEF Inert
<1> HIDE DEF rules
<1>3. OverwriteAt(rules, text, i) = text
      BY <1>1, <1>2, NothingFits
<1> QED BY <1>3 DEF rules

\* The first rule that fits: "DD" and "MM" are not a name's.
Fits(rules, F, T, j, r, n) ==
    /\ j + Widths[r] <= n /\ F[j + 1] = Opens[r]
    /\ \A k \in 2..Widths[r] : F[j + k] = Follows[r]
    /\ r \in {5, 7} /\ j + 3 <= n => F[j + 3] \notin {"D", "M"}
    /\ \A k \in 1..Widths[r] : T[j + k] = rules[r][2][k]
LEMMA RuleFits ==
    ASSUME NEW date, NEW hour, NEW n \in Nat, NEW F, IsText(F, n), NEW T, IsText(T, n),
           NEW j \in Nat, NEW r \in {1, 2, 3, 4, 5, 6, 7, 8, 10},
           Fits(Specifiers(date, hour), F, T, j, r, n)
    PROVE  OverwriteAt(Specifiers(date, hour), Mixed(F, T, j), j + 1) = Mixed(F, T, j + Widths[r])
<1> DEFINE rules == Specifiers(date, hour)
           p == rules[r][1]
           w == Widths[r]
           text == Mixed(F, T, j)
           i == j + 1
<1>0. /\ j + w <= n /\ F[j + 1] = Opens[r] /\ \A k \in 2..w : F[j + k] = Follows[r]
      /\ r \in {5, 7} /\ j + 3 <= n => F[j + 3] \notin {"D", "M"}
      /\ \A k \in 1..w : T[j + k] = rules[r][2][k]
      BY DEF Fits
<1>1. DOMAIN rules = 1..11 /\ r \in 1..11
      BY RulesDomain
<1>2. PatternIs(p, r) /\ w \in {2, 3, 4}
      BY <1>1, PatternsAre
<1>20. /\ Len(p) = w /\ DOMAIN p = 1..w /\ p[1] = Opens[r]
       /\ \A k \in 2..w : p[k] = Follows[r]
       <2> HIDE DEF p
       <2> QED BY <1>2 DEF PatternIs
<1>3. IsText(text, n) /\ \A k \in 1..n : text[k] = IF k <= j THEN T[k] ELSE F[k]
      <2>1. j \in Int
            OBVIOUS
      <2> HIDE DEF rules, p, w, i
      <2> QED BY <2>1, MixedIs
<1>4. Len(text) = n /\ DOMAIN text = 1..n
      BY <1>3, LenOfText
<1>5. ASSUME NEW k \in 1..w PROVE text[i + k - 1] = p[k]
      <2>1. i + k - 1 = j + k /\ j + k \in 1..n /\ ~ (j + k <= j) /\ (k = 1 \/ k \in 2..w)
            BY <1>0, <1>2
      <2>2. text[j + k] = F[j + k]
            BY <1>3, <2>1
      <2> QED BY <1>0, <1>20, <2>1, <2>2
<1>6. IsAt(p, text, i)
      <2>1. i + w - 1 <= n
            BY <1>0, <1>2
      <2> HIDE DEF p, text, i, w
      <2> QED BY <1>20, <1>4, <1>5, <2>1 DEF IsAt
<1>7. i \in 1..n /\ text[i] = Opens[r]
      <2>1. i \in 1..n /\ ~ (i <= j)
            BY <1>0, <1>2
      <2>2. text[i] = F[j + 1]
            BY <1>3, <2>1
      <2> QED BY <1>0, <2>1, <2>2
<1>8. ASSUME NEW q \in 1..11, q < r, IsAt(rules[q][1], text, i) PROVE FALSE
      <2>1. /\ i + Widths[q] - 1 <= n /\ text[i] = Opens[q]
            /\ \A k \in 2..Widths[q] : text[i + k - 1] = Follows[q]
            <3>1. IsAt(Specifiers(date, hour)[q][1], text, i)
                  BY <1>8
            <3>2. i \in 1..n /\ IsText(text, n)
                  BY <1>3, <1>7
            <3> HIDE DEF rules, p, w, text, i
            <3>3. StartsAt(text, i, q, n)
                  BY <3>1, <3>2, IsAtStarts
            <3> QED BY <3>3 DEF StartsAt
      <2>2. Opens[q] = Opens[r]
            BY <1>7, <2>1
      <2>3. (q = 4 /\ r = 5) \/ (q = 6 /\ r = 7)
            <3>1. q \in {1, 2, 3, 4, 5, 6, 7, 8, 9, 10, 11}
                  OBVIOUS
            <3> QED BY <1>8, <2>2, <3>1 DEF Opens
      <2>4. Widths[q] = 3 /\ Follows[q] \in {"D", "M"} /\ r \in {5, 7}
            BY <2>3 DEF Widths, Follows
      <2>5. i + 3 - 1 = j + 3 /\ i + 3 - 1 <= n /\ 3 \in 2..3 /\ j + 3 \in 1..n /\ ~ (j + 3 <= j)
            BY <2>1, <2>4
      <2>6. text[j + 3] = Follows[q] /\ text[j + 3] = F[j + 3]
            BY <1>3, <2>1, <2>4, <2>5
      <2> QED BY <1>0, <2>4, <2>5, <2>6
<1>9. OverwriteAt(rules, text, i) = [k \in DOMAIN text |-> IF k \in i..(i + Len(p) - 1)
                                                         THEN rules[r][2][k - i + 1] ELSE text[k]]
      <2>1. DOMAIN rules \subseteq Nat /\ r \in DOMAIN rules /\ IsAt(rules[r][1], text, i)
            BY <1>1, <1>6
      <2>2. \A q \in DOMAIN rules : q < r => ~ IsAt(rules[q][1], text, i)
            BY <1>1, <1>8
      <2> HIDE DEF rules, text, i
      <2> QED BY <2>1, <2>2, FirstFits DEF p
<1>10. ASSUME NEW k \in 1..n
       PROVE  (IF k \in i..(i + w - 1) THEN rules[r][2][k - i + 1] ELSE text[k])
                = IF k <= j + w THEN T[k] ELSE F[k]
       <2>1. CASE k \in i..(i + w - 1)
             <3> DEFINE g == k - j
             <3>1. g \in 1..w /\ k - i + 1 = g /\ j + g = k /\ k <= j + w
                   BY <1>2, <2>1
             <3>2. T[k] = rules[r][2][g]
                   BY <1>0, <3>1
             <3> QED BY <2>1, <3>1, <3>2
       <2>2. CASE k \notin i..(i + w - 1)
             <3>1. k <= j \/ ~ (k <= j + w)
                   BY <1>2, <2>2
             <3>2. k <= j => k <= j + w
                   BY <1>2
             <3>3. text[k] = IF k <= j + w THEN T[k] ELSE F[k]
                   BY <1>2, <1>3, <3>1, <3>2
             <3> QED BY <2>2, <3>3
       <2> QED BY <2>1, <2>2
<1>11. Mixed(F, T, j + w) = [k \in 1..n |-> IF k <= j + w THEN T[k] ELSE F[k]]
       BY DEF Mixed, IsText
<1> HIDE DEF rules, p, w, text, i
<1>12. OverwriteAt(rules, text, i) = Mixed(F, T, j + w)
       <2> DEFINE Before(k) == IF k \in i..(i + w - 1) THEN rules[r][2][k - i + 1] ELSE text[k]
                  AfterIt(k) == IF k <= j + w THEN T[k] ELSE F[k]
       <2>1. OverwriteAt(rules, text, i) = [k \in 1..n |-> Before(k)]
             BY ONLY <1>20, <1>4, <1>9
       <2>2. \A k \in 1..n : Before(k) = AfterIt(k)
             BY <1>10
       <2> HIDE DEF Before, AfterIt
       <2>3. [k \in 1..n |-> Before(k)] = [k \in 1..n |-> AfterIt(k)]
             BY ONLY <2>2
       <2> QED BY <2>1, <2>3, <1>11 DEF AfterIt
<1> QED BY <1>12 DEF rules, w, text, i

\* The places one after the other.
LEMMA PlacesAre ==
    ASSUME NEW rules, NEW F, NEW n \in Nat, n > 0, Len(F) = n, NEW G, G[0] = F,
           \A i \in 1..(n - 1) : G[i] = OverwriteAt(rules, G[i - 1], i)
    PROVE  WrittenOver(rules, F)[n - 1] = G[n - 1]
<1> DEFINE StepOf(f) == [i \in 0..(n - 1) |->
                          IF i = 0 THEN F ELSE OverwriteAt(rules, f[i - 1], i)]
           g == [i \in 0..(n - 1) |-> G[i]]
           place == CHOOSE f : f = StepOf(f)
<1>1. WrittenOver(rules, F) = place
      BY DEF WrittenOver
<1>2. g = StepOf(g)
      <2>1. ASSUME NEW i \in 0..(n - 1)
            PROVE  g[i] = IF i = 0 THEN F ELSE OverwriteAt(rules, g[i - 1], i)
            <3>1. CASE i = 0
                  BY <3>1
            <3>2. CASE i # 0
                  <4>1. i \in 1..(n - 1) /\ i - 1 \in 0..(n - 1)
                        BY <3>2
                  <4>2. g[i] = G[i] /\ g[i - 1] = G[i - 1]
                        BY <4>1
                  <4> QED BY <3>2, <4>1, <4>2
            <3> QED BY <3>1, <3>2
      <2> QED BY <2>1
<1> HIDE DEF g
<1>3. place = StepOf(place)
      BY <1>2
<1> HIDE DEF place
<1>4. \A i \in 0..(n - 1) : place[i] = IF i = 0 THEN F ELSE OverwriteAt(rules, place[i - 1], i)
      BY <1>3
<1> DEFINE bad == {i \in 0..(n - 1) : place[i] # G[i]}
<1>5. ASSUME bad # {} PROVE FALSE
      <2>1. bad \in SUBSET Nat
            OBVIOUS
      <2>2. PICK i \in bad : \A k \in bad : ~ (k < i)
            BY <1>5, <2>1, Smallest
      <2>3. i \in 0..(n - 1) /\ place[i] # G[i]
            BY <2>2
      <2>4. i # 0
            BY <1>4, <2>3
      <2>5. i \in 1..(n - 1) /\ i - 1 \in 0..(n - 1) /\ i - 1 < i
            BY <2>3, <2>4
      <2>6. place[i - 1] = G[i - 1]
            BY <2>2, <2>5
      <2>7. place[i] = OverwriteAt(rules, place[i - 1], i)
            BY <1>4, <2>3, <2>4
      <2> QED BY <2>3, <2>5, <2>6, <2>7
<1>6. n - 1 \in 0..(n - 1)
      OBVIOUS
<1> QED BY <1>1, <1>5, <1>6

\* A text is written over a format when at each place one of three things is
\* done, with E[i] the places written once place i has been looked at: it lies
\* in what was written, it is a letter of the format, or a rule fits there.
KeptAt(T, E, i) ==
    /\ E[i - 1] >= i /\ E[i] = E[i - 1]
    /\ T[i] \notin Openers \/ (E[i - 1] > i /\ Inert(T[i], T[i + 1]))
PlainPlace(F, T, E, i) == E[i - 1] = i - 1 /\ E[i] = i /\ F[i] = T[i] /\ T[i] \notin Openers
Ruled(rules, F, T, E, i, n) ==
    /\ E[i - 1] = i - 1
    /\ \E r \in {1, 2, 3, 4, 5, 6, 7, 8, 10} :
          Fits(rules, F, T, i - 1, r, n) /\ E[i] = (i - 1) + Widths[r]

LEMMA Printed ==
    ASSUME NEW date, NEW hour, NEW n \in Nat, n > 0, NEW F, IsText(F, n), NEW T, IsText(T, n),
           NEW E \in [0..(n - 1) -> Nat], E[0] = 0,
           \A i \in 1..(n - 1) : \/ KeptAt(T, E, i) \/ PlainPlace(F, T, E, i)
                                 \/ Ruled(Specifiers(date, hour), F, T, E, i, n),
           \A k \in 1..n : k > E[n - 1] => F[k] = T[k]
    PROVE  WrittenOver(Specifiers(date, hour), F)[n - 1] = T
<1> DEFINE rules == Specifiers(date, hour)
           G(i) == Mixed(F, T, E[i])
<1>1. G(0) = F
      <2>1. \A k \in 1..n : (IF k <= 0 THEN T[k] ELSE F[k]) = F[k]
            OBVIOUS
      <2>2. Mixed(F, T, 0) = [k \in 1..n |-> IF k <= 0 THEN T[k] ELSE F[k]]
            BY DEF Mixed, IsText
      <2>3. F = [k \in 1..n |-> F[k]]
            BY DEF IsText
      <2> QED BY <2>1, <2>2, <2>3
<1>2. ASSUME NEW i \in 1..(n - 1) PROVE G(i) = OverwriteAt(rules, G(i - 1), i)
      <2> DEFINE e == E[i - 1]
                 text == Mixed(F, T, e)
      <2>1. e \in Nat /\ i - 1 \in 0..(n - 1) /\ i \in 1..n /\ i + 1 \in 1..n /\ e \in Int
            OBVIOUS
      <2> HIDE DEF e
      <2>2. IsText(text, n) /\ \A k \in 1..n : text[k] = IF k <= e THEN T[k] ELSE F[k]
            <3>1. IsText(F, n) /\ IsText(T, n) /\ n \in Nat
                  OBVIOUS
            <3> QED BY ONLY <2>1, <3>1, MixedIs DEF text
      <2>3. G(i - 1) = text
            BY DEF e
      <2>4. CASE KeptAt(T, E, i)
            <3>1. /\ e >= i /\ E[i] = e
                  /\ T[i] \notin Openers \/ (e > i /\ Inert(T[i], T[i + 1]))
                  BY <2>4 DEF KeptAt, e
            <3>2. text[i] = T[i] /\ (e > i => text[i + 1] = T[i + 1])
                  BY <2>1, <2>2, <3>1
            <3>3. Inert(text[i], text[i + 1])
                  BY <3>1, <3>2 DEF Inert
            <3> HIDE DEF text
            <3>4. OverwriteAt(rules, text, i) = text
                  BY <2>1, <2>2, <3>3, InertIsLeft
            <3> QED BY <2>3, <3>1, <3>4 DEF text
      <2>5. CASE PlainPlace(F, T, E, i)
            <3>1. e = i - 1 /\ E[i] = i /\ F[i] = T[i] /\ T[i] \notin Openers
                  BY <2>5 DEF PlainPlace, e
            <3>2. text[i] = F[i]
                  BY <2>1, <2>2, <3>1
            <3>3. Inert(text[i], text[i + 1])
                  BY <3>1, <3>2 DEF Inert
            <3>4. OverwriteAt(rules, text, i) = text
                  <4> HIDE DEF text
                  <4> QED BY <2>1, <2>2, <3>3, InertIsLeft
            <3>5. \A k \in 1..n : (IF k <= i THEN T[k] ELSE F[k]) = IF k <= e THEN T[k] ELSE F[k]
                  BY <3>1
            <3>6. Mixed(F, T, i) = text
                  BY <3>5 DEF Mixed, IsText
            <3> QED BY <2>3, <3>1, <3>4, <3>6
      <2>6. CASE Ruled(rules, F, T, E, i, n)
            <3>1. PICK r \in {1, 2, 3, 4, 5, 6, 7, 8, 10} :
                     Fits(rules, F, T, i - 1, r, n) /\ E[i] = (i - 1) + Widths[r]
                  BY <2>6 DEF Ruled
            <3> DEFINE j == i - 1
            <3>2. j \in Nat /\ j + 1 = i /\ e = j
                  BY <2>6 DEF Ruled, e
            <3>3. Fits(rules, F, T, j, r, n) /\ E[i] = j + Widths[r]
                  BY <3>1
            <3> HIDE DEF j
            <3>4. OverwriteAt(rules, Mixed(F, T, j), j + 1) = Mixed(F, T, j + Widths[r])
                  BY <3>1, <3>2, <3>3, RuleFits
            <3> QED BY <2>3, <3>2, <3>3, <3>4
      <2> QED BY <2>4, <2>5, <2>6
<1>3. G(n - 1) = T
      <2> DEFINE e == E[n - 1]
      <2>1. e \in Nat /\ \A k \in 1..n : k > e => F[k] = T[k]
            OBVIOUS
      <2> HIDE DEF e
      <2>2. \A k \in 1..n : (IF k <= e THEN T[k] ELSE F[k]) = T[k]
            BY <2>1
      <2>3. Mixed(F, T, e) = [k \in 1..n |-> IF k <= e THEN T[k] ELSE F[k]]
            BY DEF Mixed, IsText
      <2>4. T = [k \in 1..n |-> T[k]]
            BY DEF IsText
      <2> QED BY <2>2, <2>3, <2>4 DEF e
<1>4. Len(F) = n
      BY LenOfText
<1> HIDE DEF G, rules
<1>5. WrittenOver(rules, F)[n - 1] = G(n - 1)
      <2> DEFINE g == [i \in 0..(n - 1) |-> G(i)]
      <2>1. \A i \in 0..(n - 1) : g[i] = G(i)
            OBVIOUS
      <2>2. 0 \in 0..(n - 1) /\ n - 1 \in 0..(n - 1)
            OBVIOUS
      <2>3. \A i \in 1..(n - 1) : i \in 0..(n - 1) /\ i - 1 \in 0..(n - 1)
            OBVIOUS
      <2> HIDE DEF g
      <2>4. g[0] = F /\ \A i \in 1..(n - 1) : g[i] = OverwriteAt(rules, g[i - 1], i)
            BY <1>1, <1>2, <2>1, <2>2, <2>3
      <2>5. WrittenOver(rules, F)[n - 1] = g[n - 1]
            BY <1>4, <2>4, PlacesAre
      <2> QED BY <2>1, <2>2, <2>5
<1> QED BY <1>3, <1>5 DEF rules

Plan(rules, F, T, E, n) ==
    /\ n > 0 /\ IsText(F, n) /\ IsText(T, n) /\ E \in [0..(n - 1) -> Nat] /\ E[0] = 0
    /\ \A i \in 1..(n - 1) : KeptAt(T, E, i) \/ PlainPlace(F, T, E, i) \/ Ruled(rules, F, T, E, i, n)
    /\ \A k \in 1..n : k > E[n - 1] => F[k] = T[k]
LEMMA PlanPrinted ==
    ASSUME NEW date, NEW hour, NEW n \in Nat, NEW F, NEW T, NEW E,
           Plan(Specifiers(date, hour), F, T, E, n)
    PROVE  WrittenOver(Specifiers(date, hour), F)[n - 1] = T
<1>1. /\ n > 0 /\ IsText(F, n) /\ IsText(T, n) /\ E \in [0..(n - 1) -> Nat] /\ E[0] = 0
      /\ \A k \in 1..n : k > E[n - 1] => F[k] = T[k]
      BY DEF Plan
<1>2. \A i \in 1..(n - 1) : \/ KeptAt(T, E, i) \/ PlainPlace(F, T, E, i)
                            \/ Ruled(Specifiers(date, hour), F, T, E, i, n)
      BY DEF Plan
<1> QED BY <1>1, <1>2, Printed

--------------------------------------------------------------------------------
\* Digits and names: their letters, and the numbers read from them.
DigitSet == {"0", "1", "2", "3", "4", "5", "6", "7", "8", "9"}
LEMMA DigitsAre ==
    /\ DOMAIN Digits = 1..10
    /\ Digits[1] = "0" /\ Digits[2] = "1" /\ Digits[3] = "2" /\ Digits[4] = "3" /\ Digits[5] = "4"
    /\ Digits[6] = "5" /\ Digits[7] = "6" /\ Digits[8] = "7" /\ Digits[9] = "8" /\ Digits[10] = "9"
BY DEF Digits

LEMMA DigitAt ==
    ASSUME NEW k \in 1..10
    PROVE  Digits[k] \in DigitSet
           /\ \A j \in 1..10 : Digits[j] = Digits[k] => j = k
<1>1. k \in {1, 2, 3, 4, 5, 6, 7, 8, 9, 10}
      OBVIOUS
<1>2. ASSUME NEW j \in 1..10, Digits[j] = Digits[k] PROVE j = k
      <2>1. j \in {1, 2, 3, 4, 5, 6, 7, 8, 9, 10}
            OBVIOUS
      <2> QED BY <1>1, <1>2, <2>1, DigitsAre
<1>3. Digits[k] \in DigitSet
      BY <1>1, DigitsAre DEF DigitSet
<1> QED BY <1>2, <1>3 DEF DigitSet

LEMMA SpaceIsInert == SpaceChar \notin Openers /\ SpaceChar \notin {"D", "M"} /\ SpaceChar \notin DigitSet
BY Zenon DEF SpaceChar, Openers, DigitSet

DigitOf(c) == IF \E k \in DOMAIN Digits : Digits[k] = c
              THEN (CHOOSE k \in DOMAIN Digits : Digits[k] = c) - 1 ELSE 0
LEMMA ValueIs ==
    /\ \A text, i : conv2d(text, i) = 10 * DigitOf(text[i]) + DigitOf(text[i + 1])
    /\ \A k \in 1..10 : DigitOf(Digits[k]) = k - 1
    /\ DigitOf(SpaceChar) = 0
<1>1. \A text, i : conv2d(text, i) = 10 * DigitOf(text[i]) + DigitOf(text[i + 1])
      BY DEF conv2d, DigitOf
<1>2. ASSUME NEW k \in 1..10 PROVE DigitOf(Digits[k]) = k - 1
      <2> DEFINE c == Digits[k]
                 v == CHOOSE j \in DOMAIN Digits : Digits[j] = c
      <2>1. DOMAIN Digits = 1..10
            BY DigitsAre
      <2>2. v \in 1..10 /\ Digits[v] = c
            BY <2>1
      <2> HIDE DEF v
      <2>3. v = k
            BY <2>2, DigitAt
      <2>4. DigitOf(c) = v - 1
            BY <2>1 DEF DigitOf, v
      <2> QED BY <2>3, <2>4
<1>3. DigitOf(SpaceChar) = 0
      <2>1. ~ \E k \in DOMAIN Digits : Digits[k] = SpaceChar
            BY DigitsAre, DigitAt, SpaceIsInert
      <2> QED BY <2>1 DEF DigitOf
<1> QED BY <1>1, <1>2, <1>3

LEMMA TwoIs ==
    ASSUME NEW n \in Nat, n <= 99
    PROVE  /\ Two(n) = <<Two(n)[1], Two(n)[2]>>
           /\ Two(n)[1] = Digits[(n \div 10) + 1] /\ Two(n)[2] = Digits[(n % 10) + 1]
           /\ Two(n)[1] \in DigitSet /\ Two(n)[2] \in DigitSet
           /\ (n \div 10) + 1 \in 1..10 /\ (n % 10) + 1 \in 1..10
<1> DEFINE a == (n \div 10) + 1
           b == (n % 10) + 1
<1>1. a \in 1..10 /\ b \in 1..10
      OBVIOUS
<1>2. Two(n) = <<Digits[a], Digits[b]>>
      BY DEF Two
<1> HIDE DEF a, b
<1>3. Two(n)[1] = Digits[a] /\ Two(n)[2] = Digits[b]
      BY <1>2
<1>4. Digits[a] \in DigitSet /\ Digits[b] \in DigitSet
      BY <1>1, DigitAt
<1> QED BY <1>1, <1>2, <1>3, <1>4 DEF a, b

LEMMA ReadsTwo ==
    ASSUME NEW n \in Nat, n <= 99, NEW text, NEW i \in Nat, text[i + 1] = Two(n)[2]
    PROVE  /\ text[i] = Two(n)[1] => conv2d(text, i) = n
           /\ text[i] = SpaceChar /\ n <= 9 => conv2d(text, i) = n
<1> DEFINE a == (n \div 10) + 1
           b == (n % 10) + 1
           x == text[i]
           y == text[i + 1]
<1>1. a \in 1..10 /\ b \in 1..10 /\ 10 * (a - 1) + (b - 1) = n /\ (n <= 9 => b - 1 = n)
      OBVIOUS
<1>2. Two(n)[1] = Digits[a] /\ y = Digits[b]
      BY TwoIs
<1>3. conv2d(text, i) = 10 * DigitOf(x) + DigitOf(y)
      BY ValueIs
<1> HIDE DEF a, b, x, y
<1>4. DigitOf(Digits[a]) = a - 1 /\ DigitOf(Digits[b]) = b - 1 /\ DigitOf(SpaceChar) = 0
      BY <1>1, ValueIs
<1>5. x = Two(n)[1] => conv2d(text, i) = n
      BY <1>1, <1>2, <1>3, <1>4
<1>6. ASSUME x = SpaceChar, n <= 9 PROVE conv2d(text, i) = n
      <2> DEFINE v == DigitOf(x)
                 w == DigitOf(y)
      <2>1. v = 0 /\ w = n
            BY <1>1, <1>2, <1>4, <1>6, Zenon
      <2>2. conv2d(text, i) = 10 * v + w
            BY <1>3
      <2> HIDE DEF v, w
      <2> QED BY ONLY <2>1, <2>2, n \in Nat
<1> QED BY <1>5, <1>6 DEF x

LEMMA DigitsAreInert == \A c \in DigitSet : c \notin Openers
BY DEF DigitSet, Openers

\* The names, which no rule takes for a specifier once they are written.
NameIs(name) == /\ name = <<name[1], name[2], name[3]>> /\ Inert(name[2], name[3])
                /\ name[3] \notin Openers
LEMMA NameOfLetters ==
    ASSUME NEW a, NEW b, NEW c, Inert(b, c), c \notin Openers
    PROVE  NameIs(<<a, b, c>>)
BY DEF NameIs

LEMMA MonthNamesAre ==
    ASSUME NEW m \in 1..12
    PROVE  NameIs(MonthNames[m])
<1>1. m \in {1, 2, 3, 4, 5, 6, 7, 8, 9, 10, 11, 12}
      OBVIOUS
<1>2. NameIs(<<"J","a","n">>)
      <2>1. Inert("a", "n") /\ "n" \notin Openers
            BY DEF Inert, Openers
      <2> QED BY <2>1, NameOfLetters
<1>3. NameIs(<<"F","e","b">>)
      <2>1. Inert("e", "b") /\ "b" \notin Openers
            BY DEF Inert, Openers
      <2> QED BY <2>1, NameOfLetters
<1>4. NameIs(<<"M","a","r">>)
      <2>1. Inert("a", "r") /\ "r" \notin Openers
            BY DEF Inert, Openers
      <2> QED BY <2>1, NameOfLetters
<1>5. NameIs(<<"A","p","r">>)
      <2>1. Inert("p", "r") /\ "r" \notin Openers
            BY DEF Inert, Openers
      <2> QED BY <2>1, NameOfLetters
<1>6. NameIs(<<"M","a","y">>)
      <2>1. Inert("a", "y") /\ "y" \notin Openers
            BY DEF Inert, Openers
      <2> QED BY <2>1, NameOfLetters
<1>7. NameIs(<<"J","u","n">>)
      <2>1. Inert("u", "n") /\ "n" \notin Openers
            BY DEF Inert, Openers
      <2> QED BY <2>1, NameOfLetters
<1>8. NameIs(<<"J","u","l">>)
      <2>1. Inert("u", "l") /\ "l" \notin Openers
            BY DEF Inert, Openers
      <2> QED BY <2>1, NameOfLetters
<1>9. NameIs(<<"A","u","g">>)
      <2>1. Inert("u", "g") /\ "g" \notin Openers
            BY DEF Inert, Openers
      <2> QED BY <2>1, NameOfLetters
<1>10. NameIs(<<"S","e","p">>)
      <2>1. Inert("e", "p") /\ "p" \notin Openers
            BY DEF Inert, Openers
      <2> QED BY <2>1, NameOfLetters
<1>11. NameIs(<<"O","c","t">>)
      <2>1. Inert("c", "t") /\ "t" \notin Openers
            BY DEF Inert, Openers
      <2> QED BY <2>1, NameOfLetters
<1>12. NameIs(<<"N","o","v">>)
      <2>1. Inert("o", "v") /\ "v" \notin Openers
            BY DEF Inert, Openers
      <2> QED BY <2>1, NameOfLetters
<1>13. NameIs(<<"D","e","c">>)
      <2>1. Inert("e", "c") /\ "c" \notin Openers
            BY DEF Inert, Openers
      <2> QED BY <2>1, NameOfLetters
<1>14. /\ MonthNames[1] = <<"J","a","n">>
      /\ MonthNames[2] = <<"F","e","b">>
      /\ MonthNames[3] = <<"M","a","r">>
      /\ MonthNames[4] = <<"A","p","r">>
      /\ MonthNames[5] = <<"M","a","y">>
      /\ MonthNames[6] = <<"J","u","n">>
      /\ MonthNames[7] = <<"J","u","l">>
      /\ MonthNames[8] = <<"A","u","g">>
      /\ MonthNames[9] = <<"S","e","p">>
      /\ MonthNames[10] = <<"O","c","t">>
      /\ MonthNames[11] = <<"N","o","v">>
      /\ MonthNames[12] = <<"D","e","c">>
      BY DEF MonthNames
<1> QED BY ONLY <1>1, <1>2, <1>3, <1>4, <1>5, <1>6, <1>7, <1>8, <1>9, <1>10, <1>11, <1>12, <1>13, <1>14

LEMMA DayNamesAre ==
    ASSUME NEW m \in 1..7
    PROVE  NameIs(DayNames[m])
<1>1. m \in {1, 2, 3, 4, 5, 6, 7}
      OBVIOUS
<1>2. NameIs(<<"S","u","n">>)
      <2>1. Inert("u", "n") /\ "n" \notin Openers
            BY DEF Inert, Openers
      <2> QED BY <2>1, NameOfLetters
<1>3. NameIs(<<"M","o","n">>)
      <2>1. Inert("o", "n") /\ "n" \notin Openers
            BY DEF Inert, Openers
      <2> QED BY <2>1, NameOfLetters
<1>4. NameIs(<<"T","u","e">>)
      <2>1. Inert("u", "e") /\ "e" \notin Openers
            BY DEF Inert, Openers
      <2> QED BY <2>1, NameOfLetters
<1>5. NameIs(<<"W","e","d">>)
      <2>1. Inert("e", "d") /\ "d" \notin Openers
            BY DEF Inert, Openers
      <2> QED BY <2>1, NameOfLetters
<1>6. NameIs(<<"T","h","u">>)
      <2>1. Inert("h", "u") /\ "u" \notin Openers
            BY DEF Inert, Openers
      <2> QED BY <2>1, NameOfLetters
<1>7. NameIs(<<"F","r","i">>)
      <2>1. Inert("r", "i") /\ "i" \notin Openers
            BY DEF Inert, Openers
      <2> QED BY <2>1, NameOfLetters
<1>8. NameIs(<<"S","a","t">>)
      <2>1. Inert("a", "t") /\ "t" \notin Openers
            BY DEF Inert, Openers
      <2> QED BY <2>1, NameOfLetters
<1>9. /\ DayNames[1] = <<"S","u","n">>
      /\ DayNames[2] = <<"M","o","n">>
      /\ DayNames[3] = <<"T","u","e">>
      /\ DayNames[4] = <<"W","e","d">>
      /\ DayNames[5] = <<"T","h","u">>
      /\ DayNames[6] = <<"F","r","i">>
      /\ DayNames[7] = <<"S","a","t">>
      BY DEF DayNames
<1> QED BY ONLY <1>1, <1>2, <1>3, <1>4, <1>5, <1>6, <1>7, <1>8, <1>9

\* Texts put together.
IsJoin(u, s, n, t, k) ==
    /\ IsText(u, n + k)
    /\ \A i \in 1..n : u[i] = s[i]
    /\ \A i \in 1..k : u[n + i] = t[i]
LEMMA PutTogether ==
    ASSUME NEW n \in Nat, NEW k \in Nat, NEW s, NEW t, IsText(s, n), IsText(t, k)
    PROVE  IsJoin(s \o t, s, n, t, k)
<1> DEFINE S == {s[i] : i \in 1..n} \cup {t[i] : i \in 1..k}
<1>1. s \in Seq(S) /\ t \in Seq(S)
      <2>1. (\A i \in 1..n : s[i] \in S) /\ (\A i \in 1..k : t[i] \in S)
            OBVIOUS
      <2> HIDE DEF S
      <2>2. s \in [1..n -> S] /\ t \in [1..k -> S]
            BY <2>1 DEF IsText
      <2> QED BY <2>2, SeqDef
<1>2. Len(s) = n /\ Len(t) = k
      BY LenOfText
<1> HIDE DEF S
<1>3. /\ s \o t \in Seq(S) /\ Len(s \o t) = n + k
      /\ \A i \in 1..(n + k) : (s \o t)[i] = IF i <= n THEN s[i] ELSE t[i - n]
      BY <1>1, <1>2, ConcatProperties
<1>4. DOMAIN (s \o t) = 1..(n + k)
      BY <1>3
<1>5. IsText(s \o t, n + k)
      <2> DEFINE u == s \o t
      <2>1. u \in Seq(S) /\ DOMAIN u = 1..(n + k)
            BY <1>3, <1>4
      <2> HIDE DEF u
      <2>2. u = [i \in 1..(n + k) |-> u[i]]
            BY <2>1
      <2> QED BY <2>2 DEF u, IsText
<1>6. \A i \in 1..n : (s \o t)[i] = s[i]
      BY <1>3
<1>7. ASSUME NEW i \in 1..k PROVE (s \o t)[n + i] = t[i]
      <2>1. n + i \in 1..(n + k) /\ ~ (n + i <= n) /\ (n + i) - n = i
            OBVIOUS
      <2> QED BY <1>3, <2>1
<1> QED BY <1>5, <1>6, <1>7 DEF IsJoin

LEMMA TwoIsText ==
    ASSUME NEW n
    PROVE  IsText(Two(n), 2)
BY DEF Two, IsText

LEMMA CenturyIs ==
    ASSUME NEW n
    PROVE  LET c == <<"2", "0">> \o Two(n)
           IN  /\ IsText(c, 4) /\ c[1] = "2" /\ c[2] = "0"
               /\ c[3] = Two(n)[1] /\ c[4] = Two(n)[2]
<1> DEFINE s == <<"2", "0">>
           t == Two(n)
           c == s \o t
<1>1. IsText(s, 2) /\ s[1] = "2" /\ s[2] = "0" /\ IsText(t, 2)
      BY TwoIsText DEF IsText
<1> HIDE DEF s, t
<1>2. IsJoin(c, s, 2, t, 2)
      <2>1. 2 \in Nat
            OBVIOUS
      <2> QED BY ONLY <1>1, <2>1, PutTogether DEF c
<1>3. 2 + 2 = 4 /\ 2 + 1 = 3
      OBVIOUS
<1> HIDE DEF c
<1>4. /\ IsText(c, 4) /\ c[1] = s[1] /\ c[2] = s[2] /\ c[3] = t[1] /\ c[4] = t[2]
      BY <1>2, <1>3 DEF IsJoin
<1> QED BY <1>1, <1>4 DEF c, s, t

--------------------------------------------------------------------------------
\* "MMM DD YYYY"
DayText(y, m, d) ==
    <<MonthNames[m][1], MonthNames[m][2], MonthNames[m][3], SpaceChar, Two(d)[1], Two(d)[2],
      SpaceChar, "2", "0", Two(y)[1], Two(y)[2]>>
LEMMA DayWritten ==
    ASSUME NEW date, NEW hour,
           date.m \in 1..12,
           date.d \in Nat, date.d <= 99,
           date.yOff \in Nat, date.yOff <= 99
    PROVE  WrittenOver(Specifiers(date, hour), BuildDay)[10] = DayText(date.yOff, date.m, date.d)
<1> DEFINE rules == Specifiers(date, hour)
           F == BuildDay
           T == DayText(date.yOff, date.m, date.d)
           ends == <<3, 3, 3, 4, 6, 6, 7, 11, 11, 11>>
           E == [i \in 0..10 |-> IF i = 0 THEN 0 ELSE ends[i]]
<1>1. /\ IsText(F, 11) /\ F[1] = "M" /\ F[2] = "M" /\ F[3] = "M"
      /\ F[4] = SpaceChar /\ F[5] = "D" /\ F[6] = "D" /\ F[7] = SpaceChar
      /\ F[8] = "Y" /\ F[9] = "Y" /\ F[10] = "Y" /\ F[11] = "Y"
      BY DEF BuildDay, IsText
<1>2. /\ IsText(T, 11) /\ T[1] = MonthNames[date.m][1]
      /\ T[2] = MonthNames[date.m][2] /\ T[3] = MonthNames[date.m][3]
      /\ T[4] = SpaceChar /\ T[5] = Two(date.d)[1]
      /\ T[6] = Two(date.d)[2] /\ T[7] = SpaceChar
      /\ T[8] = "2" /\ T[9] = "0"
      /\ T[10] = Two(date.yOff)[1] /\ T[11] = Two(date.yOff)[2]
      BY DEF DayText, IsText
<1>3. /\ E \in [0..10 -> Nat] /\ E[0] = 0 /\ E[1] = 3 /\ E[2] = 3 /\ E[3] = 3 /\ E[4] = 4
      /\ E[5] = 6 /\ E[6] = 6 /\ E[7] = 7 /\ E[8] = 11 /\ E[9] = 11 /\ E[10] = 11
      <2>1. /\ ends[1] = 3 /\ ends[2] = 3 /\ ends[3] = 3 /\ ends[4] = 4 /\ ends[5] = 6
            /\ ends[6] = 6 /\ ends[7] = 7 /\ ends[8] = 11 /\ ends[9] = 11 /\ ends[10] = 11
            OBVIOUS
      <2> HIDE DEF ends
      <2>2. \A i \in 1..10 : ends[i] \in Nat
            <3>1. \A i \in 1..10 : i \in {1, 2, 3, 4, 5, 6, 7, 8, 9, 10}
                  OBVIOUS
            <3> QED BY <2>1, <3>1
      <2>3. \A i \in 0..10 : i # 0 => i \in 1..10
            OBVIOUS
      <2> QED BY <2>1, <2>2, <2>3
<1>4. /\ Widths[5] = 2 /\ Opens[5] = "D" /\ Follows[5] = "D"
      /\ Widths[6] = 3 /\ Opens[6] = "M" /\ Follows[6] = "M"
      /\ Widths[8] = 4 /\ Opens[8] = "Y" /\ Follows[8] = "Y"
      BY DEF Widths, Opens, Follows
<1>5. /\ rules[6][2] = MonthNames[date.m]
      /\ rules[5][2] = Two(date.d)
      /\ rules[8][2][1] = "2" /\ rules[8][2][2] = "0"
      /\ rules[8][2][3] = Two(date.yOff)[1] /\ rules[8][2][4] = Two(date.yOff)[2]
      <2>1. date.yOff % 100 = date.yOff
            OBVIOUS
      <2>2. rules[6][2] = MonthNames[date.m] /\ rules[5][2] = Two(date.d)
            BY RulesAre DEF RuleIs
      <2>3. rules[8][2] = <<"2", "0">> \o Two(date.yOff)
            <3>1. RuleIs(rules[8], <<"Y", "Y", "Y", "Y">>, <<"2", "0">> \o Two(date.yOff % 100))
                  BY RulesAre
            <3> HIDE DEF rules
            <3> QED BY ONLY <2>1, <3>1 DEF RuleIs
      <2> DEFINE c == rules[8][2]
      <2>4. c[1] = "2" /\ c[2] = "0" /\ c[3] = Two(date.yOff)[1] /\ c[4] = Two(date.yOff)[2]
            <3> HIDE DEF c
            <3> DEFINE u == <<"2", "0">> \o Two(date.yOff)
            <3>1. u[1] = "2" /\ u[2] = "0" /\ u[3] = Two(date.yOff)[1] /\ u[4] = Two(date.yOff)[2]
                  BY CenturyIs
            <3>2. c = u
                  BY <2>3 DEF c
            <3> HIDE DEF u
            <3> QED BY <3>1, <3>2
      <2> QED BY <2>2, <2>4
<1>6. /\ Inert(MonthNames[date.m][2], MonthNames[date.m][3]) /\ MonthNames[date.m][3] \notin Openers
      /\ Two(date.d)[1] \notin Openers /\ Two(date.d)[2] \notin Openers
      /\ Two(date.yOff)[1] \notin Openers /\ Two(date.yOff)[2] \notin Openers
      /\ "0" \notin Openers
      <2>1. NameIs(MonthNames[date.m])
            BY MonthNamesAre
      <2> DEFINE name == MonthNames[date.m]
      <2>2. Inert(name[2], name[3]) /\ name[3] \notin Openers
            BY <2>1 DEF NameIs
      <2>3. "0" \notin Openers
            BY DEF Openers
      <2>4. /\ Two(date.d)[1] \notin Openers /\ Two(date.d)[2] \notin Openers
            /\ Two(date.yOff)[1] \notin Openers /\ Two(date.yOff)[2] \notin Openers
            BY TwoIs, DigitsAreInert
      <2> QED BY <2>2, <2>3, <2>4
<1> HIDE DEF rules, F, T, ends, E
<1>20. Ruled(rules, F, T, E, 1, 11)
      <2>1. \A k \in 2..3 : k = 2 \/ k = 3
            OBVIOUS
      <2>2. \A k \in 1..3 : k = 1 \/ k = 2 \/ k = 3
            OBVIOUS
      <2>3. 1 - 1 = 0 /\ 0 + 1 = 1 /\ 0 + 2 = 2 /\ 0 + 3 = 3
            OBVIOUS
      <2>4. Fits(rules, F, T, 0, 6, 11)
            BY ONLY <1>1, <1>2, <1>4, <1>5, <2>1, <2>2, <2>3, SpaceIsInert DEF Fits
      <2> QED BY <1>3, <1>4, <2>3, <2>4 DEF Ruled
<1>21. KeptAt(T, E, 2)
      BY ONLY <1>2, <1>3, <1>6 DEF KeptAt
<1>22. KeptAt(T, E, 3)
      BY ONLY <1>2, <1>3, <1>6 DEF KeptAt
<1>23. PlainPlace(F, T, E, 4)
      BY ONLY <1>1, <1>2, <1>3, SpaceIsInert DEF PlainPlace, Openers
<1>24. Ruled(rules, F, T, E, 5, 11)
      <2>1. \A k \in 2..2 : k = 2
            OBVIOUS
      <2>2. \A k \in 1..2 : k = 1 \/ k = 2
            OBVIOUS
      <2>3. 5 - 1 = 4 /\ 4 + 1 = 5 /\ 4 + 2 = 6 /\ 4 + 3 = 7
            OBVIOUS
      <2>4. Fits(rules, F, T, 4, 5, 11)
            BY ONLY <1>1, <1>2, <1>4, <1>5, <2>1, <2>2, <2>3, SpaceIsInert DEF Fits
      <2> QED BY <1>3, <1>4, <2>3, <2>4 DEF Ruled
<1>25. KeptAt(T, E, 6)
      BY ONLY <1>2, <1>3, <1>6 DEF KeptAt
<1>26. PlainPlace(F, T, E, 7)
      BY ONLY <1>1, <1>2, <1>3, SpaceIsInert DEF PlainPlace, Openers
<1>27. Ruled(rules, F, T, E, 8, 11)
      <2>1. \A k \in 2..4 : k = 2 \/ k = 3 \/ k = 4
            OBVIOUS
      <2>2. \A k \in 1..4 : k = 1 \/ k = 2 \/ k = 3 \/ k = 4
            OBVIOUS
      <2>3. 8 - 1 = 7 /\ 7 + 1 = 8 /\ 7 + 2 = 9 /\ 7 + 3 = 10 /\ 7 + 4 = 11
            OBVIOUS
      <2>4. Fits(rules, F, T, 7, 8, 11)
            BY ONLY <1>1, <1>2, <1>4, <1>5, <2>1, <2>2, <2>3, SpaceIsInert DEF Fits
      <2> QED BY <1>3, <1>4, <2>3, <2>4 DEF Ruled
<1>28. KeptAt(T, E, 9)
      BY ONLY <1>2, <1>3, <1>6 DEF KeptAt
<1>29. KeptAt(T, E, 10)
      BY ONLY <1>2, <1>3, <1>6 DEF KeptAt
<1>50. \A i \in 1..10 : i \in {1, 2, 3, 4, 5, 6, 7, 8, 9, 10}
       OBVIOUS
<1>51. \A i \in 1..(11 - 1) : KeptAt(T, E, i) \/ PlainPlace(F, T, E, i) \/ Ruled(rules, F, T, E, i, 11)
       <2>1. 11 - 1 = 10
             OBVIOUS
       <2> QED BY ONLY <1>50, <2>1, <1>20, <1>21, <1>22, <1>23, <1>24,
              <1>25, <1>26, <1>27, <1>28, <1>29
<1>52. \A k \in 1..11 : k > E[11 - 1] => F[k] = T[k]
       <2>1. 11 - 1 = 10
             OBVIOUS
       <2> QED BY <1>3, <2>1
<1>53. WrittenOver(rules, F)[11 - 1] = T
       <2>1. Plan(rules, F, T, E, 11)
             <3>1. 11 - 1 = 10 /\ 11 > 0
                   OBVIOUS
             <3> QED BY <1>1, <1>2, <1>3, <1>51, <1>52, <3>1 DEF Plan
       <2> DEFINE n == 11
       <2>2. n \in Nat /\ Plan(rules, F, T, E, n)
             BY <2>1
       <2> HIDE DEF n
       <2>3. WrittenOver(rules, F)[n - 1] = T
             BY <2>2, PlanPrinted DEF rules
       <2> QED BY <2>3 DEF n
<1>54. 11 - 1 = 10
       OBVIOUS
<1> QED BY <1>53, <1>54 DEF rules, F, T

\* "hh:mm:ss"
TimeText(h, i, s) ==
    <<Two(h)[1], Two(h)[2], ":", Two(i)[1], Two(i)[2], ":", Two(s)[1], Two(s)[2]>>
LEMMA TimeWritten ==
    ASSUME NEW date, NEW hour,
           hour \in Nat, hour <= 99,
           date.mm \in Nat, date.mm <= 99,
           date.ss \in Nat, date.ss <= 99
    PROVE  WrittenOver(Specifiers(date, hour), BuildTime)[7] = TimeText(hour, date.mm, date.ss)
<1> DEFINE rules == Specifiers(date, hour)
           F == BuildTime
           T == TimeText(hour, date.mm, date.ss)
           ends == <<2, 2, 3, 5, 5, 6, 8>>
           E == [i \in 0..7 |-> IF i = 0 THEN 0 ELSE ends[i]]
<1>1. /\ IsText(F, 8) /\ F[1] = "h" /\ F[2] = "h" /\ F[3] = ":"
      /\ F[4] = "m" /\ F[5] = "m" /\ F[6] = ":" /\ F[7] = "s"
      /\ F[8] = "s"
      BY DEF BuildTime, IsText
<1>2. /\ IsText(T, 8) /\ T[1] = Two(hour)[1]
      /\ T[2] = Two(hour)[2] /\ T[3] = ":"
      /\ T[4] = Two(date.mm)[1] /\ T[5] = Two(date.mm)[2]
      /\ T[6] = ":" /\ T[7] = Two(date.ss)[1]
      /\ T[8] = Two(date.ss)[2]
      BY DEF TimeText, IsText
<1>3. /\ E \in [0..7 -> Nat] /\ E[0] = 0 /\ E[1] = 2 /\ E[2] = 2 /\ E[3] = 3 /\ E[4] = 5
      /\ E[5] = 5 /\ E[6] = 6 /\ E[7] = 8
      <2>1. /\ ends[1] = 2 /\ ends[2] = 2 /\ ends[3] = 3 /\ ends[4] = 5 /\ ends[5] = 5
            /\ ends[6] = 6 /\ ends[7] = 8
            OBVIOUS
      <2> HIDE DEF ends
      <2>2. \A i \in 1..7 : ends[i] \in Nat
            <3>1. \A i \in 1..7 : i \in {1, 2, 3, 4, 5, 6, 7}
                  OBVIOUS
            <3> QED BY <2>1, <3>1
      <2>3. \A i \in 0..7 : i # 0 => i \in 1..7
            OBVIOUS
      <2> QED BY <2>1, <2>2, <2>3
<1>4. /\ Widths[1] = 2 /\ Opens[1] = "h" /\ Follows[1] = "h"
      /\ Widths[2] = 2 /\ Opens[2] = "m" /\ Follows[2] = "m"
      /\ Widths[3] = 2 /\ Opens[3] = "s" /\ Follows[3] = "s"
      BY DEF Widths, Opens, Follows
<1>5. /\ rules[1][2] = Two(hour) /\ rules[2][2] = Two(date.mm) /\ rules[3][2] = Two(date.ss)
      BY RulesAre DEF RuleIs
<1>6. /\ Two(hour)[1] \notin Openers /\ Two(hour)[2] \notin Openers
      /\ Two(date.mm)[1] \notin Openers /\ Two(date.mm)[2] \notin Openers
      /\ Two(date.ss)[1] \notin Openers /\ Two(date.ss)[2] \notin Openers
      BY TwoIs, DigitsAreInert
<1> HIDE DEF rules, F, T, ends, E
<1>20. Ruled(rules, F, T, E, 1, 8)
      <2>1. \A k \in 2..2 : k = 2
            OBVIOUS
      <2>2. \A k \in 1..2 : k = 1 \/ k = 2
            OBVIOUS
      <2>3. 1 - 1 = 0 /\ 0 + 1 = 1 /\ 0 + 2 = 2 /\ 0 + 3 = 3
            OBVIOUS
      <2>4. Fits(rules, F, T, 0, 1, 8)
            BY ONLY <1>1, <1>2, <1>4, <1>5, <2>1, <2>2, <2>3, SpaceIsInert DEF Fits
      <2> QED BY <1>3, <1>4, <2>3, <2>4 DEF Ruled
<1>21. KeptAt(T, E, 2)
      BY ONLY <1>2, <1>3, <1>6 DEF KeptAt
<1>22. PlainPlace(F, T, E, 3)
      BY ONLY <1>1, <1>2, <1>3, SpaceIsInert DEF PlainPlace, Openers
<1>23. Ruled(rules, F, T, E, 4, 8)
      <2>1. \A k \in 2..2 : k = 2
            OBVIOUS
      <2>2. \A k \in 1..2 : k = 1 \/ k = 2
            OBVIOUS
      <2>3. 4 - 1 = 3 /\ 3 + 1 = 4 /\ 3 + 2 = 5 /\ 3 + 3 = 6
            OBVIOUS
      <2>4. Fits(rules, F, T, 3, 2, 8)
            BY ONLY <1>1, <1>2, <1>4, <1>5, <2>1, <2>2, <2>3, SpaceIsInert DEF Fits
      <2> QED BY <1>3, <1>4, <2>3, <2>4 DEF Ruled
<1>24. KeptAt(T, E, 5)
      BY ONLY <1>2, <1>3, <1>6 DEF KeptAt
<1>25. PlainPlace(F, T, E, 6)
      BY ONLY <1>1, <1>2, <1>3, SpaceIsInert DEF PlainPlace, Openers
<1>26. Ruled(rules, F, T, E, 7, 8)
      <2>1. \A k \in 2..2 : k = 2
            OBVIOUS
      <2>2. \A k \in 1..2 : k = 1 \/ k = 2
            OBVIOUS
      <2>3. 7 - 1 = 6 /\ 6 + 1 = 7 /\ 6 + 2 = 8 /\ 6 + 3 = 9
            OBVIOUS
      <2>4. Fits(rules, F, T, 6, 3, 8)
            BY ONLY <1>1, <1>2, <1>4, <1>5, <2>1, <2>2, <2>3, SpaceIsInert DEF Fits
      <2> QED BY <1>3, <1>4, <2>3, <2>4 DEF Ruled
<1>50. \A i \in 1..7 : i \in {1, 2, 3, 4, 5, 6, 7}
       OBVIOUS
<1>51. \A i \in 1..(8 - 1) : KeptAt(T, E, i) \/ PlainPlace(F, T, E, i) \/ Ruled(rules, F, T, E, i, 8)
       <2>1. 8 - 1 = 7
             OBVIOUS
       <2> QED BY ONLY <1>50, <2>1, <1>20, <1>21, <1>22, <1>23, <1>24, <1>25, <1>26
<1>52. \A k \in 1..8 : k > E[8 - 1] => F[k] = T[k]
       <2>1. 8 - 1 = 7
             OBVIOUS
       <2> QED BY <1>3, <2>1
<1>53. WrittenOver(rules, F)[8 - 1] = T
       <2>1. Plan(rules, F, T, E, 8)
             <3>1. 8 - 1 = 7 /\ 8 > 0
                   OBVIOUS
             <3> QED BY <1>1, <1>2, <1>3, <1>51, <1>52, <3>1 DEF Plan
       <2> DEFINE n == 8
       <2>2. n \in Nat /\ Plan(rules, F, T, E, n)
             BY <2>1
       <2> HIDE DEF n
       <2>3. WrittenOver(rules, F)[n - 1] = T
             BY <2>2, PlanPrinted DEF rules
       <2> QED BY <2>3 DEF n
<1>54. 8 - 1 = 7
       OBVIOUS
<1> QED BY <1>53, <1>54 DEF rules, F, T

\* "YYYY-MM-DDThh:mm:ss"
IsoText(y, m, d, h, i, s) ==
    <<"2", "0", Two(y)[1], Two(y)[2], "-", Two(m)[1], Two(m)[2], "-", Two(d)[1], Two(d)[2], "T",
      Two(h)[1], Two(h)[2], ":", Two(i)[1], Two(i)[2], ":", Two(s)[1], Two(s)[2]>>
LEMMA IsoWritten ==
    ASSUME NEW date, NEW hour,
           date.yOff \in Nat, date.yOff <= 99,
           date.m \in Nat, date.m <= 99,
           date.d \in Nat, date.d <= 99,
           hour \in Nat, hour <= 99,
           date.mm \in Nat, date.mm <= 99,
           date.ss \in Nat, date.ss <= 99
    PROVE  WrittenOver(Specifiers(date, hour), IsoFormat)[18]
              = IsoText(date.yOff, date.m, date.d, hour, date.mm, date.ss)
<1> DEFINE rules == Specifiers(date, hour)
           F == IsoFormat
           T == IsoText(date.yOff, date.m, date.d, hour, date.mm, date.ss)
           ends == <<4, 4, 4, 4, 5, 7, 7, 8, 10, 10, 11, 13, 13, 14, 16, 16, 17, 19>>
           E == [i \in 0..18 |-> IF i = 0 THEN 0 ELSE ends[i]]
<1>1. /\ IsText(F, 19) /\ F[1] = "Y" /\ F[2] = "Y" /\ F[3] = "Y"
      /\ F[4] = "Y" /\ F[5] = "-" /\ F[6] = "M" /\ F[7] = "M"
      /\ F[8] = "-" /\ F[9] = "D" /\ F[10] = "D" /\ F[11] = "T"
      /\ F[12] = "h" /\ F[13] = "h" /\ F[14] = ":" /\ F[15] = "m"
      /\ F[16] = "m" /\ F[17] = ":" /\ F[18] = "s" /\ F[19] = "s"
      BY DEF IsoFormat, IsText
<1>2. /\ IsText(T, 19) /\ T[1] = "2"
      /\ T[2] = "0" /\ T[3] = Two(date.yOff)[1]
      /\ T[4] = Two(date.yOff)[2] /\ T[5] = "-"
      /\ T[6] = Two(date.m)[1] /\ T[7] = Two(date.m)[2]
      /\ T[8] = "-" /\ T[9] = Two(date.d)[1]
      /\ T[10] = Two(date.d)[2] /\ T[11] = "T"
      /\ T[12] = Two(hour)[1] /\ T[13] = Two(hour)[2]
      /\ T[14] = ":" /\ T[15] = Two(date.mm)[1]
      /\ T[16] = Two(date.mm)[2] /\ T[17] = ":"
      /\ T[18] = Two(date.ss)[1] /\ T[19] = Two(date.ss)[2]
      BY DEF IsoText, IsText
<1>3. /\ E \in [0..18 -> Nat] /\ E[0] = 0 /\ E[1] = 4 /\ E[2] = 4 /\ E[3] = 4 /\ E[4] = 4
      /\ E[5] = 5 /\ E[6] = 7 /\ E[7] = 7 /\ E[8] = 8 /\ E[9] = 10 /\ E[10] = 10
      /\ E[11] = 11 /\ E[12] = 13 /\ E[13] = 13 /\ E[14] = 14 /\ E[15] = 16 /\ E[16] = 16
      /\ E[17] = 17 /\ E[18] = 19
      <2>1. /\ ends[1] = 4 /\ ends[2] = 4 /\ ends[3] = 4 /\ ends[4] = 4 /\ ends[5] = 5
            /\ ends[6] = 7 /\ ends[7] = 7 /\ ends[8] = 8 /\ ends[9] = 10 /\ ends[10] = 10
            /\ ends[11] = 11 /\ ends[12] = 13 /\ ends[13] = 13 /\ ends[14] = 14 /\ ends[15] = 16
            /\ ends[16] = 16 /\ ends[17] = 17 /\ ends[18] = 19
            OBVIOUS
      <2> HIDE DEF ends
      <2>2. \A i \in 1..18 : ends[i] \in Nat
            <3>1. \A i \in 1..18 : i \in {1, 2, 3, 4, 5, 6, 7, 8, 9, 10, 11, 12, 13, 14, 15, 16, 17, 18}
                  OBVIOUS
            <3> QED BY <2>1, <3>1
      <2>3. \A i \in 0..18 : i # 0 => i \in 1..18
            OBVIOUS
      <2> QED BY <2>1, <2>2, <2>3
<1>4. /\ Widths[1] = 2 /\ Opens[1] = "h" /\ Follows[1] = "h"
      /\ Widths[2] = 2 /\ Opens[2] = "m" /\ Follows[2] = "m"
      /\ Widths[3] = 2 /\ Opens[3] = "s" /\ Follows[3] = "s"
      /\ Widths[5] = 2 /\ Opens[5] = "D" /\ Follows[5] = "D"
      /\ Widths[7] = 2 /\ Opens[7] = "M" /\ Follows[7] = "M"
      /\ Widths[8] = 4 /\ Opens[8] = "Y" /\ Follows[8] = "Y"
      BY DEF Widths, Opens, Follows
<1>5. /\ rules[1][2] = Two(hour) /\ rules[2][2] = Two(date.mm) /\ rules[3][2] = Two(date.ss)
      /\ rules[5][2] = Two(date.d) /\ rules[7][2] = Two(date.m)
      /\ rules[8][2][1] = "2" /\ rules[8][2][2] = "0"
      /\ rules[8][2][3] = Two(date.yOff)[1] /\ rules[8][2][4] = Two(date.yOff)[2]
      <2>1. date.yOff % 100 = date.yOff
            OBVIOUS
      <2>2. rules[1][2] = Two(hour) /\ rules[2][2] = Two(date.mm) /\ rules[3][2] = Two(date.ss)
            /\ rules[5][2] = Two(date.d) /\ rules[7][2] = Two(date.m)
            BY RulesAre DEF RuleIs
      <2>3. rules[8][2] = <<"2", "0">> \o Two(date.yOff)
            <3>1. RuleIs(rules[8], <<"Y", "Y", "Y", "Y">>, <<"2", "0">> \o Two(date.yOff % 100))
                  BY RulesAre
            <3> HIDE DEF rules
            <3> QED BY ONLY <2>1, <3>1 DEF RuleIs
      <2> DEFINE c == rules[8][2]
      <2>4. c[1] = "2" /\ c[2] = "0" /\ c[3] = Two(date.yOff)[1] /\ c[4] = Two(date.yOff)[2]
            <3> HIDE DEF c
            <3> DEFINE u == <<"2", "0">> \o Two(date.yOff)
            <3>1. u[1] = "2" /\ u[2] = "0" /\ u[3] = Two(date.yOff)[1] /\ u[4] = Two(date.yOff)[2]
                  BY CenturyIs
            <3>2. c = u
                  BY <2>3 DEF c
            <3> HIDE DEF u
            <3> QED BY <3>1, <3>2
      <2> QED BY <2>2, <2>4
<1>6. /\ Two(hour)[1] \notin Openers /\ Two(hour)[2] \notin Openers
      /\ Two(date.mm)[1] \notin Openers /\ Two(date.mm)[2] \notin Openers
      /\ Two(date.ss)[1] \notin Openers /\ Two(date.ss)[2] \notin Openers
      /\ Two(date.d)[1] \notin Openers /\ Two(date.d)[2] \notin Openers
      /\ Two(date.m)[1] \notin Openers /\ Two(date.m)[2] \notin Openers
      /\ Two(date.yOff)[1] \notin Openers /\ Two(date.yOff)[2] \notin Openers
      /\ "0" \notin Openers
      <2>1. "0" \notin Openers
            BY DEF Openers
      <2> QED BY <2>1, TwoIs, DigitsAreInert
<1> HIDE DEF rules, F, T, ends, E
<1>20. Ruled(rules, F, T, E, 1, 19)
      <2>1. \A k \in 2..4 : k = 2 \/ k = 3 \/ k = 4
            OBVIOUS
      <2>2. \A k \in 1..4 : k = 1 \/ k = 2 \/ k = 3 \/ k = 4
            OBVIOUS
      <2>3. 1 - 1 = 0 /\ 0 + 1 = 1 /\ 0 + 2 = 2 /\ 0 + 3 = 3 /\ 0 + 4 = 4
            OBVIOUS
      <2>4. Fits(rules, F, T, 0, 8, 19)
            BY ONLY <1>1, <1>2, <1>4, <1>5, <2>1, <2>2, <2>3, SpaceIsInert DEF Fits
      <2> QED BY <1>3, <1>4, <2>3, <2>4 DEF Ruled
<1>21. KeptAt(T, E, 2)
      BY ONLY <1>2, <1>3, <1>6 DEF KeptAt
<1>22. KeptAt(T, E, 3)
      BY ONLY <1>2, <1>3, <1>6 DEF KeptAt
<1>23. KeptAt(T, E, 4)
      BY ONLY <1>2, <1>3, <1>6 DEF KeptAt
<1>24. PlainPlace(F, T, E, 5)
      BY ONLY <1>1, <1>2, <1>3, SpaceIsInert DEF PlainPlace, Openers
<1>25. Ruled(rules, F, T, E, 6, 19)
      <2>1. \A k \in 2..2 : k = 2
            OBVIOUS
      <2>2. \A k \in 1..2 : k = 1 \/ k = 2
            OBVIOUS
      <2>3. 6 - 1 = 5 /\ 5 + 1 = 6 /\ 5 + 2 = 7 /\ 5 + 3 = 8
            OBVIOUS
      <2>4. Fits(rules, F, T, 5, 7, 19)
            BY ONLY <1>1, <1>2, <1>4, <1>5, <2>1, <2>2, <2>3, SpaceIsInert DEF Fits
      <2> QED BY <1>3, <1>4, <2>3, <2>4 DEF Ruled
<1>26. KeptAt(T, E, 7)
      BY ONLY <1>2, <1>3, <1>6 DEF KeptAt
<1>27. PlainPlace(F, T, E, 8)
      BY ONLY <1>1, <1>2, <1>3, SpaceIsInert DEF PlainPlace, Openers
<1>28. Ruled(rules, F, T, E, 9, 19)
      <2>1. \A k \in 2..2 : k = 2
            OBVIOUS
      <2>2. \A k \in 1..2 : k = 1 \/ k = 2
            OBVIOUS
      <2>3. 9 - 1 = 8 /\ 8 + 1 = 9 /\ 8 + 2 = 10 /\ 8 + 3 = 11
            OBVIOUS
      <2>4. Fits(rules, F, T, 8, 5, 19)
            BY ONLY <1>1, <1>2, <1>4, <1>5, <2>1, <2>2, <2>3, SpaceIsInert DEF Fits
      <2> QED BY <1>3, <1>4, <2>3, <2>4 DEF Ruled
<1>29. KeptAt(T, E, 10)
      BY ONLY <1>2, <1>3, <1>6 DEF KeptAt
<1>30. PlainPlace(F, T, E, 11)
      BY ONLY <1>1, <1>2, <1>3, SpaceIsInert DEF PlainPlace, Openers
<1>31. Ruled(rules, F, T, E, 12, 19)
      <2>1. \A k \in 2..2 : k = 2
            OBVIOUS
      <2>2. \A k \in 1..2 : k = 1 \/ k = 2
            OBVIOUS
      <2>3. 12 - 1 = 11 /\ 11 + 1 = 12 /\ 11 + 2 = 13 /\ 11 + 3 = 14
            OBVIOUS
      <2>4. Fits(rules, F, T, 11, 1, 19)
            BY ONLY <1>1, <1>2, <1>4, <1>5, <2>1, <2>2, <2>3, SpaceIsInert DEF Fits
      <2> QED BY <1>3, <1>4, <2>3, <2>4 DEF Ruled
<1>32. KeptAt(T, E, 13)
      BY ONLY <1>2, <1>3, <1>6 DEF KeptAt
<1>33. PlainPlace(F, T, E, 14)
      BY ONLY <1>1, <1>2, <1>3, SpaceIsInert DEF PlainPlace, Openers
<1>34. Ruled(rules, F, T, E, 15, 19)
      <2>1. \A k \in 2..2 : k = 2
            OBVIOUS
      <2>2. \A k \in 1..2 : k = 1 \/ k = 2
            OBVIOUS
      <2>3. 15 - 1 = 14 /\ 14 + 1 = 15 /\ 14 + 2 = 16 /\ 14 + 3 = 17
            OBVIOUS
      <2>4. Fits(rules, F, T, 14, 2, 19)
            BY ONLY <1>1, <1>2, <1>4, <1>5, <2>1, <2>2, <2>3, SpaceIsInert DEF Fits
      <2> QED BY <1>3, <1>4, <2>3, <2>4 DEF Ruled
<1>35. KeptAt(T, E, 16)
      BY ONLY <1>2, <1>3, <1>6 DEF KeptAt
<1>36. PlainPlace(F, T, E, 17)
      BY ONLY <1>1, <1>2, <1>3, SpaceIsInert DEF PlainPlace, Openers
<1>37. Ruled(rules, F, T, E, 18, 19)
      <2>1. \A k \in 2..2 : k = 2
            OBVIOUS
      <2>2. \A k \in 1..2 : k = 1 \/ k = 2
            OBVIOUS
      <2>3. 18 - 1 = 17 /\ 17 + 1 = 18 /\ 17 + 2 = 19 /\ 17 + 3 = 20
            OBVIOUS
      <2>4. Fits(rules, F, T, 17, 3, 19)
            BY ONLY <1>1, <1>2, <1>4, <1>5, <2>1, <2>2, <2>3, SpaceIsInert DEF Fits
      <2> QED BY <1>3, <1>4, <2>3, <2>4 DEF Ruled
<1>50. \A i \in 1..18 : i \in {1, 2, 3, 4, 5, 6, 7, 8, 9, 10, 11, 12, 13, 14, 15, 16, 17, 18}
       OBVIOUS
<1>51. \A i \in 1..(19 - 1) : KeptAt(T, E, i) \/ PlainPlace(F, T, E, i) \/ Ruled(rules, F, T, E, i, 19)
       <2>1. 19 - 1 = 18
             OBVIOUS
       <2> QED BY ONLY <1>50, <2>1, <1>20, <1>21, <1>22, <1>23, <1>24,
              <1>25, <1>26, <1>27, <1>28, <1>29, <1>30, <1>31, <1>32, <1>33, <1>34, <1>35, <1>36, <1>37
<1>52. \A k \in 1..19 : k > E[19 - 1] => F[k] = T[k]
       <2>1. 19 - 1 = 18
             OBVIOUS
       <2> QED BY <1>3, <2>1
<1>53. WrittenOver(rules, F)[19 - 1] = T
       <2>1. Plan(rules, F, T, E, 19)
             <3>1. 19 - 1 = 18 /\ 19 > 0
                   OBVIOUS
             <3> QED BY <1>1, <1>2, <1>3, <1>51, <1>52, <3>1 DEF Plan
       <2> DEFINE n == 19
       <2>2. n \in Nat /\ Plan(rules, F, T, E, n)
             BY <2>1
       <2> HIDE DEF n
       <2>3. WrittenOver(rules, F)[n - 1] = T
             BY <2>2, PlanPrinted DEF rules
       <2> QED BY <2>3 DEF n
<1>54. 19 - 1 = 18
       OBVIOUS
<1> QED BY <1>53, <1>54 DEF rules, F, T

HalfOfDay(date) == IF isPM(date.hh) THEN "P" ELSE "A"
DayName(date) == DayNames[dayOfTheWeek(date) + 1]
\* "DDD hh AP"
SpokenText(name, h, half) ==
    <<name[1], name[2], name[3], SpaceChar, Two(h)[1], Two(h)[2], SpaceChar, half, "M">>
LEMMA SpokenWritten ==
    ASSUME NEW date, NEW hour,
           dayOfTheWeek(date) \in 0..6,
           hour \in Nat, hour <= 99
    PROVE  WrittenOver(Specifiers(date, hour), Spoken)[8] = SpokenText(DayName(date), hour, HalfOfDay(date))
<1> DEFINE rules == Specifiers(date, hour)
           F == Spoken
           T == SpokenText(DayName(date), hour, HalfOfDay(date))
           ends == <<3, 3, 3, 4, 6, 6, 7, 9>>
           E == [i \in 0..8 |-> IF i = 0 THEN 0 ELSE ends[i]]
<1>1. /\ IsText(F, 9) /\ F[1] = "D" /\ F[2] = "D" /\ F[3] = "D"
      /\ F[4] = SpaceChar /\ F[5] = "h" /\ F[6] = "h" /\ F[7] = SpaceChar
      /\ F[8] = "A" /\ F[9] = "P"
      BY DEF Spoken, IsText
<1>2. /\ IsText(T, 9) /\ T[1] = DayName(date)[1]
      /\ T[2] = DayName(date)[2] /\ T[3] = DayName(date)[3]
      /\ T[4] = SpaceChar /\ T[5] = Two(hour)[1]
      /\ T[6] = Two(hour)[2] /\ T[7] = SpaceChar
      /\ T[8] = HalfOfDay(date) /\ T[9] = "M"
      BY DEF SpokenText, IsText
<1>3. /\ E \in [0..8 -> Nat] /\ E[0] = 0 /\ E[1] = 3 /\ E[2] = 3 /\ E[3] = 3 /\ E[4] = 4
      /\ E[5] = 6 /\ E[6] = 6 /\ E[7] = 7 /\ E[8] = 9
      <2>1. /\ ends[1] = 3 /\ ends[2] = 3 /\ ends[3] = 3 /\ ends[4] = 4 /\ ends[5] = 6
            /\ ends[6] = 6 /\ ends[7] = 7 /\ ends[8] = 9
            OBVIOUS
      <2> HIDE DEF ends
      <2>2. \A i \in 1..8 : ends[i] \in Nat
            <3>1. \A i \in 1..8 : i \in {1, 2, 3, 4, 5, 6, 7, 8}
                  OBVIOUS
            <3> QED BY <2>1, <3>1
      <2>3. \A i \in 0..8 : i # 0 => i \in 1..8
            OBVIOUS
      <2> QED BY <2>1, <2>2, <2>3
<1>4. /\ Widths[1] = 2 /\ Opens[1] = "h" /\ Follows[1] = "h"
      /\ Widths[4] = 3 /\ Opens[4] = "D" /\ Follows[4] = "D"
      /\ Widths[10] = 2 /\ Opens[10] = "A" /\ Follows[10] = "P"
      BY DEF Widths, Opens, Follows
<1>5. /\ rules[4][2] = DayName(date) /\ rules[1][2] = Two(hour)
      /\ rules[10][2][1] = HalfOfDay(date) /\ rules[10][2][2] = "M"
      <2>1. rules[4][2] = DayName(date) /\ rules[1][2] = Two(hour) /\ rules[10][2] = <<HalfOfDay(date), "M">>
            BY RulesAre DEF RuleIs, DayName, HalfOfDay
      <2> QED BY <2>1
<1>6. /\ Inert(DayName(date)[2], DayName(date)[3]) /\ DayName(date)[3] \notin Openers
      /\ Two(hour)[1] \notin Openers /\ Two(hour)[2] \notin Openers
      <2>1. NameIs(DayName(date))
            <3>1. dayOfTheWeek(date) + 1 \in 1..7
                  OBVIOUS
            <3> QED BY <3>1, DayNamesAre DEF DayName
      <2>2. Inert(DayName(date)[2], DayName(date)[3]) /\ DayName(date)[3] \notin Openers
            BY <2>1 DEF NameIs
      <2>3. Two(hour)[1] \notin Openers /\ Two(hour)[2] \notin Openers
            BY TwoIs, DigitsAreInert
      <2> QED BY <2>2, <2>3
<1> HIDE DEF rules, F, T, ends, E
<1>20. Ruled(rules, F, T, E, 1, 9)
      <2>1. \A k \in 2..3 : k = 2 \/ k = 3
            OBVIOUS
      <2>2. \A k \in 1..3 : k = 1 \/ k = 2 \/ k = 3
            OBVIOUS
      <2>3. 1 - 1 = 0 /\ 0 + 1 = 1 /\ 0 + 2 = 2 /\ 0 + 3 = 3
            OBVIOUS
      <2>4. Fits(rules, F, T, 0, 4, 9)
            BY ONLY <1>1, <1>2, <1>4, <1>5, <2>1, <2>2, <2>3, SpaceIsInert DEF Fits
      <2> QED BY <1>3, <1>4, <2>3, <2>4 DEF Ruled
<1>21. KeptAt(T, E, 2)
      BY ONLY <1>2, <1>3, <1>6 DEF KeptAt
<1>22. KeptAt(T, E, 3)
      BY ONLY <1>2, <1>3, <1>6 DEF KeptAt
<1>23. PlainPlace(F, T, E, 4)
      BY ONLY <1>1, <1>2, <1>3, SpaceIsInert DEF PlainPlace, Openers
<1>24. Ruled(rules, F, T, E, 5, 9)
      <2>1. \A k \in 2..2 : k = 2
            OBVIOUS
      <2>2. \A k \in 1..2 : k = 1 \/ k = 2
            OBVIOUS
      <2>3. 5 - 1 = 4 /\ 4 + 1 = 5 /\ 4 + 2 = 6 /\ 4 + 3 = 7
            OBVIOUS
      <2>4. Fits(rules, F, T, 4, 1, 9)
            BY ONLY <1>1, <1>2, <1>4, <1>5, <2>1, <2>2, <2>3, SpaceIsInert DEF Fits
      <2> QED BY <1>3, <1>4, <2>3, <2>4 DEF Ruled
<1>25. KeptAt(T, E, 6)
      BY ONLY <1>2, <1>3, <1>6 DEF KeptAt
<1>26. PlainPlace(F, T, E, 7)
      BY ONLY <1>1, <1>2, <1>3, SpaceIsInert DEF PlainPlace, Openers
<1>27. Ruled(rules, F, T, E, 8, 9)
      <2>1. \A k \in 2..2 : k = 2
            OBVIOUS
      <2>2. \A k \in 1..2 : k = 1 \/ k = 2
            OBVIOUS
      <2>3. 8 - 1 = 7 /\ 7 + 1 = 8 /\ 7 + 2 = 9 /\ 7 + 3 = 10
            OBVIOUS
      <2>4. Fits(rules, F, T, 7, 10, 9)
            BY ONLY <1>1, <1>2, <1>4, <1>5, <2>1, <2>2, <2>3, SpaceIsInert DEF Fits
      <2> QED BY <1>3, <1>4, <2>3, <2>4 DEF Ruled
<1>50. \A i \in 1..8 : i \in {1, 2, 3, 4, 5, 6, 7, 8}
       OBVIOUS
<1>51. \A i \in 1..(9 - 1) : KeptAt(T, E, i) \/ PlainPlace(F, T, E, i) \/ Ruled(rules, F, T, E, i, 9)
       <2>1. 9 - 1 = 8
             OBVIOUS
       <2> QED BY ONLY <1>50, <2>1, <1>20, <1>21, <1>22, <1>23, <1>24,
              <1>25, <1>26, <1>27
<1>52. \A k \in 1..9 : k > E[9 - 1] => F[k] = T[k]
       <2>1. 9 - 1 = 8
             OBVIOUS
       <2> QED BY <1>3, <2>1
<1>53. WrittenOver(rules, F)[9 - 1] = T
       <2>1. Plan(rules, F, T, E, 9)
             <3>1. 9 - 1 = 8 /\ 9 > 0
                   OBVIOUS
             <3> QED BY <1>1, <1>2, <1>3, <1>51, <1>52, <3>1 DEF Plan
       <2> DEFINE n == 9
       <2>2. n \in Nat /\ Plan(rules, F, T, E, n)
             BY <2>1
       <2> HIDE DEF n
       <2>3. WrittenOver(rules, F)[n - 1] = T
             BY <2>2, PlanPrinted DEF rules
       <2> QED BY <2>3 DEF n
<1>54. 9 - 1 = 8
       OBVIOUS
<1> QED BY <1>53, <1>54 DEF rules, F, T

--------------------------------------------------------------------------------
\* What toString() and timestamp() make of a date.
\* A format with no "ap" has its hours of twenty-four.
LEMMA Unmarked ==
    ASSUME NEW date, NEW n \in Nat, NEW F, IsText(F, n),
           \A i \in 1..n : F[i] \notin {"a", "A"}
    PROVE  toString(date, F) = WrittenOver(Specifiers(date, date.hh), F)[n - 1]
<1> DEFINE ap == \E i \in DOMAIN F : IsAt(<<"a","p">>, F, i) \/ IsAt(<<"A","P">>, F, i)
<1>1. Len(F) = n /\ DOMAIN F = 1..n
      BY LenOfText
<1>2. ASSUME NEW i \in 1..n, NEW a, NEW b, a \in {"a", "A"}, IsAt(<<a, b>>, F, i) PROVE FALSE
      <2>1. 1 \in DOMAIN <<a, b>> /\ <<a, b>>[1] = a
            OBVIOUS
      <2>2. F[i + 1 - 1] = a /\ i + 1 - 1 = i
            BY <1>2, <2>1 DEF IsAt
      <2> QED BY <1>2, <2>2
<1>3. ~ ap
      <2>1. ASSUME NEW i \in 1..n PROVE ~ IsAt(<<"a","p">>, F, i) /\ ~ IsAt(<<"A","P">>, F, i)
            <3>1. "a" \in {"a", "A"} /\ "A" \in {"a", "A"}
                  OBVIOUS
            <3> QED BY <1>2, <3>1
      <2> QED BY <1>1, <2>1
<1>4. toString(date, F) =
        WrittenOver(Specifiers(date, IF ap THEN twelveHour(date.hh) ELSE date.hh), F)[Len(F) - 1]
      BY DEF toString
<1> HIDE DEF ap
<1> QED BY <1>1, <1>3, <1>4

LEMMA DayPrinted ==
    ASSUME NEW date, date.m \in 1..12, date.d \in Nat, date.d <= 99, date.yOff \in Nat, date.yOff <= 99
    PROVE  toString(date, BuildDay) = DayText(date.yOff, date.m, date.d)
<1> DEFINE ap == \E i \in DOMAIN BuildDay :
                     IsAt(<<"a","p">>, BuildDay, i) \/ IsAt(<<"A","P">>, BuildDay, i)
           hour == IF ap THEN twelveHour(date.hh) ELSE date.hh
<1>1. toString(date, BuildDay) = WrittenOver(Specifiers(date, hour), BuildDay)[Len(BuildDay) - 1]
      BY DEF toString
<1>2. Len(BuildDay) = 11
      BY DEF BuildDay
<1> HIDE DEF hour
<1>3. WrittenOver(Specifiers(date, hour), BuildDay)[10] = DayText(date.yOff, date.m, date.d)
      BY DayWritten
<1>4. 11 - 1 = 10
      OBVIOUS
<1> QED BY ONLY <1>1, <1>2, <1>3, <1>4

LEMMA TimePrinted ==
    ASSUME NEW date, date.hh \in Nat, date.hh <= 99, date.mm \in Nat, date.mm <= 99,
           date.ss \in Nat, date.ss <= 99
    PROVE  toString(date, BuildTime) = TimeText(date.hh, date.mm, date.ss)
<1>1. IsText(BuildTime, 8)
      BY DEF BuildTime, IsText
<1>2. ASSUME NEW i \in 1..8 PROVE BuildTime[i] \notin {"a", "A"}
      <2>1. i \in {1, 2, 3, 4, 5, 6, 7, 8}
            OBVIOUS
      <2> QED BY <2>1 DEF BuildTime
<1> DEFINE n == 8
<1>3. n \in Nat /\ IsText(BuildTime, n) /\ \A i \in 1..n : BuildTime[i] \notin {"a", "A"}
      BY <1>1, <1>2
<1> HIDE DEF n
<1>4. toString(date, BuildTime) = WrittenOver(Specifiers(date, date.hh), BuildTime)[n - 1]
      BY <1>3, Unmarked
<1>5. n - 1 = 7
      BY DEF n
<1>6. WrittenOver(Specifiers(date, date.hh), BuildTime)[7] = TimeText(date.hh, date.mm, date.ss)
      BY TimeWritten
<1> QED BY ONLY <1>4, <1>5, <1>6

LEMMA IsoPrinted ==
    ASSUME NEW date, date.hh \in Nat, date.hh <= 99, date.mm \in Nat, date.mm <= 99,
           date.ss \in Nat, date.ss <= 99, date.m \in Nat, date.m <= 99,
           date.d \in Nat, date.d <= 99, date.yOff \in Nat, date.yOff <= 99
    PROVE  toString(date, IsoFormat) =
              IsoText(date.yOff, date.m, date.d, date.hh, date.mm, date.ss)
<1>1. IsText(IsoFormat, 19)
      BY DEF IsoFormat, IsText
<1>2. ASSUME NEW i \in 1..19 PROVE IsoFormat[i] \notin {"a", "A"}
      <2>1. i \in {1, 2, 3, 4, 5, 6, 7, 8, 9, 10, 11, 12, 13, 14, 15, 16, 17, 18, 19}
            OBVIOUS
      <2> QED BY <2>1 DEF IsoFormat
<1> DEFINE n == 19
<1>3. n \in Nat /\ IsText(IsoFormat, n) /\ \A i \in 1..n : IsoFormat[i] \notin {"a", "A"}
      BY <1>1, <1>2
<1> HIDE DEF n
<1>4. toString(date, IsoFormat) = WrittenOver(Specifiers(date, date.hh), IsoFormat)[n - 1]
      BY <1>3, Unmarked
<1>5. n - 1 = 18
      BY DEF n
<1>6. WrittenOver(Specifiers(date, date.hh), IsoFormat)[18]
        = IsoText(date.yOff, date.m, date.d, date.hh, date.mm, date.ss)
      BY IsoWritten
<1> QED BY ONLY <1>4, <1>5, <1>6

LEMMA SpokenPrinted ==
    ASSUME NEW date, dayOfTheWeek(date) \in 0..6, date.hh \in Nat, date.hh <= 23
    PROVE  toString(date, Spoken) = SpokenText(DayName(date), twelveHour(date.hh), HalfOfDay(date))
<1> DEFINE ap == \E i \in DOMAIN Spoken : IsAt(<<"a","p">>, Spoken, i) \/ IsAt(<<"A","P">>, Spoken, i)
           hour == twelveHour(date.hh)
<1>1. ap
      <2>1. /\ Len(Spoken) = 9 /\ DOMAIN Spoken = 1..9 /\ Spoken[8] = "A" /\ Spoken[9] = "P"
            BY DEF Spoken
      <2> DEFINE p == <<"A","P">>
      <2>2. Len(p) = 2 /\ DOMAIN p = 1..2 /\ p[1] = "A" /\ p[2] = "P"
            OBVIOUS
      <2> HIDE DEF p
      <2>3. \A k \in 1..2 : k = 1 \/ k = 2
            OBVIOUS
      <2>4. 8 + 1 - 1 = 8 /\ 8 + 2 - 1 = 9 /\ 8 \in 1..9
            OBVIOUS
      <2>5. \A k \in DOMAIN p : Spoken[8 + k - 1] = p[k]
            BY ONLY <2>1, <2>2, <2>3, <2>4
      <2>6. 8 + Len(p) - 1 <= Len(Spoken)
            BY <2>1, <2>2
      <2>7. IsAt(p, Spoken, 8)
            BY <2>5, <2>6 DEF IsAt
      <2> QED BY <2>1, <2>4, <2>7 DEF p
<1>2. toString(date, Spoken) =
        WrittenOver(Specifiers(date, IF ap THEN twelveHour(date.hh) ELSE date.hh), Spoken)
            [Len(Spoken) - 1]
      BY DEF toString
<1> HIDE DEF ap
<1>3. Len(Spoken) = 9 /\ 9 - 1 = 8
      BY DEF Spoken
<1>4. hour \in Nat /\ hour <= 99
      BY DEF twelveHour
<1> HIDE DEF hour
<1>5. WrittenOver(Specifiers(date, hour), Spoken)[8] = SpokenText(DayName(date), hour, HalfOfDay(date))
      BY <1>4, SpokenWritten
<1>6. toString(date, Spoken) = WrittenOver(Specifiers(date, hour), Spoken)[8]
      BY <1>1, <1>2, <1>3 DEF hour
<1> QED BY <1>5, <1>6 DEF hour

\* timestamp(): the letters that are read again.
TimeIsAt(text, j, date) ==
    /\ text[j + 1] = Two(date.hh)[1] /\ text[j + 2] = Two(date.hh)[2]
    /\ text[j + 4] = Two(date.mm)[1] /\ text[j + 5] = Two(date.mm)[2]
    /\ text[j + 7] = Two(date.ss)[1] /\ text[j + 8] = Two(date.ss)[2]
DayIsAt(text, date) ==
    /\ text[3] = Two(date.yOff)[1] /\ text[4] = Two(date.yOff)[2]
    /\ text[6] = Two(date.m)[1] /\ text[7] = Two(date.m)[2]
    /\ text[9] = Two(date.d)[1] /\ text[10] = Two(date.d)[2]
LEMMA OneText == ASSUME NEW c PROVE IsText(<<c>>, 1) /\ <<c>>[1] = c
BY DEF IsText

IsClock(u, a, b, c) ==
    /\ IsText(u, 8) /\ u[1] = a[1] /\ u[2] = a[2] /\ u[4] = b[1] /\ u[5] = b[2]
    /\ u[7] = c[1] /\ u[8] = c[2]
LEMMA Clocked ==
    ASSUME NEW a, NEW b, NEW c, NEW x, IsText(a, 2), IsText(b, 2), IsText(c, 2), IsText(x, 1)
    PROVE  IsClock(a \o x \o b \o x \o c, a, b, c)
<1> DEFINE p == a \o x
           q == p \o b
           r == q \o x
           u == r \o c
<1>0. 1 \in Nat /\ 2 \in Nat /\ 3 \in Nat /\ 5 \in Nat /\ 6 \in Nat
      OBVIOUS
<1>1. IsJoin(p, a, 2, x, 1)
      BY <1>0, PutTogether
<1> HIDE DEF p
<1>2. IsText(p, 3) /\ p[1] = a[1] /\ p[2] = a[2]
      BY <1>1 DEF IsJoin
<1>3. IsJoin(q, p, 3, b, 2)
      BY <1>0, <1>2, PutTogether
<1> HIDE DEF q
<1>4. IsText(q, 5) /\ q[1] = a[1] /\ q[2] = a[2] /\ q[4] = b[1] /\ q[5] = b[2]
      <2>1. 3 + 1 = 4 /\ 3 + 2 = 5
            OBVIOUS
      <2> QED BY <1>2, <1>3, <2>1 DEF IsJoin
<1>5. IsJoin(r, q, 5, x, 1)
      BY <1>0, <1>4, PutTogether
<1> HIDE DEF r
<1>6. IsText(r, 6) /\ r[1] = a[1] /\ r[2] = a[2] /\ r[4] = b[1] /\ r[5] = b[2]
      <2>1. 5 + 1 = 6
            OBVIOUS
      <2> QED BY <1>4, <1>5, <2>1 DEF IsJoin
<1>7. IsJoin(u, r, 6, c, 2)
      BY <1>0, <1>6, PutTogether
<1> HIDE DEF u
<1>8. /\ IsText(u, 8) /\ u[1] = a[1] /\ u[2] = a[2] /\ u[4] = b[1] /\ u[5] = b[2]
      /\ u[7] = c[1] /\ u[8] = c[2]
      <2>1. 6 + 1 = 7 /\ 6 + 2 = 8
            OBVIOUS
      <2> QED BY <1>6, <1>7, <2>1 DEF IsJoin
<1> QED BY <1>8 DEF u, r, q, p, IsClock

IsDay(u, a, b, c) ==
    /\ IsText(u, 10) /\ u[3] = a[1] /\ u[4] = a[2] /\ u[6] = b[1] /\ u[7] = b[2]
    /\ u[9] = c[1] /\ u[10] = c[2]
LEMMA Dated ==
    ASSUME NEW e, NEW a, NEW b, NEW c, NEW x,
           IsText(e, 2), IsText(a, 2), IsText(b, 2), IsText(c, 2), IsText(x, 1)
    PROVE  IsDay(e \o a \o x \o b \o x \o c, a, b, c)
<1> DEFINE o == e \o a
           p == o \o x
           q == p \o b
           r == q \o x
           u == r \o c
<1>0. 1 \in Nat /\ 2 \in Nat /\ 4 \in Nat /\ 5 \in Nat /\ 7 \in Nat /\ 8 \in Nat
      OBVIOUS
<1>1. IsJoin(o, e, 2, a, 2)
      BY <1>0, PutTogether
<1> HIDE DEF o
<1>2. IsText(o, 4) /\ o[3] = a[1] /\ o[4] = a[2]
      <2>1. 2 + 1 = 3 /\ 2 + 2 = 4
            OBVIOUS
      <2> QED BY <1>1, <2>1 DEF IsJoin
<1>3. IsJoin(p, o, 4, x, 1)
      BY <1>0, <1>2, PutTogether
<1> HIDE DEF p
<1>4. IsText(p, 5) /\ p[3] = a[1] /\ p[4] = a[2]
      <2>1. 4 + 1 = 5
            OBVIOUS
      <2> QED BY <1>2, <1>3, <2>1 DEF IsJoin
<1>5. IsJoin(q, p, 5, b, 2)
      BY <1>0, <1>4, PutTogether
<1> HIDE DEF q
<1>6. IsText(q, 7) /\ q[3] = a[1] /\ q[4] = a[2] /\ q[6] = b[1] /\ q[7] = b[2]
      <2>1. 5 + 1 = 6 /\ 5 + 2 = 7
            OBVIOUS
      <2> QED BY <1>4, <1>5, <2>1 DEF IsJoin
<1>7. IsJoin(r, q, 7, x, 1)
      BY <1>0, <1>6, PutTogether
<1> HIDE DEF r
<1>8. IsText(r, 8) /\ r[3] = a[1] /\ r[4] = a[2] /\ r[6] = b[1] /\ r[7] = b[2]
      <2>1. 7 + 1 = 8
            OBVIOUS
      <2> QED BY <1>6, <1>7, <2>1 DEF IsJoin
<1>9. IsJoin(u, r, 8, c, 2)
      BY <1>0, <1>8, PutTogether
<1> HIDE DEF u
<1>10. /\ IsText(u, 10) /\ u[3] = a[1] /\ u[4] = a[2] /\ u[6] = b[1] /\ u[7] = b[2]
       /\ u[9] = c[1] /\ u[10] = c[2]
       <2>1. 8 + 1 = 9 /\ 8 + 2 = 10
             OBVIOUS
       <2> QED BY <1>8, <1>9, <2>1 DEF IsJoin
<1> QED BY <1>10 DEF u, r, q, p, o, IsDay

LEMMA Stamped ==
    ASSUME NEW date, date.yOff \in Nat, date.yOff <= 99
    PROVE  /\ IsText(timestamp(date, "time"), 8) /\ TimeIsAt(timestamp(date, "time"), 0, date)
           /\ IsText(timestamp(date, "date"), 10) /\ DayIsAt(timestamp(date, "date"), date)
           /\ IsText(timestamp(date, "full"), 19) /\ DayIsAt(timestamp(date, "full"), date)
           /\ TimeIsAt(timestamp(date, "full"), 11, date)
<1> DEFINE e == Two(20 + (date.yOff \div 100))
           y == Two(date.yOff % 100)
           m == Two(date.m)
           d == Two(date.d)
           h == Two(date.hh)
           i == Two(date.mm)
           s == Two(date.ss)
           dash == <<"-">>
           colon == <<":">>
           day == e \o y \o dash \o m \o dash \o d
           time == h \o colon \o i \o colon \o s
           both == day \o <<"T">>
           full == both \o time
<1>1. timestamp(date, "time") = time /\ timestamp(date, "date") = day /\ timestamp(date, "full") = full
      <2> DEFINE opt1 == "time"
                 opt2 == "date"
                 opt3 == "full"
      <2>1. opt1 # opt2 /\ opt1 # opt3 /\ opt2 # opt3
            OBVIOUS
      <2> HIDE DEF day, time
      <2>2. \A opt : timestamp(date, opt) = CASE opt = opt1 -> time
                                              [] opt = opt2 -> day
                                              [] opt = opt3 -> day \o <<"T">> \o time
            BY DEF timestamp, day, time
      <2> HIDE DEF opt1, opt2, opt3
      <2>3. timestamp(date, opt1) = time /\ timestamp(date, opt2) = day /\ timestamp(date, opt3) = full
            BY ONLY <2>1, <2>2
      <2> QED BY <2>3 DEF opt1, opt2, opt3
<1>2. /\ IsText(e, 2) /\ IsText(y, 2) /\ IsText(m, 2) /\ IsText(d, 2) /\ IsText(h, 2)
      /\ IsText(i, 2) /\ IsText(s, 2) /\ IsText(dash, 1) /\ IsText(colon, 1)
      BY TwoIsText, OneText
<1> HIDE DEF e, y, m, d, h, i, s, dash, colon
<1>3. /\ IsText(day, 10) /\ day[3] = y[1] /\ day[4] = y[2] /\ day[6] = m[1] /\ day[7] = m[2]
      /\ day[9] = d[1] /\ day[10] = d[2]
      <2>1. IsDay(day, y, m, d)
            BY ONLY <1>2, Dated
      <2> HIDE DEF day
      <2> QED BY <2>1 DEF IsDay
<1>4. /\ IsText(time, 8) /\ time[1] = h[1] /\ time[2] = h[2] /\ time[4] = i[1] /\ time[5] = i[2]
      /\ time[7] = s[1] /\ time[8] = s[2]
      <2>1. IsClock(time, h, i, s)
            BY ONLY <1>2, Clocked
      <2> HIDE DEF time
      <2> QED BY <2>1 DEF IsClock
<1> HIDE DEF day, time
<1>5. IsJoin(both, day, 10, <<"T">>, 1)
      <2>1. 10 \in Nat /\ 1 \in Nat /\ IsText(<<"T">>, 1)
            BY OneText
      <2> QED BY <1>3, <2>1, PutTogether
<1> HIDE DEF both
<1>6. /\ IsText(both, 11) /\ both[3] = y[1] /\ both[4] = y[2] /\ both[6] = m[1] /\ both[7] = m[2]
      /\ both[9] = d[1] /\ both[10] = d[2]
      <2>1. 10 + 1 = 11
            OBVIOUS
      <2> QED BY <1>3, <1>5, <2>1 DEF IsJoin
<1>7. IsJoin(full, both, 11, time, 8)
      <2>1. 11 \in Nat /\ 8 \in Nat
            OBVIOUS
      <2> QED BY <1>4, <1>6, <2>1, PutTogether
<1> HIDE DEF full
<1>8. /\ IsText(full, 19) /\ full[3] = y[1] /\ full[4] = y[2] /\ full[6] = m[1] /\ full[7] = m[2]
      /\ full[9] = d[1] /\ full[10] = d[2] /\ full[11 + 1] = h[1] /\ full[11 + 2] = h[2]
      /\ full[11 + 4] = i[1] /\ full[11 + 5] = i[2] /\ full[11 + 7] = s[1] /\ full[11 + 8] = s[2]
      <2>1. 11 + 8 = 19
            OBVIOUS
      <2>2. IsText(full, 19)
            BY ONLY <1>7, <2>1 DEF IsJoin
      <2>3. \A k \in 1..11 : full[k] = both[k]
            BY ONLY <1>7 DEF IsJoin
      <2>4. \A k \in 1..8 : full[11 + k] = time[k]
            BY ONLY <1>7 DEF IsJoin
      <2>5. /\ 3 \in 1..11 /\ 4 \in 1..11 /\ 6 \in 1..11 /\ 7 \in 1..11 /\ 9 \in 1..11 /\ 10 \in 1..11
            /\ 1 \in 1..8 /\ 2 \in 1..8 /\ 4 \in 1..8 /\ 5 \in 1..8 /\ 7 \in 1..8 /\ 8 \in 1..8
            OBVIOUS
      <2> QED BY ONLY <1>4, <1>6, <2>2, <2>3, <2>4, <2>5
<1>9. TimeIsAt(time, 0, date)
      <2>1. 0 + 1 = 1 /\ 0 + 2 = 2 /\ 0 + 4 = 4 /\ 0 + 5 = 5 /\ 0 + 7 = 7 /\ 0 + 8 = 8
            OBVIOUS
      <2> QED BY <1>4, <2>1 DEF TimeIsAt, h, i, s
<1>10. TimeIsAt(full, 11, date)
      BY <1>8 DEF TimeIsAt, h, i, s
<1>11. DayIsAt(day, date) /\ DayIsAt(full, date)
       <2>1. y = Two(date.yOff)
             <3>1. date.yOff % 100 = date.yOff
                   OBVIOUS
             <3> QED BY <3>1 DEF y
       <2> QED BY <1>3, <1>8, <2>1 DEF DayIsAt, m, d
<1> QED BY <1>1, <1>3, <1>4, <1>8, <1>9, <1>10, <1>11

--------------------------------------------------------------------------------
\* The texts are read back as the dates that they were made of.
Usual(date) ==
    /\ date.yOff \in Nat /\ date.yOff <= 99 /\ date.m \in 1..12 /\ date.d \in Nat /\ date.d <= 99
    /\ date.hh \in Nat /\ date.hh <= 23 /\ date.mm \in Nat /\ date.mm <= 99
    /\ date.ss \in Nat /\ date.ss <= 99 /\ dayOfTheWeek(date) \in 0..6
LEMMA TimeIsRead ==
    ASSUME NEW date, Usual(date), NEW j \in Nat, NEW text, TimeIsAt(text, j, date)
    PROVE  /\ conv2d(text, j + 1) = date.hh /\ conv2d(text, j + 4) = date.mm
           /\ conv2d(text, j + 7) = date.ss
<1>1. /\ j + 1 \in Nat /\ j + 4 \in Nat /\ j + 7 \in Nat
      /\ (j + 1) + 1 = j + 2 /\ (j + 4) + 1 = j + 5 /\ (j + 7) + 1 = j + 8
      OBVIOUS
<1>2. /\ date.hh \in Nat /\ date.hh <= 99 /\ date.mm \in Nat /\ date.mm <= 99
      /\ date.ss \in Nat /\ date.ss <= 99
      BY DEF Usual
<1>3. conv2d(text, j + 1) = date.hh
      BY <1>1, <1>2, ReadsTwo DEF TimeIsAt
<1>4. conv2d(text, j + 4) = date.mm
      BY <1>1, <1>2, ReadsTwo DEF TimeIsAt
<1>5. conv2d(text, j + 7) = date.ss
      BY <1>1, <1>2, ReadsTwo DEF TimeIsAt
<1> QED BY <1>3, <1>4, <1>5

LEMMA DayIsRead ==
    ASSUME NEW date, Usual(date), NEW text, DayIsAt(text, date)
    PROVE  conv2d(text, 3) = date.yOff /\ conv2d(text, 6) = date.m /\ conv2d(text, 9) = date.d
<1>1. 3 \in Nat /\ 6 \in Nat /\ 9 \in Nat /\ 3 + 1 = 4 /\ 6 + 1 = 7 /\ 9 + 1 = 10
      OBVIOUS
<1>2. /\ date.yOff \in Nat /\ date.yOff <= 99 /\ date.m \in Nat /\ date.m <= 99
      /\ date.d \in Nat /\ date.d <= 99
      BY DEF Usual
<1>3. conv2d(text, 3) = date.yOff
      BY <1>1, <1>2, ReadsTwo DEF DayIsAt
<1>4. conv2d(text, 6) = date.m
      BY <1>1, <1>2, ReadsTwo DEF DayIsAt
<1>5. conv2d(text, 9) = date.d
      BY <1>1, <1>2, ReadsTwo DEF DayIsAt
<1> QED BY <1>3, <1>4, <1>5

LEMMA SameFields ==
    ASSUME NEW y, NEW m, NEW d, NEW h, NEW i, NEW s, NEW date,
           y = date.yOff, m = date.m, d = date.d, h = date.hh, i = date.mm, s = date.ss
    PROVE  SameDate(Date(y, m, d, h, i, s), date)
BY DEF SameDate, Fields, Date

NameBegins(text, m) ==
    text[1] = MonthNames[m][1] /\ text[2] = MonthNames[m][2] /\ text[3] = MonthNames[m][3]
LEMMA MonthTold ==
    ASSUME NEW m \in 1..12, NEW text, NameBegins(text, m)
    PROVE  MonthOf(text) = m
<1>1. m \in {1, 2, 3, 4, 5, 6, 7, 8, 9, 10, 11, 12}
      OBVIOUS
<1>2. CASE m = 1
      BY <1>2 DEF NameBegins, MonthNames, MonthOf
<1>3. CASE m = 2
      BY <1>3 DEF NameBegins, MonthNames, MonthOf
<1>4. CASE m = 3
      BY <1>4 DEF NameBegins, MonthNames, MonthOf
<1>5. CASE m = 4
      BY <1>5 DEF NameBegins, MonthNames, MonthOf
<1>6. CASE m = 5
      BY <1>6 DEF NameBegins, MonthNames, MonthOf
<1>7. CASE m = 6
      BY <1>7 DEF NameBegins, MonthNames, MonthOf
<1>8. CASE m = 7
      BY <1>8 DEF NameBegins, MonthNames, MonthOf
<1>9. CASE m = 8
      BY <1>9 DEF NameBegins, MonthNames, MonthOf
<1>10. CASE m = 9
      BY <1>10 DEF NameBegins, MonthNames, MonthOf
<1>11. CASE m = 10
      BY <1>11 DEF NameBegins, MonthNames, MonthOf
<1>12. CASE m = 11
      BY <1>12 DEF NameBegins, MonthNames, MonthOf
<1>13. CASE m = 12
      BY <1>13 DEF NameBegins, MonthNames, MonthOf
<1> QED BY ONLY <1>1, <1>2, <1>3, <1>4, <1>5, <1>6, <1>7, <1>8, <1>9, <1>10, <1>11, <1>12, <1>13

\* __DATE__: the name of the month, the day with its zero or a blank, the year.
BuildIsAt(text, date) ==
    /\ NameBegins(text, date.m) /\ text[6] = Two(date.d)[2]
    /\ text[5] = Two(date.d)[1] \/ (text[5] = SpaceChar /\ date.d <= 9)
    /\ text[10] = Two(date.yOff)[1] /\ text[11] = Two(date.yOff)[2]
LEMMA BuildIsRead ==
    ASSUME NEW date, Usual(date), NEW text, BuildIsAt(text, date), NEW time, TimeIsAt(time, 0, date)
    PROVE  SameDate(DateOfBuild(text, time), date)
<1>1. 5 \in Nat /\ 10 \in Nat /\ 5 + 1 = 6 /\ 10 + 1 = 11 /\ 0 \in Nat
      OBVIOUS
<1>2. /\ date.yOff \in Nat /\ date.yOff <= 99 /\ date.m \in 1..12
      /\ date.d \in Nat /\ date.d <= 99
      BY DEF Usual
<1>3. conv2d(text, 10) = date.yOff
      BY <1>1, <1>2, ReadsTwo DEF BuildIsAt
<1>4. conv2d(text, 5) = date.d
      <2>1. text[5] = Two(date.d)[1] \/ (text[5] = SpaceChar /\ date.d <= 9)
            BY DEF BuildIsAt
      <2>2. text[5 + 1] = Two(date.d)[2]
            BY <1>1 DEF BuildIsAt
      <2> QED BY <1>1, <1>2, <2>1, <2>2, ReadsTwo
<1>5. MonthOf(text) = date.m
      BY <1>2, MonthTold DEF BuildIsAt
<1>6. conv2d(time, 1) = date.hh /\ conv2d(time, 4) = date.mm /\ conv2d(time, 7) = date.ss
      <2>1. 0 + 1 = 1 /\ 0 + 4 = 4 /\ 0 + 7 = 7
            OBVIOUS
      <2>2. /\ conv2d(time, 0 + 1) = date.hh /\ conv2d(time, 0 + 4) = date.mm
            /\ conv2d(time, 0 + 7) = date.ss
            BY <1>1, TimeIsRead
      <2> QED BY ONLY <2>1, <2>2
<1> QED BY <1>3, <1>4, <1>5, <1>6, SameFields DEF DateOfBuild

LEMMA BuiltAndBlanked ==
    ASSUME NEW date, Usual(date)
    PROVE  LET text == DayText(date.yOff, date.m, date.d)
           IN  BuildIsAt(text, date) /\ BuildIsAt(Blanked(text), date)
<1> DEFINE text == DayText(date.yOff, date.m, date.d)
           blank == [text EXCEPT ![5] = SpaceChar]
           tens == Two(date.d)[1]
           name == MonthNames[date.m]
           units == Two(date.d)[2]
           y1 == Two(date.yOff)[1]
           y2 == Two(date.yOff)[2]
           n1 == name[1]
           n2 == name[2]
           n3 == name[3]
<1>1. text = <<n1, n2, n3, SpaceChar, tens, units, SpaceChar, "2", "0", y1, y2>>
      BY DEF DayText
<1> HIDE DEF text, tens, units, y1, y2, n1, n2, n3
<1>2. /\ DOMAIN text = 1..11 /\ text[1] = n1 /\ text[2] = n2 /\ text[3] = n3 /\ text[5] = tens
      /\ text[6] = units /\ text[10] = y1 /\ text[11] = y2
      BY <1>1
<1>3. BuildIsAt(text, date)
      BY <1>2 DEF BuildIsAt, NameBegins, tens, units, y1, y2, n1, n2, n3
<1>4. ASSUME text[5] = "0" PROVE date.d <= 9
      <2>1. /\ date.d \in Nat /\ date.d <= 99
            BY DEF Usual
      <2> DEFINE k == (date.d \div 10) + 1
      <2>2. k \in 1..10 /\ tens = Digits[k]
            BY <2>1, TwoIs DEF tens
      <2>3. k = 1
            <3> HIDE DEF k
            <3>1. Digits[k] = "0" /\ Digits[1] = "0"
                  BY ONLY <1>2, <1>4, <2>2, DigitsAre
            <3>2. 1 \in 1..10
                  OBVIOUS
            <3> QED BY <3>2, <2>2, <3>1, DigitAt
      <2>4. date.d \div 10 = 0
            BY <2>1, <2>3
      <2> QED BY <2>1, <2>4
<1>5. ASSUME text[5] = "0" PROVE BuildIsAt(blank, date)
      <2>1. /\ blank[1] = n1 /\ blank[2] = n2 /\ blank[3] = n3 /\ blank[6] = units
            /\ blank[10] = y1 /\ blank[11] = y2 /\ blank[5] = SpaceChar
            BY <1>2
      <2>2. date.d <= 9
            BY <1>4, <1>5
      <2> HIDE DEF blank
      <2> QED BY <2>1, <2>2 DEF BuildIsAt, NameBegins, units, y1, y2, n1, n2, n3
<1>6. Blanked(text) = IF text[5] = "0" THEN blank ELSE text
      BY DEF Blanked
<1>7. BuildIsAt(Blanked(text), date)
      <2> HIDE DEF blank
      <2> QED BY <1>3, <1>5, <1>6
<1> QED BY <1>3, <1>7 DEF text

\* ISO 8601, whole or the day alone.
Filled(text) == [i \in DOMAIN StartOf2000 |-> IF i <= Len(text) THEN text[i] ELSE StartOf2000[i]]
LEMMA IsoIsRead ==
    ASSUME NEW date, Usual(date), NEW text, DayIsAt(Filled(text), date),
           TimeIsAt(Filled(text), 11, date)
    PROVE  SameDate(DateOfIso(text), date)
<1> DEFINE ref == Filled(text)
<1>1. DateOfIso(text) = Date(conv2d(ref, 3), conv2d(ref, 6), conv2d(ref, 9),
                             conv2d(ref, 12), conv2d(ref, 15), conv2d(ref, 18))
      BY DEF DateOfIso, Filled
<1> HIDE DEF ref
<1>2. conv2d(ref, 3) = date.yOff /\ conv2d(ref, 6) = date.m /\ conv2d(ref, 9) = date.d
      BY DayIsRead DEF ref
<1>3. conv2d(ref, 12) = date.hh /\ conv2d(ref, 15) = date.mm /\ conv2d(ref, 18) = date.ss
      <2>1. 11 + 1 = 12 /\ 11 + 4 = 15 /\ 11 + 7 = 18 /\ 11 \in Nat
            OBVIOUS
      <2>2. /\ conv2d(ref, 11 + 1) = date.hh /\ conv2d(ref, 11 + 4) = date.mm
            /\ conv2d(ref, 11 + 7) = date.ss
            BY <2>1, TimeIsRead DEF ref
      <2> QED BY ONLY <2>1, <2>2
<1> QED BY <1>1, <1>2, <1>3, SameFields

LEMMA FilledIs ==
    ASSUME NEW n \in {10, 19}, NEW text, IsText(text, n)
    PROVE  /\ \A i \in 1..19 : i <= n => Filled(text)[i] = text[i]
           /\ \A i \in 1..19 : n < i => Filled(text)[i] = StartOf2000[i]
<1>1. Len(text) = n
      BY LenOfText
<1>2. DOMAIN StartOf2000 = 1..19
      BY DEF StartOf2000
<1> QED BY <1>1, <1>2 DEF Filled

LEMMA WholeIsRead ==
    ASSUME NEW date, Usual(date), NEW text, IsText(text, 19), DayIsAt(text, date),
           TimeIsAt(text, 11, date)
    PROVE  SameDate(DateOfIso(text), date)
<1> DEFINE f == Filled(text)
<1>1. \A i \in 1..19 : f[i] = text[i]
      <2>1. 19 \in {10, 19} /\ \A i \in 1..19 : i <= 19
            OBVIOUS
      <2> QED BY <2>1, FilledIs
<1> HIDE DEF f
<1>2. /\ f[3] = text[3] /\ f[4] = text[4] /\ f[6] = text[6] /\ f[7] = text[7] /\ f[9] = text[9]
      /\ f[10] = text[10] /\ f[11 + 1] = text[11 + 1] /\ f[11 + 2] = text[11 + 2]
      /\ f[11 + 4] = text[11 + 4] /\ f[11 + 5] = text[11 + 5] /\ f[11 + 7] = text[11 + 7]
      /\ f[11 + 8] = text[11 + 8]
      BY ONLY <1>1
<1>3. DayIsAt(f, date) /\ TimeIsAt(f, 11, date)
      BY <1>2 DEF DayIsAt, TimeIsAt
<1> QED BY <1>3, IsoIsRead DEF f

LEMMA DayAloneIsRead ==
    ASSUME NEW date, Usual(date), NEW text, IsText(text, 10), DayIsAt(text, date),
           NEW first, Usual(first), first.yOff = date.yOff, first.m = date.m, first.d = date.d,
           first.hh = 0, first.mm = 0, first.ss = 0
    PROVE  SameDate(DateOfIso(text), first)
<1> DEFINE f == Filled(text)
           z == StartOf2000
<1>1. /\ \A i \in 1..10 : f[i] = text[i]
      /\ \A i \in 11..19 : f[i] = z[i]
      <2>1. /\ 10 \in {10, 19} /\ \A i \in 1..10 : i \in 1..19 /\ i <= 10
            /\ \A i \in 11..19 : i \in 1..19 /\ 10 < i
            OBVIOUS
      <2> HIDE DEF z, f
      <2> QED BY <2>1, FilledIs DEF f, z
<1>2. Two(0)[1] = "0" /\ Two(0)[2] = "0"
      <2> DEFINE n == 0
      <2>1. n \in Nat /\ n <= 99 /\ (n \div 10) + 1 = 1 /\ (n % 10) + 1 = 1
            OBVIOUS
      <2> HIDE DEF n
      <2>2. Two(n)[1] = Digits[1] /\ Two(n)[2] = Digits[1]
            <3>1. Two(n)[1] = Digits[(n \div 10) + 1] /\ Two(n)[2] = Digits[(n % 10) + 1]
                  BY <2>1, TwoIs
            <3> QED BY ONLY <2>1, <3>1
      <2> QED BY <2>2, DigitsAre DEF n
<1>3. z[12] = "0" /\ z[13] = "0" /\ z[15] = "0" /\ z[16] = "0" /\ z[18] = "0" /\ z[19] = "0"
      BY DEF StartOf2000
<1> HIDE DEF f, z
<1>4. /\ f[3] = text[3] /\ f[4] = text[4] /\ f[6] = text[6] /\ f[7] = text[7] /\ f[9] = text[9]
      /\ f[10] = text[10]
      BY ONLY <1>1
<1>5. /\ f[12] = "0" /\ f[13] = "0" /\ f[15] = "0" /\ f[16] = "0" /\ f[18] = "0" /\ f[19] = "0"
      <2>1. /\ 12 \in 11..19 /\ 13 \in 11..19 /\ 15 \in 11..19 /\ 16 \in 11..19 /\ 18 \in 11..19
            /\ 19 \in 11..19
            OBVIOUS
      <2> QED BY ONLY <1>1, <1>3, <2>1
<1>6. DayIsAt(f, first)
      BY <1>4 DEF DayIsAt
<1>7. TimeIsAt(f, 11, first)
      <2>1. 11 + 1 = 12 /\ 11 + 2 = 13 /\ 11 + 4 = 15 /\ 11 + 5 = 16 /\ 11 + 7 = 18 /\ 11 + 8 = 19
            OBVIOUS
      <2> QED BY <1>2, <1>5, <2>1 DEF TimeIsAt
<1> QED BY <1>6, <1>7, IsoIsRead DEF f

\* What toString() and timestamp() write has its letters where they are read.
LEMMA PrintedIsRead ==
    ASSUME NEW date, Usual(date)
    PROVE  /\ TimeIsAt(TimeText(date.hh, date.mm, date.ss), 0, date)
           /\ LET text == IsoText(date.yOff, date.m, date.d, date.hh, date.mm, date.ss)
              IN  IsText(text, 19) /\ DayIsAt(text, date) /\ TimeIsAt(text, 11, date)
<1>1. TimeIsAt(TimeText(date.hh, date.mm, date.ss), 0, date)
      <2> DEFINE t == TimeText(date.hh, date.mm, date.ss)
                 h == Two(date.hh)
                 i == Two(date.mm)
                 s == Two(date.ss)
      <2>1. t = <<h[1], h[2], ":", i[1], i[2], ":", s[1], s[2]>>
            BY DEF TimeText
      <2> HIDE DEF t, h, i, s
      <2>2. t[1] = h[1] /\ t[2] = h[2] /\ t[4] = i[1] /\ t[5] = i[2] /\ t[7] = s[1] /\ t[8] = s[2]
            BY <2>1
      <2>3. 0 + 1 = 1 /\ 0 + 2 = 2 /\ 0 + 4 = 4 /\ 0 + 5 = 5 /\ 0 + 7 = 7 /\ 0 + 8 = 8
            OBVIOUS
      <2>4. TimeIsAt(t, 0, date)
            BY <2>2, <2>3 DEF TimeIsAt, h, i, s
      <2> QED BY <2>4 DEF t
<1> DEFINE t == IsoText(date.yOff, date.m, date.d, date.hh, date.mm, date.ss)
           y == Two(date.yOff)
           m == Two(date.m)
           d == Two(date.d)
           h == Two(date.hh)
           i == Two(date.mm)
           s == Two(date.ss)
<1>2. t = <<"2", "0", y[1], y[2], "-", m[1], m[2], "-", d[1], d[2], "T",
            h[1], h[2], ":", i[1], i[2], ":", s[1], s[2]>>
      BY DEF IsoText
<1> HIDE DEF t, y, m, d, h, i, s
<1>3. /\ t[3] = y[1] /\ t[4] = y[2] /\ t[6] = m[1] /\ t[7] = m[2] /\ t[9] = d[1] /\ t[10] = d[2]
      /\ t[12] = h[1] /\ t[13] = h[2] /\ t[15] = i[1] /\ t[16] = i[2] /\ t[18] = s[1] /\ t[19] = s[2]
      BY <1>2
<1>4. IsText(t, 19)
      BY <1>2 DEF IsText
<1>5. DayIsAt(t, date)
      BY <1>3 DEF DayIsAt, y, m, d
<1>6. TimeIsAt(t, 11, date)
      <2>1. 11 + 1 = 12 /\ 11 + 2 = 13 /\ 11 + 4 = 15 /\ 11 + 5 = 16 /\ 11 + 7 = 18 /\ 11 + 8 = 19
            OBVIOUS
      <2> QED BY <1>3, <2>1 DEF TimeIsAt, h, i, s
<1> QED BY <1>1, <1>4, <1>5, <1>6 DEF t

LEMMA SpokenIsRead ==
    ASSUME NEW date, Usual(date)
    PROVE  LET text == SpokenText(DayName(date), twelveHour(date.hh), HalfOfDay(date))
           IN  /\ SubSeq(text, 1, 3) = DayName(date)
               /\ conv2d(text, 5) \in 1..12
               /\ (conv2d(text, 5) % 12) + (IF text[8] = "P" THEN 12 ELSE 0) = date.hh
<1> DEFINE name == DayName(date)
           hour == twelveHour(date.hh)
           half == HalfOfDay(date)
           text == SpokenText(name, hour, half)
           t1 == Two(hour)[1]
           t2 == Two(hour)[2]
           n1 == name[1]
           n2 == name[2]
           n3 == name[3]
<1>1. date.hh \in Nat /\ date.hh <= 23 /\ dayOfTheWeek(date) \in 0..6
      BY DEF Usual
<1>2. name = <<n1, n2, n3>>
      <2> DEFINE k == dayOfTheWeek(date) + 1
      <2>1. k \in 1..7 /\ name = DayNames[k]
            BY <1>1 DEF DayName
      <2> HIDE DEF k, name
      <2> QED BY <2>1, DayNamesAre DEF NameIs
<1>3. /\ hour \in 1..12 /\ hour \in Nat /\ hour <= 99
      /\ (hour % 12) + (IF date.hh >= 12 THEN 12 ELSE 0) = date.hh
      <2> DEFINE h == date.hh
      <2> HIDE DEF h
      <2>1. h \in Nat /\ h <= 23 /\ hour = IF h \in {0, 12} THEN 12 ELSE IF h > 12 THEN h - 12 ELSE h
            BY <1>1 DEF twelveHour, h
      <2> HIDE DEF hour
      <2>2. hour \in 1..12 /\ hour \in Nat /\ hour <= 99
            BY <2>1
      <2>3. (hour % 12) + (IF h >= 12 THEN 12 ELSE 0) = h
            BY <2>1
      <2> QED BY <2>2, <2>3 DEF h
<1>4. half = "P" <=> date.hh >= 12
      BY DEF HalfOfDay, isPM
<1>5. text = <<n1, n2, n3, SpaceChar, t1, t2, SpaceChar, half, "M">>
      BY DEF SpokenText
<1> HIDE DEF text, half, name, hour, t1, t2, n1, n2, n3
<1>6. text[5] = t1 /\ text[6] = t2 /\ text[8] = half
      BY <1>5
<1>7. SubSeq(text, 1, 3) = <<n1, n2, n3>>
      <2> DEFINE S == {n1, n2, n3, SpaceChar, t1, t2, half, "M"}
                 first == SubSeq(text, 1, 3)
                 three == <<n1, n2, n3>>
      <2>1. text \in Seq(S) /\ Len(text) = 9 /\ text[1] = n1 /\ text[2] = n2 /\ text[3] = n3
            BY <1>5
      <2> HIDE DEF S
      <2>2. /\ first \in Seq(S) /\ Len(first) = 3
            /\ first[1] = text[1] /\ first[2] = text[2] /\ first[3] = text[3]
            <3> DEFINE a == 1
                       b == 3
            <3>1. a \in Int /\ b \in Int /\ a <= b /\ (b - a) + 1 = 3
                  OBVIOUS
            <3>2. ASSUME NEW i \in a..b PROVE text[i] \in S
                  <4>1. i = 1 \/ i = 2 \/ i = 3
                        OBVIOUS
                  <4>2. n1 \in S /\ n2 \in S /\ n3 \in S
                        BY DEF S
                  <4> QED BY ONLY <2>1, <4>1, <4>2
            <3>3. 1 \in 1..3 /\ 2 \in 1..3 /\ 3 \in 1..3
                  OBVIOUS
            <3> HIDE DEF a, b
            <3>4. /\ SubSeq(text, a, b) \in Seq(S) /\ Len(SubSeq(text, a, b)) = (b - a) + 1
                  /\ \A i \in 1..((b - a) + 1) : SubSeq(text, a, b)[i] = text[(a + i) - 1]
                  BY ONLY <3>1, <3>2, SubSeqProperties
            <3>5. /\ (a + 1) - 1 = 1 /\ (a + 2) - 1 = 2 /\ (a + 3) - 1 = 3
                  BY DEF a
            <3>6. first = SubSeq(text, a, b)
                  BY DEF a, b
            <3> QED BY ONLY <3>1, <3>3, <3>4, <3>5, <3>6
      <2>3. three \in Seq(S) /\ Len(three) = 3 /\ three[1] = n1 /\ three[2] = n2 /\ three[3] = n3
            BY DEF S
      <2> HIDE DEF first, three
      <2>4. \A i \in 1..3 : i = 1 \/ i = 2 \/ i = 3
            OBVIOUS
      <2>5. first = three
            BY <2>1, <2>2, <2>3, <2>4, SeqEqual
      <2> QED BY <2>5 DEF first, three
<1>8. conv2d(text, 5) = hour
      <2>1. 5 \in Nat /\ 5 + 1 = 6
            OBVIOUS
      <2> QED BY <1>3, <1>6, <2>1, ReadsTwo DEF t1, t2
<1>9. (hour % 12) + (IF half = "P" THEN 12 ELSE 0) = date.hh
      BY <1>3, <1>4
<1>10. /\ SubSeq(text, 1, 3) = name /\ conv2d(text, 5) \in 1..12
       /\ (conv2d(text, 5) % 12) + (IF text[8] = "P" THEN 12 ELSE 0) = date.hh
       <2>1. (conv2d(text, 5) % 12) + (IF text[8] = "P" THEN 12 ELSE 0) = date.hh
             BY ONLY <1>6, <1>8, <1>9
       <2> QED BY <1>2, <1>3, <1>7, <1>8, <2>1
<1> QED BY <1>10 DEF text, name, hour, half

LEMMA TextsKept ==
    ASSUME NEW date, Usual(date),
           NEW first, Usual(first), first.yOff = date.yOff, first.m = date.m, first.d = date.d,
           first.hh = 0, first.mm = 0, first.ss = 0, [date EXCEPT !.hh = 0, !.mm = 0, !.ss = 0] = first
    PROVE  TextsOf(date)
<1> DEFINE built == toString(date, BuildDay)
           time == toString(date, BuildTime)
           spoken == toString(date, Spoken)
           iso == toString(date, IsoFormat)
<1>1. /\ date.yOff \in Nat /\ date.yOff <= 99 /\ date.m \in 1..12 /\ date.m \in Nat /\ date.m <= 99
      /\ date.d \in Nat /\ date.d <= 99
      /\ date.hh \in Nat /\ date.hh <= 23 /\ date.hh <= 99 /\ date.mm \in Nat /\ date.mm <= 99
      /\ date.ss \in Nat /\ date.ss <= 99 /\ dayOfTheWeek(date) \in 0..6
      BY DEF Usual
<1>2. built = DayText(date.yOff, date.m, date.d)
      BY <1>1, DayPrinted
<1>3. time = TimeText(date.hh, date.mm, date.ss)
      BY <1>1, TimePrinted
<1>4. iso = IsoText(date.yOff, date.m, date.d, date.hh, date.mm, date.ss)
      BY <1>1, IsoPrinted
<1>5. spoken = SpokenText(DayName(date), twelveHour(date.hh), HalfOfDay(date))
      BY <1>1, SpokenPrinted
<1> HIDE DEF built, time, spoken, iso
<1>6. BuildIsAt(built, date) /\ BuildIsAt(Blanked(built), date)
      BY <1>2, BuiltAndBlanked
<1>7. TimeIsAt(time, 0, date)
      BY <1>3, PrintedIsRead
<1>8. /\ SameDate(DateOfBuild(built, time), date)
      /\ SameDate(DateOfBuild(Blanked(built), timestamp(date, "time")), date)
      BY <1>1, <1>6, <1>7, BuildIsRead, Stamped
<1>9. SameDate(DateOfIso(timestamp(date, "full")), date)
      BY <1>1, WholeIsRead, Stamped
<1>10. SameDate(DateOfIso(iso), date)
      <2>1. IsText(iso, 19) /\ DayIsAt(iso, date) /\ TimeIsAt(iso, 11, date)
            BY <1>4, PrintedIsRead
      <2> QED BY <2>1, WholeIsRead
<1>11. SameDate(DateOfIso(timestamp(date, "date")), first)
      BY <1>1, DayAloneIsRead, Stamped
<1>12. /\ SubSeq(spoken, 1, 3) = DayName(date)
       /\ conv2d(spoken, 5) \in 1..12
       /\ (conv2d(spoken, 5) % 12) + (IF spoken[8] = "P" THEN 12 ELSE 0) = date.hh
       BY <1>5, SpokenIsRead
<1> QED BY <1>8, <1>9, <1>10, <1>11, <1>12 DEF TextsOf, DayName, built, time, spoken, iso

LEMMA WalkTexts == WalkInv => TextsAgree
<1> SUFFICES ASSUME WalkInv PROVE TextsOf(dateTime)
    BY DEF TextsAgree
<1> DEFINE c == calendarDay
           s == Moments[moment]
           date == OnDay(c, s)
           first == OnDay(c, 0)
<1>1. c \in DaysOfCentury /\ s \in SecondsOfDay /\ dateTime = date
      BY MomentsAre DEF WalkInv
<1> HIDE DEF c, s
<1>2. ASSUME NEW t \in SecondsOfDay PROVE Usual(OnDay(c, t))
      <2> DEFINE D == OnDay(c, t)
                 f == Fields(D)
                 k == DayCount(c)
      <2>1. /\ f[1] \in 0..99 /\ f[2] \in 1..12 /\ f[3] \in 1..31 /\ f[4] \in 0..23
            /\ f[5] \in 0..59 /\ f[6] \in 0..59
            BY <1>1, <1>2, FieldsOfDate
      <2>2. k \in Nat /\ date2days(D) = k
            BY <1>1, <1>2, Calculated
      <2> HIDE DEF D, k
      <2>3. f[1] = D.yOff /\ f[2] = D.m /\ f[3] = D.d /\ f[4] = D.hh /\ f[5] = D.mm /\ f[6] = D.ss
            BY DEF Fields
      <2> HIDE DEF f
      <2>4. dayOfTheWeek(D) \in 0..6
            BY <2>2 DEF dayOfTheWeek
      <2>5. Usual(D)
            BY <2>1, <2>3, <2>4 DEF Usual
      <2> QED BY <2>5 DEF D
<1>3. Usual(date) /\ Usual(first)
      <2>1. 0 \in SecondsOfDay
            BY DEF SecondsOfDay, SecondsPerDay
      <2> QED BY <1>1, <1>2, <2>1
<1>4. /\ first = Date(c[1], c[2], c[3], 0, 0, 0)
      /\ \E h, i, j : date = Date(c[1], c[2], c[3], h, i, j)
      <2>1. 0 \div 3600 = 0 /\ (0 \div 60) % 60 = 0 /\ 0 % 60 = 0
            OBVIOUS
      <2>2. first = Date(c[1], c[2], c[3], 0 \div 3600, (0 \div 60) % 60, 0 % 60)
            BY DEF OnDay, DateAt
      <2>3. date = Date(c[1], c[2], c[3], s \div 3600, (s \div 60) % 60, s % 60)
            BY DEF OnDay, DateAt
      <2> HIDE DEF date
      <2>4. \E h, i, j : date = Date(c[1], c[2], c[3], h, i, j)
            BY <2>3
      <2>5. first = Date(c[1], c[2], c[3], 0, 0, 0)
            BY ONLY <2>1, <2>2
      <2> QED BY <2>4, <2>5
<1> HIDE DEF date, first
<1>5. /\ first.yOff = date.yOff /\ first.m = date.m /\ first.d = date.d
      /\ first.hh = 0 /\ first.mm = 0 /\ first.ss = 0
      BY <1>4 DEF Date
<1>6. [date EXCEPT !.hh = 0, !.mm = 0, !.ss = 0] = first
      <2> DEFINE y == c[1]
                 m == c[2]
                 d == c[3]
      <2>1. PICK h, i, j : date = Date(y, m, d, h, i, j)
            BY <1>4
      <2>2. first = Date(y, m, d, 0, 0, 0)
            BY <1>4
      <2> HIDE DEF y, m, d
      <2>3. [Date(y, m, d, h, i, j) EXCEPT !.hh = 0, !.mm = 0, !.ss = 0] = Date(y, m, d, 0, 0, 0)
            <3>1. \A r : [r EXCEPT !.hh = 0, !.mm = 0, !.ss = 0]
                          = [[[r EXCEPT !.hh = 0] EXCEPT !.mm = 0] EXCEPT !.ss = 0]
                  OBVIOUS
            <3>2. [Date(y, m, d, h, i, j) EXCEPT !.hh = 0] = Date(y, m, d, 0, i, j)
                  BY DEF Date
            <3>3. [Date(y, m, d, 0, i, j) EXCEPT !.mm = 0] = Date(y, m, d, 0, 0, j)
                  BY DEF Date
            <3>4. [Date(y, m, d, 0, 0, j) EXCEPT !.ss = 0] = Date(y, m, d, 0, 0, 0)
                  BY DEF Date
            <3> QED BY <3>1, <3>2, <3>3, <3>4
      <2> QED BY <2>1, <2>2, <2>3
<1>7. TextsOf(date)
      BY <1>3, <1>5, <1>6, TextsKept
<1> QED BY <1>1, <1>7

\* RTClib agrees with the calendar on every day of the walk, in its days, their
\* order, the bytes of the clock chip and the texts.
THEOREM CalendarKept == WalkSpec => []CalendarAgrees
<1>1. WalkInv => CalendarAgrees
      BY WalkCounts, WalkOrders, WalkStores, WalkTexts DEF CalendarAgrees
<1> QED BY WalkStarts, WalkGoesOn, <1>1, PTL DEF WalkSpec
================================================================================
