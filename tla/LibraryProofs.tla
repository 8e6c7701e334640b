------------------------------ MODULE LibraryProofs ------------------------------
(***************************************************************************)
(* Proofs about two of the libraries: Registry, for every number of        *)
(* registers, callbacks and addresses (no register is there twice, no      *)
(* callback waits for a register that is not there, and the two vectors    *)
(* behave as the map with handlers of RegisterMap), and CircularQueue, for *)
(* every size of the ring, number of producers and length of a block (the  *)
(* queues hand out what was accepted, in its order).                       *)
(***************************************************************************)
EXTENDS Registry, CircularQueue, FiniteSetTheorems, WellFoundedInduction, TLAPS

--------------------------------------------------------------------------------
(* Numbers, and a value that passes through functions.                      *)

LEMMA Smallest ==
    ASSUME NEW N \in SUBSET Nat, N # {}
    PROVE  \E m \in N : \A k \in N : ~ (k < m)
<1>1. PICK m \in N : \A k \in N : <<k, m>> \notin OpToRel(<, Nat)
      BY WFMin, NatLessThanWellFounded, Zenon
<1> QED BY <1>1, Zenon DEF OpToRel

LEMMA NatSet ==
    ASSUME NEW P \in SUBSET Nat, 0 \in P, \A n \in P : n + 1 \in P
    PROVE  \A n \in Nat : n \in P
<1> SUFFICES ASSUME NEW n \in Nat, n \notin P PROVE FALSE
      OBVIOUS
<1> DEFINE N == Nat \ P
<1>1. PICK m \in N : \A k \in N : ~ (k < m)
      BY Smallest
<1>2. m \in Nat /\ m \notin P /\ m # 0
      BY <1>1
<1>3. m - 1 \in Nat /\ m - 1 < m
      BY <1>2
<1>4. m - 1 \in P
      BY <1>1, <1>3
<1>5. (m - 1) + 1 \in P
      BY <1>4
<1> QED BY <1>2, <1>5

\* The recursion in Passed has a solution.
LEMMA PassedIsRecursive ==
    ASSUME NEW F, NEW v, Len(F) \in Nat
    PROVE  \E after : /\ after = [n \in 0..Len(F) |-> IF n = 0 THEN v ELSE F[n][after[n - 1]]]
                      /\ Passed(F, v) = after[Len(F)]
<1> DEFINE Is(f, m) == f = [n \in 0..m |-> IF n = 0 THEN v ELSE F[n][f[n - 1]]]
           P == {m \in Nat : \E f : Is(f, m)}
<1>1. 0 \in P
      <2>1. Is([n \in 0..0 |-> v], 0)
            OBVIOUS
      <2> HIDE DEF Is
      <2> QED BY <2>1
<1>2. ASSUME NEW m \in P PROVE m + 1 \in P
      <2>1. PICK f : Is(f, m)
            BY <1>2
      <2> DEFINE g == [n \in 0..m + 1 |-> IF n = m + 1 THEN F[m + 1][f[m]] ELSE f[n]]
      <2>2. g = [n \in 0..m + 1 |-> IF n = 0 THEN v ELSE F[n][g[n - 1]]]
            <3>1. ASSUME NEW n \in 0..m + 1
                  PROVE  g[n] = IF n = 0 THEN v ELSE F[n][g[n - 1]]
                  <4>1. CASE n = m + 1
                        BY <4>1
                  <4>2. CASE n # m + 1
                        <5>1. n \in 0..m /\ (n # 0 => n - 1 \in 0..m)
                              BY <4>2
                        <5>2. f[n] = IF n = 0 THEN v ELSE F[n][f[n - 1]]
                              BY <2>1, <5>1
                        <5> QED BY <4>2, <5>1, <5>2
                  <4> QED BY <4>1, <4>2
            <3> QED BY <3>1
      <2>3. m + 1 \in Nat
            OBVIOUS
      <2>4. Is(g, m + 1)
            BY <2>2
      <2> HIDE DEF Is, g
      <2> QED BY <2>3, <2>4
<1> HIDE DEF P
<1>3. P \in SUBSET Nat
      BY DEF P
<1>4. Len(F) \in P
      BY <1>1, <1>2, <1>3, NatSet
<1>5. \E f : Is(f, Len(F))
      BY <1>4 DEF P
<1> DEFINE after == CHOOSE f : Is(f, Len(F))
<1>6. Is(after, Len(F))
      <2> HIDE DEF Is
      <2> QED BY <1>5, Zenon
<1>7. Passed(F, v) = after[Len(F)]
      BY Zenon DEF Passed
<1> QED BY <1>6, <1>7
LEMMA PassedType ==
    ASSUME NEW S, NEW F, Len(F) \in Nat, \A n \in 1..Len(F) : F[n] \in [S -> S], NEW v \in S
    PROVE  Passed(F, v) \in S
<1>1. PICK after : /\ after = [n \in 0..Len(F) |-> IF n = 0 THEN v ELSE F[n][after[n - 1]]]
                   /\ Passed(F, v) = after[Len(F)]
      BY PassedIsRecursive
<1> DEFINE P == {n \in Nat : n <= Len(F) => after[n] \in S}
<1>2. 0 \in P
      <2>1. after[0] = v
            BY <1>1
      <2> QED BY <2>1
<1>3. ASSUME NEW n \in P PROVE n + 1 \in P
      <2> SUFFICES ASSUME n + 1 <= Len(F) PROVE after[n + 1] \in S
            OBVIOUS
      <2>1. n + 1 \in 0..Len(F) /\ n + 1 # 0 /\ (n + 1) - 1 = n /\ n + 1 \in 1..Len(F) /\ n <= Len(F)
            OBVIOUS
      <2>2. after[n + 1] = F[n + 1][after[n]]
            BY <1>1, <2>1
      <2>3. after[n] \in S
            BY <2>1
      <2> QED BY <2>1, <2>2, <2>3
<1> HIDE DEF P
<1>4. P \in SUBSET Nat
      BY DEF P
<1>5. Len(F) \in P
      BY <1>2, <1>3, <1>4, NatSet
<1> QED BY <1>1, <1>5 DEF P

--------------------------------------------------------------------------------
(* Positions in order.                                                      *)

Rank(P, i) == Cardinality({j \in P : j <= i})

LEMMA RankGrows ==
    ASSUME NEW N \in Nat, NEW P \in SUBSET (1..N)
    PROVE  /\ IsFiniteSet(P) /\ Cardinality(P) \in Nat /\ Cardinality(P) <= N
           /\ Cardinality(P) = N => P = 1..N
           /\ \A i \in P : Rank(P, i) \in 1..Cardinality(P)
           /\ \A i, j \in P : i < j => Rank(P, i) < Rank(P, j)
<1>1. IsFiniteSet(1..N) /\ Cardinality(1..N) = N
      BY FS_Interval
<1>2. /\ IsFiniteSet(P) /\ Cardinality(P) \in Nat /\ Cardinality(P) <= N
      /\ Cardinality(P) = N => P = 1..N
      BY <1>1, FS_Subset, FS_CardinalityType
<1>3. ASSUME NEW i \in P PROVE Rank(P, i) \in 1..Cardinality(P)
      <2> DEFINE S == {j \in P : j <= i}
      <2>1. IsFiniteSet(S) /\ Cardinality(S) \in Nat /\ Cardinality(S) <= Cardinality(P)
            BY <1>2, FS_Subset, FS_CardinalityType
      <2>2. S # {}
            OBVIOUS
      <2>3. Cardinality(S) # 0
            BY <2>1, <2>2, FS_EmptySet
      <2> QED BY <1>2, <2>1, <2>3 DEF Rank
<1>4. ASSUME NEW i \in P, NEW j \in P, i < j PROVE Rank(P, i) < Rank(P, j)
      <2> DEFINE S == {k \in P : k <= i}
                 T == {k \in P : k <= j}
      <2>1. IsFiniteSet(T) /\ IsFiniteSet(S)
            BY <1>2, FS_Subset
      <2>2. i \in Nat /\ j \in Nat /\ \A k \in P : k \in Nat
            OBVIOUS
      <2>7. /\ \A k \in P : k <= i => k <= j
            /\ j <= j /\ ~ (j <= i)
            BY <1>4, <2>2
      <2>6. S \in SUBSET T /\ j \in T /\ j \notin S
            BY <2>7
      <2>3. Cardinality(S) <= Cardinality(T) /\ (Cardinality(T) = Cardinality(S) => T = S)
            BY <2>1, <2>6, FS_Subset
      <2>4. Cardinality(S) \in Nat /\ Cardinality(T) \in Nat
            BY <2>1, FS_CardinalityType
      <2>5. T # S
            BY <2>6
      <2> QED BY <2>3, <2>4, <2>5 DEF Rank
<1> QED BY <1>2, <1>3, <1>4

LEMMA Placed ==
    ASSUME NEW N \in Nat, NEW P \in SUBSET (1..N)
    PROVE  /\ IsFiniteSet(P) /\ Cardinality(P) \in Nat /\ Cardinality(P) <= N
           /\ \A k \in 1..Cardinality(P) : Place(P, k) \in P /\ Rank(P, Place(P, k)) = k
           /\ \A i \in P : Rank(P, i) \in 1..Cardinality(P) /\ Place(P, Rank(P, i)) = i
           /\ \A j, k \in 1..Cardinality(P) : j < k => Place(P, j) < Place(P, k)
<1> DEFINE n == Cardinality(P)
           R == [i \in P |-> Rank(P, i)]
<1>1. /\ IsFiniteSet(P) /\ n \in Nat /\ n <= N
      /\ \A i \in P : Rank(P, i) \in 1..n
      /\ \A i, j \in P : i < j => Rank(P, i) < Rank(P, j)
      BY RankGrows
<1>2. \A i, j \in P : Rank(P, i) = Rank(P, j) => i = j
      <2> SUFFICES ASSUME NEW i \in P, NEW j \in P, Rank(P, i) = Rank(P, j) PROVE i = j
            OBVIOUS
      <2>1. i \in Nat /\ j \in Nat /\ Rank(P, i) \in Nat /\ Rank(P, j) \in Nat
            BY <1>1
      <2> QED BY <1>1, <2>1
<1>3. R \in Injection(P, 1..n)
      BY <1>1, <1>2 DEF Injection, IsInjective
<1>4. IsFiniteSet(1..n) /\ Cardinality(1..n) = n
      BY <1>1, FS_Interval
<1>5. R \in Surjection(P, 1..n)
      BY <1>3, <1>4, FS_Injection
<1>6. \A k \in 1..n : \E i \in P : Rank(P, i) = k
      BY <1>5 DEF Surjection
<1>7. \A k \in 1..n : Place(P, k) \in P /\ Rank(P, Place(P, k)) = k
      BY <1>6 DEF Place, Rank
<1>8. \A i \in P : Place(P, Rank(P, i)) = i
      BY <1>1, <1>2, <1>7
<1>9. ASSUME NEW j \in 1..n, NEW k \in 1..n, j < k PROVE Place(P, j) < Place(P, k)
      <2>1. /\ Place(P, j) \in P /\ Rank(P, Place(P, j)) = j
            /\ Place(P, k) \in P /\ Rank(P, Place(P, k)) = k
            BY <1>7
      <2>3. \A i \in P : i \in Nat
            OBVIOUS
      <2>2. Place(P, k) < Place(P, j) => k < j
            BY <1>1, <2>1
      <2>4. Place(P, k) \in Nat /\ Place(P, j) \in Nat
            BY <2>1, <2>3
      <2>5. Place(P, k) # Place(P, j) /\ ~ (k < j)
            BY <1>1, <2>1, <1>9
      <2> QED BY <2>2, <2>4, <2>5
<1> QED BY <1>1, <1>7, <1>8, <1>9

\* How many of P there are up to i.
LEMMA RankSteps ==
    ASSUME NEW n \in Nat, NEW P \in SUBSET (1..n)
    PROVE  /\ Rank(P, 0) = 0 /\ Rank(P, n) = Cardinality(P) /\ Cardinality(P) \in Nat
           /\ \A i \in 0..n : /\ Rank(P, i) \in 0..i
                              /\ Cardinality(P) - Rank(P, i) \in 0..n - i
           /\ \A i \in 1..n : Rank(P, i) = Rank(P, i - 1) + IF i \in P THEN 1 ELSE 0
<1>1. IsFiniteSet(P) /\ Cardinality(P) \in Nat /\ \A i \in P : i \in Nat /\ i >= 1 /\ i <= n
      BY Placed
<1>2. Rank(P, 0) = 0
      <2>1. \A j \in P : ~ (j <= 0)
            BY <1>1
      <2>2. {j \in P : j <= 0} = {}
            BY <2>1
      <2> QED BY <2>2, FS_EmptySet DEF Rank
<1>3. Rank(P, n) = Cardinality(P)
      <2>1. {j \in P : j <= n} = P
            BY <1>1
      <2> QED BY <2>1 DEF Rank
<1>4. ASSUME NEW i \in 0..n
      PROVE  Rank(P, i) \in 0..i /\ Cardinality(P) - Rank(P, i) \in 0..n - i
      <2> DEFINE S == {j \in P : j <= i}
                 T == P \ S
      <2>1. IsFiniteSet(1..i) /\ Cardinality(1..i) = i
            <3>1. 1 \in Int /\ i \in Int /\ i - 1 + 1 = i /\ (1 > i <=> i = 0)
                  OBVIOUS
            <3> QED BY <3>1, FS_Interval
      <2>2. S \subseteq 1..i
            <3>1. \A j \in P : j <= i => j \in 1..i
                  BY <1>1
            <3> QED BY <3>1
      <2>3. Cardinality(S) \in Nat /\ Cardinality(S) <= i
            BY <2>1, <2>2, FS_Subset, FS_CardinalityType
      <2>4. IsFiniteSet((i + 1)..n) /\ Cardinality((i + 1)..n) = n - i
            <3>1. /\ i + 1 \in Int /\ n \in Int /\ n - (i + 1) + 1 = n - i
                  /\ (i + 1 > n => n - i = 0)
                  OBVIOUS
            <3> QED BY <3>1, FS_Interval
      <2>5. T \subseteq (i + 1)..n
            <3>1. \A j \in P : ~ (j <= i) => j \in (i + 1)..n
                  BY <1>1
            <3> QED BY <3>1
      <2>6. Cardinality(T) \in Nat /\ Cardinality(T) <= n - i
            BY <2>4, <2>5, FS_Subset, FS_CardinalityType
      <2>7. Cardinality(T) = Cardinality(P) - Cardinality(S)
            <3>1. P \cap S = S
                  OBVIOUS
            <3> HIDE DEF S
            <3> QED BY <1>1, <3>1, FS_Difference
      <2>8. Cardinality(S) = Rank(P, i)
            BY DEF Rank
      <2> QED BY <1>1, <2>3, <2>6, <2>7, <2>8
<1>5. ASSUME NEW i \in 1..n PROVE Rank(P, i) = Rank(P, i - 1) + IF i \in P THEN 1 ELSE 0
      <2> DEFINE S == {j \in P : j <= i - 1}
                 T == {j \in P : j <= i}
      <2>1. /\ \A j \in P : j <= i <=> (j <= i - 1 \/ j = i)
            /\ ~ (i <= i - 1) /\ i <= i
            BY <1>1
      <2>2. IsFiniteSet(S) /\ Cardinality(S) \in Nat
            BY <1>1, FS_Subset, FS_CardinalityType
      <2>3. i \in P => T = S \cup {i} /\ i \notin S
            BY <2>1
      <2>4. i \notin P => T = S
            BY <2>1
      <2>5. Rank(P, i) = Cardinality(T) /\ Rank(P, i - 1) = Cardinality(S)
            BY DEF Rank
      <2> HIDE DEF S, T
      <2>6. i \in P => Cardinality(T) = Cardinality(S) + 1
            BY <2>2, <2>3, FS_AddElement
      <2> QED BY <2>2, <2>4, <2>5, <2>6
<1> QED BY <1>1, <1>2, <1>3, <1>4, <1>5

LEMMA ThoseAre ==
    ASSUME NEW S, NEW s \in Seq(S), NEW P \in SUBSET DOMAIN s
    PROVE  /\ Those(s, P) \in Seq(S)
           /\ Len(Those(s, P)) = Cardinality(P) /\ DOMAIN Those(s, P) = 1..Cardinality(P)
           /\ Cardinality(P) \in Nat /\ Cardinality(P) <= Len(s)
           /\ \A k \in 1..Cardinality(P) : Place(P, k) \in P /\ Those(s, P)[k] = s[Place(P, k)]
           /\ \A i \in P : Rank(P, i) \in 1..Cardinality(P) /\ Place(P, Rank(P, i)) = i
           /\ \A j, k \in 1..Cardinality(P) : j < k => Place(P, j) < Place(P, k)
<1>1. Len(s) \in Nat /\ P \in SUBSET (1..Len(s))
      OBVIOUS
<1>2. /\ Cardinality(P) \in Nat /\ Cardinality(P) <= Len(s)
      /\ \A k \in 1..Cardinality(P) : Place(P, k) \in P
      /\ \A i \in P : Rank(P, i) \in 1..Cardinality(P) /\ Place(P, Rank(P, i)) = i
      /\ \A j, k \in 1..Cardinality(P) : j < k => Place(P, j) < Place(P, k)
      BY <1>1, Placed
<1>3. \A k \in 1..Cardinality(P) : s[Place(P, k)] \in S
      BY <1>1, <1>2
<1>4. Those(s, P) = [k \in 1..Cardinality(P) |-> s[Place(P, k)]]
      BY DEF Those
<1>5. Those(s, P) \in [1..Cardinality(P) -> S]
      BY <1>3, <1>4
<1>6. Those(s, P) \in Seq(S) /\ Len(Those(s, P)) = Cardinality(P)
      BY <1>2, <1>5
<1> QED BY <1>2, <1>4, <1>6

\* A sequence behind another, and the front of one.
LEMMA Joined ==
    ASSUME NEW S, NEW s \in Seq(S), NEW t \in Seq(S)
    PROVE  /\ s \o t \in Seq(S) /\ Len(s \o t) = Len(s) + Len(t)
           /\ Len(s) \in Nat /\ Len(t) \in Nat
           /\ \A i \in 1..Len(s) : i \in 1..Len(s) + Len(t) /\ (s \o t)[i] = s[i]
           /\ \A k \in 1..Len(t) : /\ Len(s) + k \in 1..Len(s) + Len(t)
                                    /\ (s \o t)[Len(s) + k] = t[k]
           /\ \A i \in 1..Len(s) + Len(t) : i \in 1..Len(s) \/ \E k \in 1..Len(t) : i = Len(s) + k
<1>1. Len(s) \in Nat /\ Len(t) \in Nat
      OBVIOUS
<1>2. ASSUME NEW i \in 1..Len(s) + Len(t), i \notin 1..Len(s)
      PROVE  \E k \in 1..Len(t) : i = Len(s) + k
      <2>1. i - Len(s) \in 1..Len(t) /\ i = Len(s) + (i - Len(s))
            BY <1>1, <1>2
      <2> QED BY <2>1
<1>3. s \o t \in Seq(S) /\ Len(s \o t) = Len(s) + Len(t)
      OBVIOUS
<1>4. \A i \in 1..Len(s) : i \in 1..Len(s) + Len(t) /\ (s \o t)[i] = s[i]
      BY <1>1
<1>5. \A k \in 1..Len(t) : /\ Len(s) + k \in 1..Len(s) + Len(t)
                           /\ (s \o t)[Len(s) + k] = t[k]
      BY <1>1
<1> QED BY <1>1, <1>2, <1>3, <1>4, <1>5

LEMMA Front ==
    ASSUME NEW S, NEW s \in Seq(S), NEW m \in 0..Len(s)
    PROVE  /\ m \in Nat /\ SubSeq(s, 1, m) \in Seq(S) /\ Len(SubSeq(s, 1, m)) = m
           /\ \A k \in 1..m : k \in 1..Len(s) /\ SubSeq(s, 1, m)[k] = s[k]
<1>1. m \in Nat /\ Len(s) \in Nat /\ m <= Len(s)
      OBVIOUS
<1>2. SubSeq(s, 1, m) \in Seq(S) /\ Len(SubSeq(s, 1, m)) = m
      BY <1>1
<1>3. \A k \in 1..m : k \in 1..Len(s) /\ SubSeq(s, 1, m)[k] = s[k]
      BY <1>1
<1> QED BY <1>1, <1>2, <1>3

LEMMA FrontIs ==
    ASSUME NEW S, NEW s \in Seq(S), NEW m \in 0..Len(s)
    PROVE  SubSeq(s, 1, m) = [k \in 1..m |-> s[k]]
<1>1. SubSeq(s, 1, m) \in Seq(S) /\ Len(SubSeq(s, 1, m)) = m
      BY Front
<1>2. \A k \in 1..m : SubSeq(s, 1, m)[k] = s[k]
      BY Front
<1>3. SubSeq(s, 1, m) = [k \in 1..m |-> SubSeq(s, 1, m)[k]]
      BY <1>1
<1> QED BY <1>2, <1>3

--------------------------------------------------------------------------------
(* The two vectors.                                                         *)

Entries == [address : Addresses, value : Values]
Attached == [type : {"get", "set"}, address : Addresses, cb : Callbacks]

Vectors ==
    /\ regs \in Seq(Entries) /\ Len(regs) <= MaxRegs
    /\ callbacks \in Seq(Attached)

IInv == Vectors /\ NoDoubleNoOrphan

LEMMA Search ==
    ASSUME Vectors, NEW a
    PROVE  /\ Exists(a) <=> a \in Registered
           /\ a \in Registered => /\ SearchRegister(a) \in DOMAIN regs
                                  /\ regs[SearchRegister(a)].address = a
<1> DEFINE H == {i \in DOMAIN regs : regs[i].address = a}
           First(i) == /\ regs[i].address = a
                       /\ \A j \in 1..i - 1 : regs[j].address # a
<1>1. DOMAIN regs = 1..Len(regs) /\ Len(regs) \in Nat
      BY DEF Vectors
<1>2. a \in Registered <=> H # {}
      BY DEF Registered
<1>3. CASE a \notin Registered
      <2>1. SearchRegister(a) = 0
            BY <1>2, <1>3 DEF SearchRegister
      <2> QED BY <1>3, <2>1 DEF Exists
<1>4. CASE a \in Registered
      <2>1. PICK m \in H : \A k \in H : ~ (k < m)
            <3>1. H \in SUBSET Nat /\ H # {}
                  BY <1>1, <1>2, <1>4
            <3> HIDE DEF H
            <3> QED BY <3>1, Smallest
      <2>2. m \in DOMAIN regs /\ First(m)
            BY <1>1, <2>1
      <2>3. SearchRegister(a) = CHOOSE i \in DOMAIN regs : First(i)
            BY <1>2, <1>4 DEF SearchRegister
      <2> HIDE DEF First
      <2>4. SearchRegister(a) \in DOMAIN regs /\ First(SearchRegister(a))
            BY <2>2, <2>3, Zenon
      <2>5. SearchRegister(a) # 0
            BY <1>1, <2>4
      <2> QED BY <1>4, <2>4, <2>5 DEF First, Exists
<1> QED BY <1>3, <1>4

LEMMA Assumed ==
    /\ Top \in Nat /\ MaxRegs \in Nat /\ MaxCount \in Nat /\ MaxCount <= Top
    /\ 0 \in Values /\ Callbacks \subseteq [Values -> Values]
    /\ \A t : Held(t) \subseteq Values
    /\ \A n \in Count : n \in Nat /\ 1 <= n /\ n <= Top
BY RegistryAssumption DEF Values, Held, Count

LEMMA Remainders ==
    ASSUME NEW n \in Nat \ {0}, NEW x \in Nat
    PROVE  /\ x % n \in 0..n - 1
           /\ x < n => x % n = x
           /\ n <= x /\ x < n + n => x % n = x - n
OBVIOUS

LEMMA PlusIs ==
    ASSUME NEW a \in Addresses, NEW i \in Nat
    PROVE  /\ Plus(a, i) \in Addresses
           /\ Plus(a, i).type = a.type /\ Plus(a, i).address = (a.address + i) % (Top + 1)
           /\ a.address + i <= Top => Plus(a, i).address = a.address + i
<1>1. a = [type |-> a.type, address |-> a.address] /\ a.type \in Types /\ a.address \in 0..Top
      BY DEF Addresses
<1>2. Top + 1 \in Nat \ {0} /\ a.address + i \in Nat
      BY <1>1, Assumed
<1>3. /\ (a.address + i) % (Top + 1) \in 0..Top
      /\ a.address + i <= Top => (a.address + i) % (Top + 1) = a.address + i
      <2> DEFINE n == Top + 1
                 x == a.address + i
      <2>1. n \in Nat \ {0} /\ x \in Nat /\ 0..n - 1 = 0..Top /\ (x <= Top => x < n)
            BY <1>2, Assumed
      <2>2. x % n \in 0..Top /\ (x <= Top => x % n = x)
            <3> HIDE DEF n, x
            <3> QED BY <2>1, Remainders
      <2> QED BY <2>2
<1>4. Plus(a, i) = [type |-> a.type, address |-> (a.address + i) % (Top + 1)]
      BY <1>1 DEF Plus
<1> QED BY <1>1, <1>3, <1>4 DEF Addresses

LEMMA ClippedIs ==
    ASSUME NEW a \in Addresses, NEW n \in Nat
    PROVE  /\ Clipped(a, n) \in Nat /\ Clipped(a, n) <= n /\ a.address + Clipped(a, n) <= Top
           /\ \A i \in 1..Clipped(a, n) :
                 /\ Plus(a, i - 1) \in Addresses /\ Plus(a, i - 1).address < Top
                 /\ Plus(a, i - 1).address = a.address + i - 1
<1>1. a.address \in 0..Top
      BY DEF Addresses
<1>2. Clipped(a, n) \in Nat /\ Clipped(a, n) <= n /\ a.address + Clipped(a, n) <= Top
      BY <1>1, Assumed DEF Clipped
<1>3. ASSUME NEW i \in 1..Clipped(a, n)
      PROVE  /\ Plus(a, i - 1) \in Addresses /\ Plus(a, i - 1).address < Top
             /\ Plus(a, i - 1).address = a.address + i - 1
      <2>1. i - 1 \in Nat /\ a.address + (i - 1) <= Top /\ a.address + (i - 1) < Top
            BY <1>1, <1>2, Assumed
      <2> QED BY <1>1, <2>1, PlusIs
<1> QED BY <1>2, <1>3

LEMMA SameVectors ==
    ASSUME IInv, UNCHANGED <<regs, callbacks>>
    PROVE  IInv'
BY DEF IInv, Vectors, NoDoubleNoOrphan, Registered

\* The registers that are there stay where they are.
Longer == \A i \in DOMAIN regs : i \in DOMAIN regs' /\ regs'[i] = regs[i]

\* Registers behind those that are there: none of them is there yet, and no two are
\* at one address.
LEMMA MoreRegisters ==
    ASSUME IInv, NEW t \in Seq(Entries), Len(regs) + Len(t) <= MaxRegs,
           \A k \in 1..Len(t) : t[k].address \notin Registered /\ t[k].address.address < Top,
           \A j, k \in 1..Len(t) : t[j].address = t[k].address => j = k,
           regs' = regs \o t, UNCHANGED callbacks
    PROVE  IInv' /\ Longer
<1> DEFINE n == Len(regs)
           m == Len(t)
<1>1. /\ regs' \in Seq(Entries) /\ Len(regs') = n + m /\ n \in Nat /\ m \in Nat
      /\ \A i \in 1..n : i \in 1..n + m /\ regs'[i] = regs[i]
      /\ \A k \in 1..m : n + k \in 1..n + m /\ regs'[n + k] = t[k]
      /\ \A i \in 1..n + m : i \in 1..n \/ \E k \in 1..m : i = n + k
      BY Joined DEF IInv, Vectors
<1>2. regs \in Seq(Entries) /\ DOMAIN regs = 1..n /\ DOMAIN regs' = 1..n + m
      BY <1>1 DEF IInv, Vectors
<1>3. \A i \in 1..n : regs[i].address \in Registered /\ regs[i].address.address < Top
      BY <1>2 DEF IInv, NoDoubleNoOrphan, Registered
<1>4. \A i, j \in 1..n : regs[i].address = regs[j].address => i = j
      BY <1>2 DEF IInv, NoDoubleNoOrphan
<1> HIDE DEF n, m
<1>5. ASSUME NEW i \in 1..n + m, NEW j \in 1..n + m, regs'[i].address = regs'[j].address
      PROVE  i = j
      <2>1. CASE i \in 1..n /\ j \in 1..n
            BY <1>1, <1>4, <1>5, <2>1
      <2>2. CASE i \in 1..n /\ \E k \in 1..m : j = n + k
            BY <1>1, <1>3, <1>5, <2>2 DEF m
      <2>3. CASE j \in 1..n /\ \E k \in 1..m : i = n + k
            BY <1>1, <1>3, <1>5, <2>3 DEF m
      <2>4. CASE (\E k \in 1..m : i = n + k) /\ \E k \in 1..m : j = n + k
            <3>1. PICK k \in 1..m : i = n + k
                  BY <2>4
            <3>2. PICK l \in 1..m : j = n + l
                  BY <2>4
            <3>3. t[k].address = t[l].address
                  BY <1>1, <1>5, <3>1, <3>2
            <3>4. k = l
                  BY <3>3 DEF m
            <3> QED BY <3>1, <3>2, <3>4
      <2> QED BY <1>1, <2>1, <2>2, <2>3, <2>4
<1>6. \A i \in 1..n + m : regs'[i].address.address < Top
      BY <1>1, <1>3 DEF m
<1>7. Registered \subseteq Registered'
      <2> SUFFICES ASSUME NEW i \in 1..n PROVE regs[i].address \in Registered'
            BY <1>2 DEF Registered
      <2>1. i \in DOMAIN regs' /\ regs'[i] = regs[i]
            BY <1>1, <1>2
      <2> QED BY <2>1 DEF Registered
<1>8. Vectors'
      BY <1>1 DEF IInv, Vectors, n, m
<1>9. Longer
      BY <1>1, <1>2 DEF Longer
<1> QED BY <1>2, <1>5, <1>6, <1>7, <1>8, <1>9 DEF IInv, NoDoubleNoOrphan

LEMMA MissingIs ==
    ASSUME IInv, NEW new \in Seq(Entries)
    PROVE  /\ Missing(new) \in Seq(Entries)
           /\ Len(Missing(new)) \in Nat /\ Len(Missing(new)) <= Len(new)
<1> DEFINE P == {i \in DOMAIN new : ~ Exists(new[i].address)}
<1>1. P \in SUBSET DOMAIN new /\ Missing(new) = Those(new, P)
      BY DEF Missing
<1> HIDE DEF P
<1> QED BY <1>1, ThoseAre

\* addReg: whatever number of the missing registers is added.
LEMMA AddedKeeps ==
    ASSUME IInv, NEW new \in Seq(Entries),
           \A i \in DOMAIN new : new[i].address.address < Top,
           \A i, j \in DOMAIN new : new[i].address = new[j].address => i = j,
           NEW m \in 0..Len(Missing(new)), Len(regs) + m <= MaxRegs,
           regs' = regs \o SubSeq(Missing(new), 1, m), UNCHANGED callbacks
    PROVE  IInv' /\ Longer
<1> DEFINE P == {i \in DOMAIN new : ~ Exists(new[i].address)}
           missing == Missing(new)
           t == SubSeq(missing, 1, m)
<1>1. P \in SUBSET DOMAIN new /\ missing = Those(new, P) /\ \A i \in P : i \in Nat
      BY DEF Missing
<1>2. \A i \in P : new[i].address \notin Registered
      BY Search DEF IInv
<1>3. /\ missing \in Seq(Entries) /\ Len(missing) = Cardinality(P)
      /\ \A k \in 1..Cardinality(P) : Place(P, k) \in P /\ missing[k] = new[Place(P, k)]
      /\ \A j, k \in 1..Cardinality(P) : j < k => Place(P, j) < Place(P, k)
      <2> HIDE DEF P, missing
      <2> QED BY <1>1, ThoseAre
<1>4. m \in Nat /\ m <= Len(missing)
      BY <1>3
<1> HIDE DEF P, missing
<1>5. /\ t \in Seq(Entries) /\ Len(t) = m
      /\ \A k \in 1..m : k \in 1..Cardinality(P) /\ t[k] = missing[k]
      BY <1>3, <1>4, Front
<1>6. \A k \in 1..m : k \in Nat /\ Place(P, k) \in P /\ t[k] = new[Place(P, k)]
      BY <1>3, <1>5
<1>7. \A k \in 1..m : t[k].address \notin Registered /\ t[k].address.address < Top
      BY <1>1, <1>2, <1>6
<1>8. ASSUME NEW j \in 1..m, NEW k \in 1..m, t[j].address = t[k].address
      PROVE  j = k
      <2>1. Place(P, j) = Place(P, k)
            BY <1>1, <1>6, <1>8
      <2>2. Place(P, j) \in Nat /\ ~ (Place(P, j) < Place(P, j))
            BY <1>1, <1>6
      <2>3. ~ (j < k) /\ ~ (k < j)
            BY <1>3, <1>5, <2>1, <2>2
      <2> QED BY <1>6, <2>3
<1>9. regs' = regs \o t
      BY DEF missing
<1> HIDE DEF t
<1> QED BY <1>5, <1>7, <1>8, <1>9, MoreRegisters

\* removeReg and removeOn: what is left is there once, and as it was.
LEMMA FewerRegisters ==
    ASSUME IInv, NEW P \in SUBSET DOMAIN regs, regs' = Those(regs, P)
    PROVE  /\ regs' \in Seq(Entries) /\ Len(regs') <= MaxRegs
           /\ \A i, j \in DOMAIN regs' : regs'[i].address = regs'[j].address => i = j
           /\ \A i \in DOMAIN regs' : regs'[i].address.address < Top
           /\ \A k \in DOMAIN regs' : \E i \in DOMAIN regs : regs'[k] = regs[i]
           /\ Registered' = {regs[i].address : i \in P}
<1>1. regs \in Seq(Entries) /\ Len(regs) \in Nat /\ Len(regs) <= MaxRegs /\ \A i \in P : i \in Nat
      BY DEF IInv, Vectors
<1>2. /\ regs' \in Seq(Entries) /\ Len(regs') = Cardinality(P)
      /\ DOMAIN regs' = 1..Cardinality(P)
      /\ Cardinality(P) \in Nat /\ Cardinality(P) <= Len(regs)
      /\ \A k \in 1..Cardinality(P) : Place(P, k) \in P /\ regs'[k] = regs[Place(P, k)]
      /\ \A i \in P : Rank(P, i) \in 1..Cardinality(P) /\ Place(P, Rank(P, i)) = i
      /\ \A j, k \in 1..Cardinality(P) : j < k => Place(P, j) < Place(P, k)
      BY <1>1, ThoseAre
<1>3. Len(regs') <= MaxRegs
      BY <1>1, <1>2, Assumed
<1>4. \A i \in P : i \in DOMAIN regs
      OBVIOUS
<1>5. \A k \in DOMAIN regs' : regs'[k].address.address < Top
      BY <1>2, <1>4 DEF IInv, NoDoubleNoOrphan
<1>6. ASSUME NEW j \in DOMAIN regs', NEW k \in DOMAIN regs', regs'[j].address = regs'[k].address
      PROVE  j = k
      <2>1. Place(P, j) = Place(P, k)
            BY <1>2, <1>4, <1>6 DEF IInv, NoDoubleNoOrphan
      <2>2. Place(P, j) \in Nat /\ ~ (Place(P, j) < Place(P, j))
            BY <1>1, <1>2
      <2>3. ~ (j < k) /\ ~ (k < j) /\ j \in Nat /\ k \in Nat
            BY <1>2, <2>1, <2>2
      <2> QED BY <2>3
<1>7. Registered' = {regs[i].address : i \in P}
      <2>1. Registered' = {regs'[k].address : k \in 1..Cardinality(P)}
            BY <1>2 DEF Registered
      <2>2. \A k \in 1..Cardinality(P) : Place(P, k) \in P /\ regs'[k].address = regs[Place(P, k)].address
            BY <1>2
      <2>3. \A i \in P : \E k \in 1..Cardinality(P) : regs'[k].address = regs[i].address
            BY <1>2
      <2> QED BY <2>1, <2>2, <2>3
<1>8. \A k \in DOMAIN regs' : \E i \in DOMAIN regs : regs'[k] = regs[i]
      BY <1>2, <1>4
<1> QED BY <1>2, <1>3, <1>5, <1>6, <1>7, <1>8

LEMMA FewerCallbacks ==
    ASSUME IInv, NEW Q \in SUBSET DOMAIN callbacks, callbacks' = Those(callbacks, Q)
    PROVE  /\ callbacks' \in Seq(Attached)
           /\ \A k \in DOMAIN callbacks' : \E q \in Q : callbacks'[k] = callbacks[q]
<1>1. callbacks \in Seq(Attached)
      BY DEF IInv, Vectors
<1>2. /\ callbacks' \in Seq(Attached)
      /\ DOMAIN callbacks' = 1..Cardinality(Q)
      /\ \A k \in 1..Cardinality(Q) : Place(Q, k) \in Q /\ callbacks'[k] = callbacks[Place(Q, k)]
      BY <1>1, ThoseAre
<1> QED BY <1>2

\* onGet and onSet: callbacks behind those that are there.
LEMMA MoreCallbacks ==
    ASSUME IInv, NEW t \in Seq(Attached), \A k \in DOMAIN t : t[k].address \in Registered,
           callbacks' = callbacks \o t, UNCHANGED regs
    PROVE  IInv'
<1> DEFINE n == Len(callbacks)
           m == Len(t)
<1>1. callbacks \in Seq(Attached) /\ DOMAIN callbacks = 1..n /\ DOMAIN t = 1..m
      BY DEF IInv, Vectors
<1>2. /\ callbacks' \in Seq(Attached) /\ Len(callbacks') = n + m
      /\ \A i \in 1..n : callbacks'[i] = callbacks[i]
      /\ \A k \in 1..m : callbacks'[n + k] = t[k]
      /\ \A i \in 1..n + m : i \in 1..n \/ \E k \in 1..m : i = n + k
      BY <1>1, Joined
<1>3. DOMAIN callbacks' = 1..n + m
      BY <1>2
<1>4. \A i \in 1..n : callbacks[i].address \in Registered
      BY <1>1 DEF IInv, NoDoubleNoOrphan
<1> HIDE DEF n, m
<1>5. \A i \in 1..n + m : callbacks'[i].address \in Registered
      <2>1. \A k \in 1..m : t[k].address \in Registered
            BY <1>1
      <2> QED BY <1>2, <1>4, <2>1
<1>6. Registered' = Registered
      BY DEF Registered
<1> QED BY <1>2, <1>3, <1>5, <1>6 DEF IInv, Vectors, NoDoubleNoOrphan

--------------------------------------------------------------------------------
(* The calls.                                                               *)

LEMMA StartKeeps == ASSUME Init PROVE IInv
BY Assumed DEF Init, IInv, Vectors, NoDoubleNoOrphan, Registered

LEMMA AddRegKeeps ==
    ASSUME IInv, NEW a \in Addresses, NEW v \in Values, NEW n \in Nat, AddReg(a, v, n)
    PROVE  IInv' /\ Longer
<1> DEFINE new == [i \in 1..Clipped(a, n) |-> [address |-> Plus(a, i - 1), value |-> v]]
           missing == Missing(new)
<1>1. CASE Len(regs) + n > MaxRegs
      BY <1>1, SameVectors DEF AddReg, Longer
<1>2. CASE ~ (Len(regs) + n > MaxRegs)
      <2>1. regs' = regs \o missing /\ UNCHANGED callbacks
            BY <1>2 DEF AddReg
      <2>2. /\ Clipped(a, n) \in Nat /\ Clipped(a, n) <= n
            /\ \A i \in 1..Clipped(a, n) :
                  /\ Plus(a, i - 1) \in Addresses /\ Plus(a, i - 1).address < Top
                  /\ Plus(a, i - 1).address = a.address + i - 1
            BY ClippedIs
      <2>3. new \in Seq(Entries) /\ DOMAIN new = 1..Clipped(a, n)
            <3>1. \A i \in 1..Clipped(a, n) : [address |-> Plus(a, i - 1), value |-> v] \in Entries
                  BY <2>2 DEF Entries
            <3> QED BY <2>2, <3>1
      <2>4. \A i \in DOMAIN new : new[i].address.address < Top /\ new[i].address.address = a.address + i - 1
            BY <2>2
      <2>5. \A i, j \in DOMAIN new : new[i].address = new[j].address => i = j
            BY <2>2, <2>3, <2>4 DEF Addresses
      <2>6. Len(missing) \in Nat /\ Len(missing) <= n /\ missing \in Seq(Entries)
            <3>1. Len(new) = Clipped(a, n)
                  BY <2>2
            <3> HIDE DEF new
            <3> QED BY <2>2, <2>3, <3>1, MissingIs
      <2>7. missing = SubSeq(missing, 1, Len(missing)) /\ Len(missing) \in 0..Len(missing)
            <3> HIDE DEF missing
            <3> QED BY <2>6
      <2>8. Len(regs) \in Nat /\ Len(regs) + Len(missing) <= MaxRegs
            BY <1>2, <2>6, Assumed DEF IInv, Vectors
      <2>9. /\ regs' = regs \o SubSeq(Missing(new), 1, Len(missing))
            /\ Len(missing) \in 0..Len(Missing(new))
            BY <2>1, <2>7
      <2> HIDE DEF new, missing
      <2> QED BY <2>1, <2>3, <2>4, <2>5, <2>8, <2>9, AddedKeeps
<1> QED BY <1>1, <1>2

LEMMA AddRegsKeeps ==
    ASSUME IInv, NEW a \in Addresses, NEW n \in Nat, NEW values \in [1..n -> Values],
           AddRegs(a, values)
    PROVE  IInv' /\ Longer
<1> DEFINE c == Clipped(a, n)
           new == [i \in 1..c |-> [address |-> Plus(a, i - 1), value |-> values[i]]]
           missing == Missing(new)
           room == IF MaxRegs > Len(regs) THEN MaxRegs - Len(regs) ELSE 0
           m == IF room < Len(missing) THEN room ELSE Len(missing)
<1>1. Len(values) = n
      OBVIOUS
<1>2. regs' = regs \o SubSeq(missing, 1, m) /\ UNCHANGED callbacks
      BY <1>1 DEF AddRegs
<1>3. /\ c \in Nat /\ c <= n
      /\ \A i \in 1..c :
            /\ Plus(a, i - 1) \in Addresses /\ Plus(a, i - 1).address < Top
            /\ Plus(a, i - 1).address = a.address + i - 1
      BY ClippedIs
<1>4. new \in Seq(Entries) /\ DOMAIN new = 1..c
      <2>1. \A i \in 1..c : [address |-> Plus(a, i - 1), value |-> values[i]] \in Entries
            BY <1>3 DEF Entries
      <2> QED BY <1>3, <2>1
<1>5. \A i \in DOMAIN new : new[i].address.address < Top /\ new[i].address.address = a.address + i - 1
      BY <1>3
<1>6. \A i, j \in DOMAIN new : new[i].address = new[j].address => i = j
      BY <1>3, <1>4, <1>5 DEF Addresses
<1>7. Len(missing) \in Nat
      <2> HIDE DEF new
      <2> QED BY <1>4, MissingIs
<1>8. Len(regs) \in Nat /\ Len(regs) <= MaxRegs
      BY DEF IInv, Vectors
<1>9. m \in 0..Len(missing) /\ Len(regs) + m <= MaxRegs
      <2> HIDE DEF missing
      <2> QED BY <1>7, <1>8, Assumed
<1>10. regs' = regs \o SubSeq(Missing(new), 1, m) /\ m \in 0..Len(Missing(new))
      BY <1>2, <1>9
<1> HIDE DEF new, missing, m
<1> QED BY <1>2, <1>4, <1>5, <1>6, <1>9, <1>10, AddedKeeps

\* A value that goes through callbacks stays one a register can hold.
LEMMA PassedOn ==
    ASSUME Vectors, NEW a, NEW v \in Values, NEW t
    PROVE  Callback(a, v, t) \in Values
<1> DEFINE P == Found(t, a)
<1>1. P \in SUBSET DOMAIN callbacks /\ callbacks \in Seq(Attached)
      BY DEF Found, Vectors
<1>2. /\ Cardinality(P) \in Nat /\ Those(callbacks, P) \in Seq(Attached)
      /\ DOMAIN Those(callbacks, P) = 1..Cardinality(P)
      <2> HIDE DEF P
      <2> QED BY <1>1, ThoseAre
<1>3. CbsAt(P) = [k \in 1..Cardinality(P) |-> Those(callbacks, P)[k].cb]
      BY DEF CbsAt
<1>4. \A k \in 1..Cardinality(P) : Those(callbacks, P)[k].cb \in [Values -> Values]
      <2> HIDE DEF P
      <2>1. \A k \in 1..Cardinality(P) : Those(callbacks, P)[k] \in Attached
            BY <1>2
      <2>2. \A x \in Attached : x.cb \in Callbacks
            BY DEF Attached
      <2> QED BY <2>1, <2>2, Assumed
<1> HIDE DEF P
<1>5. Len(CbsAt(P)) \in Nat /\ Len(CbsAt(P)) = Cardinality(P)
      BY <1>2, <1>3
<1>6. \A k \in 1..Len(CbsAt(P)) : CbsAt(P)[k] \in [Values -> Values]
      BY <1>3, <1>4, <1>5
<1>7. Passed(CbsAt(P), v) \in Values
      BY <1>5, <1>6, PassedType
<1> QED BY <1>7 DEF P, Callback

LEMMA SetRegKeeps ==
    ASSUME IInv, NEW a \in Addresses, NEW v \in Values, SetReg(a, v)
    PROVE  IInv'
<1> DEFINE r == SearchRegister(a)
           w == IF cbEnabled THEN Callback(a, v, "set") ELSE v
<1>1. CASE ~ Exists(a)
      BY <1>1, SameVectors DEF SetReg
<1>2. CASE Exists(a)
      <2>1. r \in DOMAIN regs
            BY <1>2, Search DEF IInv
      <2>2. w \in Values
            BY PassedOn DEF IInv
      <2>3. regs' = [regs EXCEPT ![r].value = w] /\ UNCHANGED callbacks
            BY <1>2 DEF SetReg
      <2> HIDE DEF r, w
      <2>4. regs \in Seq(Entries) /\ Len(regs) \in Nat /\ DOMAIN regs = 1..Len(regs)
            BY DEF IInv, Vectors
      <2>5. regs[r] \in Entries
            BY <2>1, <2>4
      <2>6. /\ [regs[r] EXCEPT !.value = w] \in Entries
            /\ [regs[r] EXCEPT !.value = w].address = regs[r].address
            BY <2>2, <2>5 DEF Entries
      <2>7. /\ regs' \in Seq(Entries) /\ Len(regs') = Len(regs) /\ DOMAIN regs' = DOMAIN regs
            /\ \A i \in DOMAIN regs : regs'[i].address = regs[i].address
            BY <2>1, <2>3, <2>4, <2>6
      <2>8. Registered' = Registered
            BY <2>7 DEF Registered
      <2> QED BY <2>3, <2>7, <2>8 DEF IInv, Vectors, NoDoubleNoOrphan
<1> QED BY <1>1, <1>2

LEMMA RemoveOnKeeps ==
    ASSUME IInv, NEW a \in Addresses, NEW t, NEW cb, NEW n, RemoveOn(t, a, cb, n)
    PROVE  IInv'
<1> DEFINE S == Named(a, n)
           Q == {i \in DOMAIN callbacks :
                   ~ (callbacks[i].type = t /\ callbacks[i].address \in S /\ cb = None)}
<1>1. callbacks' = Those(callbacks, Q) /\ UNCHANGED regs /\ Q \in SUBSET DOMAIN callbacks
      BY DEF RemoveOn, Without
<1> HIDE DEF Q
<1>2. /\ callbacks' \in Seq(Attached)
      /\ \A k \in DOMAIN callbacks' : \E q \in Q : callbacks'[k] = callbacks[q]
      BY <1>1, FewerCallbacks
<1>3. Registered' = Registered
      BY <1>1 DEF Registered
<1>4. \A k \in DOMAIN callbacks' : callbacks'[k].address \in Registered
      BY <1>1, <1>2 DEF IInv, NoDoubleNoOrphan
<1> QED BY <1>1, <1>2, <1>3, <1>4 DEF IInv, Vectors, NoDoubleNoOrphan

LEMMA RemoveRegKeeps ==
    ASSUME IInv, NEW a \in Addresses, NEW n, RemoveReg(a, n)
    PROVE  IInv'
<1> DEFINE gone == {x \in Named(a, Clipped(a, n)) : Exists(x)}
           P == {i \in DOMAIN regs : regs[i].address \notin gone}
           Q == {i \in DOMAIN callbacks : callbacks[i].address \notin gone}
<1>1. regs' = Those(regs, P) /\ callbacks' = Those(callbacks, Q)
      BY DEF RemoveReg
<1>2. P \in SUBSET DOMAIN regs /\ Q \in SUBSET DOMAIN callbacks
      OBVIOUS
<1>3. \A q \in Q : \E i \in P : callbacks[q].address = regs[i].address
      BY DEF IInv, NoDoubleNoOrphan, Registered
<1> HIDE DEF P, Q
<1>4. /\ callbacks' \in Seq(Attached)
      /\ \A k \in DOMAIN callbacks' : \E q \in Q : callbacks'[k] = callbacks[q]
      BY <1>1, <1>2, FewerCallbacks
<1>5. /\ regs' \in Seq(Entries) /\ Len(regs') <= MaxRegs
      /\ \A i, j \in DOMAIN regs' : regs'[i].address = regs'[j].address => i = j
      /\ \A i \in DOMAIN regs' : regs'[i].address.address < Top
      /\ Registered' = {regs[i].address : i \in P}
      BY <1>1, <1>2, FewerRegisters
<1>6. \A k \in DOMAIN callbacks' : callbacks'[k].address \in Registered'
      BY <1>3, <1>4, <1>5
<1> QED BY <1>4, <1>5, <1>6 DEF IInv, Vectors, NoDoubleNoOrphan

LEMMA AttachKeeps ==
    ASSUME IInv, NEW a \in Addresses, NEW t \in {"get", "set"}, NEW cb \in Callbacks,
           NEW n \in Nat, Attach(t, a, cb, n)
    PROVE  IInv'
<1> DEFINE all == [i \in 1..n |-> [type |-> t, address |-> Plus(a, i - 1), cb |-> cb]]
           P == {i \in 1..n : Exists(Plus(a, i - 1))}
           new == Those(all, P)
<1>1. callbacks' = callbacks \o new /\ UNCHANGED regs
      BY DEF Attach
<1>2. all \in Seq(Attached) /\ DOMAIN all = 1..n /\ P \in SUBSET DOMAIN all
      <2>1. \A i \in 1..n : i - 1 \in Nat
            OBVIOUS
      <2>2. \A i \in 1..n : [type |-> t, address |-> Plus(a, i - 1), cb |-> cb] \in Attached
            BY <2>1, PlusIs DEF Attached
      <2> QED BY <2>2
<1>3. \A i \in P : all[i].address \in Registered
      BY Search DEF IInv
<1> HIDE DEF all, P
<1>4. /\ new \in Seq(Attached) /\ DOMAIN new = 1..Cardinality(P)
      /\ \A k \in 1..Cardinality(P) : Place(P, k) \in P /\ new[k] = all[Place(P, k)]
      BY <1>2, ThoseAre
<1>5. \A k \in DOMAIN new : new[k].address \in Registered
      BY <1>3, <1>4
<1> HIDE DEF new
<1> QED BY <1>1, <1>4, <1>5, MoreCallbacks

LEMMA StepKeeps == ASSUME IInv, [Next]_vars PROVE IInv'
<1>1. CASE Add
      BY <1>1, AddRegKeeps, Assumed DEF Add
<1>2. CASE AddArray
      <2>1. PICK a \in Addresses, n \in Count : \E values \in [1..n -> Held(a.type)] : AddRegs(a, values)
            BY <1>2 DEF AddArray
      <2>2. PICK values \in [1..n -> Held(a.type)] : AddRegs(a, values)
            BY <2>1
      <2>3. values \in [1..n -> Values] /\ n \in Nat
            BY Assumed
      <2> QED BY <2>2, <2>3, AddRegsKeeps
<1>3. CASE Write
      BY <1>3, SetRegKeeps, Assumed DEF Write
<1>4. CASE ReadOne
      BY <1>4, SameVectors DEF ReadOne, GetReg
<1>5. CASE Withdraw
      BY <1>5, RemoveRegKeeps DEF Withdraw
<1>6. CASE Getter
      <2>1. PICK a \in Addresses, cb \in Optional, n \in Count : OnGet(a, cb, n)
            BY <1>6 DEF Getter
      <2> QED BY <2>1, RemoveOnKeeps, AttachKeeps, Assumed DEF OnGet, Optional
<1>7. CASE Setter
      <2>1. PICK a \in Addresses, cb \in Optional, n \in Count : OnSet(a, cb, n)
            BY <1>7 DEF Setter
      <2> QED BY <2>1, RemoveOnKeeps, AttachKeeps, Assumed DEF OnSet, Optional
<1>8. CASE RemoveGetter \/ RemoveSetter
      BY <1>8, RemoveOnKeeps DEF RemoveGetter, RemoveSetter
<1>9. CASE Enable
      BY <1>9, SameVectors DEF Enable, CbEnable
<1>10. CASE UNCHANGED vars
      BY <1>10, SameVectors DEF vars
<1> QED BY <1>1, <1>2, <1>3, <1>4, <1>5, <1>6, <1>7, <1>8, <1>9, <1>10 DEF Next

(* addReg, removeReg, onGet, onSet, removeOn: whatever an application calls  *)
(* and in whatever order, no register is there twice, none is at the highest *)
(* address, and no callback waits for a register that is not there.          *)
THEOREM NoneTwiceNoneOrphaned == Spec => []NoDoubleNoOrphan
<1>1. Init => IInv
      BY StartKeeps
<1>2. IInv /\ [Next]_vars => IInv'
      BY StepKeeps
<1>3. IInv => NoDoubleNoOrphan
      BY DEF IInv
<1> QED BY <1>1, <1>2, <1>3, PTL DEF Spec

--------------------------------------------------------------------------------
(* Positions again: of a part of what is left, and with one more behind.    *)

LEMMA RankOfPlace ==
    ASSUME NEW S, NEW s \in Seq(S), NEW P \in SUBSET DOMAIN s, NEW k \in 1..Cardinality(P)
    PROVE  Rank(P, Place(P, k)) = k
<1> DEFINE N == Len(s)
<1>1. N \in Nat /\ P \in SUBSET (1..N)
      OBVIOUS
<1> HIDE DEF N
<1> QED BY <1>1, Placed

PartOf(Q, P) == {k \in 1..Cardinality(Q) : Place(Q, k) \in P}

LEMMA PlacesOfAPart ==
    ASSUME NEW N \in Nat, NEW Q \in SUBSET (1..N), NEW P \in SUBSET Q
    PROVE  /\ Cardinality(PartOf(Q, P)) = Cardinality(P)
           /\ \A k \in 1..Cardinality(P) : /\ Place(PartOf(Q, P), k) \in PartOf(Q, P)
                                           /\ Place(Q, Place(PartOf(Q, P), k)) = Place(P, k)
<1> DEFINE n == Cardinality(Q)
           R == PartOf(Q, P)
<1>1. /\ n \in Nat /\ IsFiniteSet(Q)
      /\ \A k \in 1..n : Place(Q, k) \in Q /\ Rank(Q, Place(Q, k)) = k
      /\ \A i \in Q : Rank(Q, i) \in 1..n /\ Place(Q, Rank(Q, i)) = i
      /\ \A j, k \in 1..n : j < k => Place(Q, j) < Place(Q, k)
      BY Placed
<1>2. /\ P \in SUBSET (1..N) /\ R \in SUBSET (1..n)
      /\ R = {k \in 1..n : Place(Q, k) \in P}
      BY DEF PartOf
<1> HIDE DEF R
<1>3. /\ IsFiniteSet(P) /\ Cardinality(P) \in Nat
      /\ \A k \in 1..Cardinality(P) : Place(P, k) \in P /\ Rank(P, Place(P, k)) = k
      /\ \A i \in P : Rank(P, i) \in 1..Cardinality(P)
      BY <1>2, Placed
<1>4. /\ IsFiniteSet(R) /\ Cardinality(R) \in Nat
      /\ \A i \in R : Rank(R, i) \in 1..Cardinality(R) /\ Place(R, Rank(R, i)) = i
      <2>1. n \in Nat
            BY <1>1
      <2> HIDE DEF n
      <2> QED BY <1>2, <2>1, Placed
<1>5. \A i \in P : i \in Q /\ i \in Nat /\ Rank(Q, i) \in R /\ Place(Q, Rank(Q, i)) = i
      BY <1>1, <1>2
<1>6. \A k \in R : k \in 1..n /\ k \in Nat /\ Place(Q, k) \in P /\ Rank(Q, Place(Q, k)) = k
      BY <1>1, <1>2
<1> DEFINE f == [i \in P |-> Rank(Q, i)]
<1>7. f \in Bijection(P, R)
      BY <1>5, <1>6 DEF Bijection, Injection, Surjection, IsInjective
<1>8. Cardinality(R) = Cardinality(P)
      <2> HIDE DEF f
      <2> QED BY <1>3, <1>7, FS_Bijection DEF ExistsBijection
<1>9. ASSUME NEW i \in P PROVE Rank(R, Rank(Q, i)) = Rank(P, i)
      <2> DEFINE S == {j \in P : j <= i}
                 T == {k \in R : k <= Rank(Q, i)}
                 g == [j \in S |-> Rank(Q, j)]
      <2>1. IsFiniteSet(S)
            BY <1>3, FS_Subset
      <2>2. ASSUME NEW j \in P PROVE j <= i <=> Rank(Q, j) <= Rank(Q, i)
            <3>1. /\ i \in Nat /\ j \in Nat /\ Rank(Q, i) \in 1..n /\ Rank(Q, j) \in 1..n
                  /\ Place(Q, Rank(Q, i)) = i /\ Place(Q, Rank(Q, j)) = j
                  BY <1>5, <1>6
            <3>2. /\ Rank(Q, i) < Rank(Q, j) => i < j
                  /\ Rank(Q, j) < Rank(Q, i) => j < i
                  BY <1>1, <3>1
            <3>3. Rank(Q, i) \in Nat /\ Rank(Q, j) \in Nat
                  BY <1>1, <3>1
            <3>4. Rank(Q, i) = Rank(Q, j) => i = j
                  BY <3>1
            <3> QED BY <3>1, <3>2, <3>3, <3>4
      <2>3. \A j \in S : Rank(Q, j) \in T /\ Place(Q, Rank(Q, j)) = j
            BY <1>5, <2>2
      <2>4. \A k \in T : Place(Q, k) \in S /\ Rank(Q, Place(Q, k)) = k
            BY <1>6, <2>2
      <2>5. g \in Bijection(S, T)
            BY <2>3, <2>4 DEF Bijection, Injection, Surjection, IsInjective
      <2>6. Cardinality(T) = Cardinality(S)
            <3> HIDE DEF S, T, g
            <3> QED BY <2>1, <2>5, FS_Bijection DEF ExistsBijection
      <2> QED BY <2>6 DEF Rank
<1>10. ASSUME NEW k \in 1..Cardinality(P)
       PROVE  Place(R, k) \in R /\ Place(Q, Place(R, k)) = Place(P, k)
      <2> DEFINE i == Place(P, k)
      <2>1. i \in P /\ Rank(P, i) = k
            BY <1>3
      <2> HIDE DEF i
      <2>2. Rank(R, Rank(Q, i)) = k /\ Rank(Q, i) \in R
            BY <1>5, <1>9, <2>1
      <2>3. Place(R, k) = Rank(Q, i)
            BY <1>4, <2>2
      <2> QED BY <1>5, <2>1, <2>2, <2>3 DEF i
<1> QED BY <1>8, <1>10 DEF R

LEMMA PlacesWithOneMore ==
    ASSUME NEW N \in Nat, NEW P \in SUBSET (1..N), NEW m \in Nat, N < m
    PROVE  /\ Cardinality(P) \in Nat /\ Cardinality(P \cup {m}) = Cardinality(P) + 1
           /\ \A k \in 1..Cardinality(P) : Place(P \cup {m}, k) = Place(P, k) /\ Place(P, k) \in P
           /\ Place(P \cup {m}, Cardinality(P) + 1) = m
<1> DEFINE R == P \cup {m}
<1>1. /\ IsFiniteSet(P) /\ Cardinality(P) \in Nat
      /\ \A k \in 1..Cardinality(P) : Place(P, k) \in P /\ Rank(P, Place(P, k)) = k
      BY Placed
<1>2. \A i \in P : i \in Nat /\ i < m /\ ~ (m <= i)
      OBVIOUS
<1>3. R \in SUBSET (1..m) /\ m \notin P
      BY <1>2
<1>4. Cardinality(R) = Cardinality(P) + 1
      BY <1>1, <1>3, FS_AddElement
<1>5. \A i \in R : Place(R, Rank(R, i)) = i
      BY <1>3, Placed
<1>6. \A i \in P : Rank(R, i) = Rank(P, i) /\ i \in R
      <2> SUFFICES ASSUME NEW i \in P PROVE {j \in R : j <= i} = {j \in P : j <= i}
            BY DEF Rank
      <2> QED BY <1>2
<1>7. Rank(R, m) = Cardinality(R) /\ m \in R
      <2>1. m <= m /\ \A i \in P : i <= m
            BY <1>2
      <2>2. {j \in R : j <= m} = R
            BY <2>1
      <2> QED BY <2>2 DEF Rank
<1>8. ASSUME NEW k \in 1..Cardinality(P) PROVE Place(R, k) = Place(P, k) /\ Place(P, k) \in P
      <2>1. Place(P, k) \in P /\ Rank(P, Place(P, k)) = k
            BY <1>1
      <2> QED BY <1>5, <1>6, <2>1
<1>9. Place(R, Cardinality(P) + 1) = m
      BY <1>4, <1>5, <1>7
<1> QED BY <1>1, <1>4, <1>8, <1>9

--------------------------------------------------------------------------------
(* The map and the lists that two vectors stand for, whatever these are.    *)

FirstAt(s, a) == IF \E i \in DOMAIN s : s[i].address = a
                 THEN CHOOSE i \in DOMAIN s :
                        /\ s[i].address = a
                        /\ \A j \in 1..i - 1 : s[j].address # a
                 ELSE 0
AddressesOf(s) == {s[i].address : i \in DOMAIN s}
MapOf(s) == [a \in AddressesOf(s) |-> s[FirstAt(s, a)].value]

EntriesAt(c, t, a) == {i \in DOMAIN c : c[i].type = t /\ c[i].address = a}
CbsOf(c, P) == [k \in 1..Cardinality(P) |-> Those(c, P)[k].cb]
ListOf(c, t, a) == CbsOf(c, EntriesAt(c, t, a))
ListsOf(c) == [t \in {"set", "get"} |-> [a \in Addresses |-> ListOf(c, t, a)]]

LEMMA TheseAreTheMaps ==
    /\ MapOfRegs = MapOf(regs) /\ MapOfRegs' = MapOf(regs')
    /\ ListsOfCallbacks = ListsOf(callbacks) /\ ListsOfCallbacks' = ListsOf(callbacks')
    /\ Registered = AddressesOf(regs) /\ Registered' = AddressesOf(regs')
<1>1. MapOfRegs = MapOf(regs)
      BY DEF MapOfRegs, MapOf, Registered, AddressesOf, SearchRegister, FirstAt
<1>2. MapOfRegs' = MapOf(regs')
      BY DEF MapOfRegs, MapOf, Registered, AddressesOf, SearchRegister, FirstAt
<1>3. ListsOfCallbacks = ListsOf(callbacks)
      BY DEF ListsOfCallbacks, ListsOf, ListOf, CbsAt, CbsOf, Found, EntriesAt
<1>4. ListsOfCallbacks' = ListsOf(callbacks')
      BY DEF ListsOfCallbacks, ListsOf, ListOf, CbsAt, CbsOf, Found, EntriesAt
<1> QED BY <1>1, <1>2, <1>3, <1>4 DEF Registered, AddressesOf

\* Where no register is there twice, each is at its address in the map.
LEMMA MapIs ==
    ASSUME NEW s \in Seq(Entries),
           \A i, j \in DOMAIN s : s[i].address = s[j].address => i = j
    PROVE  /\ DOMAIN MapOf(s) = AddressesOf(s) /\ AddressesOf(s) \subseteq Addresses
           /\ MapOf(s) \in [AddressesOf(s) -> Values]
           /\ \A i \in DOMAIN s : s[i].address \in AddressesOf(s) /\ MapOf(s)[s[i].address] = s[i].value
           /\ \A a \in AddressesOf(s) : \E i \in DOMAIN s : s[i].address = a
           /\ Len(s) \in Nat /\ Cardinality(AddressesOf(s)) \in Nat
           /\ Cardinality(AddressesOf(s)) <= Len(s)
<1>1. Len(s) \in Nat /\ DOMAIN s = 1..Len(s) /\ \A i \in DOMAIN s : s[i] \in Entries
      OBVIOUS
<1>2. ASSUME NEW i \in DOMAIN s PROVE FirstAt(s, s[i].address) = i
      <2> DEFINE a == s[i].address
                 F(j) == s[j].address = a /\ \A k \in 1..j - 1 : s[k].address # a
      <2>1. F(i)
            BY <1>1
      <2>2. \A j \in DOMAIN s : F(j) => j = i
            OBVIOUS
      <2>3. FirstAt(s, a) = CHOOSE j \in DOMAIN s : F(j)
            BY DEF FirstAt
      <2> HIDE DEF F
      <2>4. (CHOOSE j \in DOMAIN s : F(j)) = i
            BY <2>1, <2>2, Zenon
      <2> QED BY <2>3, <2>4
<1>3. \A i \in DOMAIN s : s[i].address \in AddressesOf(s) /\ MapOf(s)[s[i].address] = s[i].value
      BY <1>2 DEF MapOf, AddressesOf
<1>4. \A a \in AddressesOf(s) : \E i \in DOMAIN s : s[i].address = a
      BY DEF AddressesOf
<1>5. \A i \in DOMAIN s : s[i].address \in Addresses /\ s[i].value \in Values
      BY <1>1 DEF Entries
<1>6. AddressesOf(s) \subseteq Addresses
      BY <1>4, <1>5
<1>7. DOMAIN MapOf(s) = AddressesOf(s)
      BY DEF MapOf
<1>8. \A a \in AddressesOf(s) : MapOf(s)[a] \in Values
      BY <1>3, <1>4, <1>5
<1>9. MapOf(s) \in [AddressesOf(s) -> Values]
      BY <1>8 DEF MapOf
<1>10. Cardinality(AddressesOf(s)) \in Nat /\ Cardinality(AddressesOf(s)) <= Len(s)
      <2> DEFINE f == [i \in DOMAIN s |-> s[i].address]
      <2>1. f \in Surjection(DOMAIN s, AddressesOf(s))
            BY DEF Surjection, AddressesOf
      <2>2. IsFiniteSet(DOMAIN s) /\ Cardinality(DOMAIN s) = Len(s)
            <3> DEFINE n == Len(s)
            <3>1. n \in Nat
                  OBVIOUS
            <3> HIDE DEF n
            <3>2. IsFiniteSet(1..n) /\ Cardinality(1..n) = n
                  BY <3>1, FS_Interval
            <3> QED BY <1>1, <3>2 DEF n
      <2> HIDE DEF f
      <2>3. IsFiniteSet(AddressesOf(s)) /\ Cardinality(AddressesOf(s)) <= Len(s)
            BY <2>1, <2>2, FS_Surjection
      <2> QED BY <2>3, FS_CardinalityType
<1> QED BY <1>1, <1>3, <1>4, <1>6, <1>7, <1>9, <1>10

LEMMA ListType ==
    ASSUME NEW c \in Seq(Attached), NEW P \in SUBSET DOMAIN c
    PROVE  /\ CbsOf(c, P) \in Seq(Callbacks) /\ Len(CbsOf(c, P)) = Cardinality(P)
           /\ Cardinality(P) \in Nat
           /\ P = {} <=> CbsOf(c, P) = <<>>
<1>1. /\ Cardinality(P) \in Nat
      /\ \A k \in 1..Cardinality(P) : Place(P, k) \in P /\ Those(c, P)[k] = c[Place(P, k)]
      BY ThoseAre
<1>2. \A i \in P : c[i].cb \in Callbacks
      <2>1. \A i \in P : c[i] \in Attached
            OBVIOUS
      <2> QED BY <2>1 DEF Attached
<1>3. \A k \in 1..Cardinality(P) : Those(c, P)[k].cb \in Callbacks
      BY <1>1, <1>2
<1>4. CbsOf(c, P) \in [1..Cardinality(P) -> Callbacks]
      BY <1>3 DEF CbsOf
<1>5. CbsOf(c, P) \in Seq(Callbacks) /\ Len(CbsOf(c, P)) = Cardinality(P)
      BY <1>1, <1>4
<1>6. IsFiniteSet(P) /\ (P = {} <=> Cardinality(P) = 0)
      <2>1. Len(c) \in Nat /\ P \in SUBSET (1..Len(c))
            OBVIOUS
      <2>2. IsFiniteSet(P)
            BY <2>1, Placed
      <2> QED BY <2>2, FS_EmptySet
<1> QED BY <1>1, <1>5, <1>6

\* Taking callbacks away leaves the lists that lose none as they are.
LEMMA ListsLeft ==
    ASSUME NEW c \in Seq(Attached), NEW Q \in SUBSET DOMAIN c, NEW t, NEW a
    PROVE  /\ EntriesAt(c, t, a) \subseteq Q => ListOf(Those(c, Q), t, a) = ListOf(c, t, a)
           /\ EntriesAt(c, t, a) \cap Q = {} => ListOf(Those(c, Q), t, a) = <<>>
<1> DEFINE d == Those(c, Q)
           n == Cardinality(Q)
           P == EntriesAt(c, t, a) \cap Q
           R == EntriesAt(d, t, a)
<1>1. /\ d \in Seq(Attached) /\ DOMAIN d = 1..n /\ n \in Nat
      /\ \A k \in 1..n : Place(Q, k) \in Q /\ d[k] = c[Place(Q, k)]
      BY ThoseAre
<1>2. Len(c) \in Nat /\ DOMAIN c = 1..Len(c) /\ Q \in SUBSET (1..Len(c)) /\ P \in SUBSET Q
      OBVIOUS
<1>3. R = {k \in 1..n : Place(Q, k) \in P}
      BY <1>1 DEF EntriesAt
<1> HIDE DEF d
<1>4. P \in SUBSET DOMAIN c /\ R \in SUBSET DOMAIN d /\ R \in SUBSET (1..n)
      BY <1>1, <1>3 DEF EntriesAt
<1> HIDE DEF P, R, n
<1>5. /\ Cardinality(R) = Cardinality(P)
      /\ \A k \in 1..Cardinality(P) : Place(R, k) \in R /\ Place(Q, Place(R, k)) = Place(P, k)
      <2> DEFINE N == Len(c)
      <2>1. N \in Nat /\ Q \in SUBSET (1..N) /\ P \in SUBSET Q
            BY <1>2
      <2>2. R = PartOf(Q, P)
            BY <1>3 DEF n, PartOf
      <2> HIDE DEF N
      <2> QED BY <2>1, <2>2, PlacesOfAPart
<1>6. \A k \in 1..Cardinality(P) : Those(d, R)[k] = Those(c, P)[k]
      <2> SUFFICES ASSUME NEW k \in 1..Cardinality(P) PROVE Those(d, R)[k] = Those(c, P)[k]
            OBVIOUS
      <2>1. Those(d, R)[k] = d[Place(R, k)] /\ Those(c, P)[k] = c[Place(P, k)]
            BY <1>5 DEF Those
      <2>2. d[Place(R, k)] = c[Place(Q, Place(R, k))]
            BY <1>1, <1>4, <1>5
      <2> QED BY <1>5, <2>1, <2>2
<1>7. CbsOf(d, R) = CbsOf(c, P)
      BY <1>5, <1>6 DEF CbsOf
<1>8. EntriesAt(c, t, a) \subseteq Q => P = EntriesAt(c, t, a)
      BY DEF P
<1>9. P = {} => CbsOf(d, R) = <<>>
      BY <1>4, <1>7, ListType
<1> QED BY <1>7, <1>8, <1>9 DEF P, R, d, ListOf

\* A callback behind the others is the last of its list.
LEMMA ListGrows ==
    ASSUME NEW c \in Seq(Attached), NEW b \in Seq(Attached), NEW t, NEW a
    PROVE  /\ (\A k \in DOMAIN b : ~ (b[k].type = t /\ b[k].address = a)) =>
                 ListOf(c \o b, t, a) = ListOf(c, t, a)
           /\ \A m \in DOMAIN b :
                 (\A k \in DOMAIN b : b[k].type = t /\ b[k].address = a <=> k = m) =>
                   ListOf(c \o b, t, a) = Append(ListOf(c, t, a), b[m].cb)
<1> DEFINE d == c \o b
           n == Len(c)
           P == EntriesAt(c, t, a)
           R == EntriesAt(d, t, a)
<1>1. /\ d \in Seq(Attached) /\ Len(d) = n + Len(b) /\ n \in Nat /\ Len(b) \in Nat
      /\ \A i \in 1..n : i \in 1..n + Len(b) /\ d[i] = c[i]
      /\ \A k \in 1..Len(b) : n + k \in 1..n + Len(b) /\ d[n + k] = b[k]
      /\ \A i \in 1..n + Len(b) : i \in 1..n \/ \E k \in 1..Len(b) : i = n + k
      BY Joined
<1> HIDE DEF d
<1>2. DOMAIN c = 1..n /\ DOMAIN b = 1..Len(b) /\ DOMAIN d = 1..n + Len(b)
      BY <1>1
<1>3. P \in SUBSET DOMAIN c /\ P \in SUBSET (1..n)
      BY <1>2 DEF EntriesAt
<1>4. R = P \cup {i \in DOMAIN d : \E k \in DOMAIN b : i = n + k /\ b[k].type = t /\ b[k].address = a}
      <2> DEFINE X == {i \in DOMAIN d : \E k \in DOMAIN b : i = n + k /\ b[k].type = t /\ b[k].address = a}
      <2>1. \A i \in DOMAIN d : (\E k \in DOMAIN b : i = n + k) => i \notin DOMAIN c
            BY <1>1, <1>2
      <2>2. ASSUME NEW i \in DOMAIN d PROVE i \in R <=> i \in P \cup X
            <3>1. CASE i \in DOMAIN c
                  BY <1>1, <1>2, <2>1, <3>1 DEF EntriesAt
            <3>2. CASE i \notin DOMAIN c
                  <4>1. PICK k \in DOMAIN b : i = n + k
                        BY <1>1, <1>2, <3>2
                  <4>2. \A l \in DOMAIN b : i = n + l => l = k
                        BY <1>1, <1>2, <4>1
                  <4>3. d[i] = b[k]
                        BY <1>1, <1>2, <4>1
                  <4>4. i \in R <=> b[k].type = t /\ b[k].address = a
                        BY <4>3 DEF EntriesAt
                  <4>5. i \in X <=> b[k].type = t /\ b[k].address = a
                        BY <4>1, <4>2
                  <4> QED BY <1>3, <3>2, <4>4, <4>5
            <3> QED BY <3>1, <3>2
      <2>3. P \subseteq DOMAIN d /\ R \subseteq DOMAIN d
            BY <1>1, <1>2, <1>3 DEF EntriesAt
      <2> QED BY <2>2, <2>3
<1>5. /\ Cardinality(P) \in Nat /\ CbsOf(c, P) \in Seq(Callbacks)
      /\ Len(CbsOf(c, P)) = Cardinality(P)
      BY <1>3, ListType
<1>6. \A k \in 1..Cardinality(P) : Place(P, k) \in P
      <2> HIDE DEF P
      <2> QED BY <1>3, ThoseAre
<1> HIDE DEF P, R
<1>7. ASSUME \A k \in DOMAIN b : ~ (b[k].type = t /\ b[k].address = a)
      PROVE  CbsOf(d, R) = CbsOf(c, P)
      <2>1. R = P
            BY <1>4, <1>7
      <2>2. \A k \in 1..Cardinality(P) : Those(d, P)[k] = Those(c, P)[k]
            BY <1>1, <1>3, <1>6 DEF Those
      <2> QED BY <2>1, <2>2 DEF CbsOf
<1>8. ASSUME NEW m \in DOMAIN b,
             \A k \in DOMAIN b : b[k].type = t /\ b[k].address = a <=> k = m
      PROVE  CbsOf(d, R) = Append(CbsOf(c, P), b[m].cb)
      <2>1. n + m \in DOMAIN d /\ n + m \in Nat /\ n < n + m /\ d[n + m] = b[m]
            BY <1>1, <1>2
      <2>2. R = P \cup {n + m}
            BY <1>4, <1>8, <2>1
      <2> DEFINE x == n + m
      <2> HIDE DEF x
      <2>3. /\ Cardinality(R) = Cardinality(P) + 1
            /\ \A k \in 1..Cardinality(P) : Place(R, k) = Place(P, k) /\ Place(P, k) \in P
            /\ Place(R, Cardinality(P) + 1) = x
            <3>1. x \in Nat /\ n < x /\ R = P \cup {x}
                  BY <2>1, <2>2 DEF x
            <3>2. n \in Nat
                  BY <1>1
            <3> HIDE DEF n
            <3> QED BY <1>3, <3>1, <3>2, PlacesWithOneMore
      <2>4. CbsOf(d, R) = [k \in 1..Cardinality(P) + 1 |-> d[Place(R, k)].cb]
            BY <2>3 DEF CbsOf, Those
      <2>5. CbsOf(c, P) = [k \in 1..Cardinality(P) |-> c[Place(P, k)].cb]
            BY DEF CbsOf, Those
      <2>6. \A k \in 1..Cardinality(P) : d[Place(R, k)].cb = CbsOf(c, P)[k]
            BY <1>1, <1>3, <2>3, <2>5
      <2>7. d[Place(R, Cardinality(P) + 1)].cb = b[m].cb
            BY <2>1, <2>3 DEF x
      <2> DEFINE list == CbsOf(c, P)
                 q == Cardinality(P)
      <2>8. list \in Seq(Callbacks) /\ Len(list) = q /\ q \in Nat
            BY <1>5
      <2>9. Append(list, b[m].cb) = [k \in 1..q + 1 |-> IF k = q + 1 THEN b[m].cb ELSE list[k]]
            <3> HIDE DEF list, q
            <3> QED BY <2>8
      <2>10. \A k \in 1..q + 1 : d[Place(R, k)].cb = IF k = q + 1 THEN b[m].cb ELSE list[k]
            <3>1. \A k \in 1..q + 1 : k = q + 1 \/ k \in 1..q
                  <4> HIDE DEF q
                  <4> QED BY <2>8
            <3> QED BY <2>6, <2>7, <3>1
      <2> HIDE DEF list, q
      <2> QED BY <2>4, <2>9, <2>10 DEF list, q
<1> QED BY <1>7, <1>8 DEF P, R, d, ListOf

LEMMA LastOfItsList ==
    ASSUME NEW c \in Seq(Attached), NEW b \in Seq(Attached), NEW t, NEW a, NEW m \in DOMAIN b,
           \A k \in DOMAIN b : b[k].type = t /\ b[k].address = a <=> k = m
    PROVE  ListOf(c \o b, t, a) = Append(ListOf(c, t, a), b[m].cb)
BY ListGrows

--------------------------------------------------------------------------------
(* Every call, seen from the map and the lists.                             *)

LEMMA ThroughIsPassed ==
    ASSUME NEW list, NEW v
    PROVE  M!Through(list, v) = Passed(list, v)
BY Zenon DEF M!Through, Passed

LEMMA SameCardinality ==
    ASSUME NEW S
    PROVE  M!Cardinality(S) = Cardinality(S)
BY Zenon DEF M!Cardinality, Cardinality

LEMMA Answers ==
    /\ \A b : M!Says(b) = Says(b)
    /\ \A v : M!Reads(v) = Reads(v)
BY DEF M!Says, M!Reads, Says, Reads

LEMMA SameMaps ==
    /\ UNCHANGED regs => UNCHANGED MapOfRegs
    /\ UNCHANGED callbacks => UNCHANGED ListsOfCallbacks
<1>1. ASSUME UNCHANGED regs PROVE UNCHANGED MapOfRegs
      BY <1>1, TheseAreTheMaps
<1>2. ASSUME UNCHANGED callbacks PROVE UNCHANGED ListsOfCallbacks
      BY <1>2, TheseAreTheMaps
<1> QED BY <1>1, <1>2

\* What MapIs says of the registers now, and after a call.
LEMMA MapNow ==
    ASSUME IInv
    PROVE  /\ DOMAIN MapOfRegs = Registered /\ Registered \subseteq Addresses
           /\ MapOfRegs \in [Registered -> Values]
           /\ \A i \in DOMAIN regs : regs[i].address \in Registered /\ MapOfRegs[regs[i].address] = regs[i].value
           /\ \A a \in Registered : \E i \in DOMAIN regs : regs[i].address = a
           /\ Cardinality(Registered) <= MaxRegs
<1>1. regs \in Seq(Entries) /\ Len(regs) <= MaxRegs
      BY DEF IInv, Vectors
<1>2. \A i, j \in DOMAIN regs : regs[i].address = regs[j].address => i = j
      BY DEF IInv, NoDoubleNoOrphan
<1> DEFINE s == regs
<1>3. /\ DOMAIN MapOf(s) = AddressesOf(s) /\ AddressesOf(s) \subseteq Addresses
      /\ MapOf(s) \in [AddressesOf(s) -> Values]
      /\ \A i \in DOMAIN s : s[i].address \in AddressesOf(s) /\ MapOf(s)[s[i].address] = s[i].value
      /\ \A a \in AddressesOf(s) : \E i \in DOMAIN s : s[i].address = a
      /\ Len(s) \in Nat /\ Cardinality(AddressesOf(s)) \in Nat
      /\ Cardinality(AddressesOf(s)) <= Len(s)
      BY <1>1, <1>2, MapIs
<1>4. Cardinality(AddressesOf(s)) <= MaxRegs
      BY <1>1, <1>3, Assumed
<1> QED BY <1>3, <1>4, TheseAreTheMaps

LEMMA MapNext ==
    ASSUME IInv'
    PROVE  /\ DOMAIN MapOfRegs' = Registered' /\ Registered' \subseteq Addresses
           /\ MapOfRegs' \in [Registered' -> Values]
           /\ \A i \in DOMAIN regs' : regs'[i].address \in Registered' /\ MapOfRegs'[regs'[i].address] = regs'[i].value
           /\ \A a \in Registered' : \E i \in DOMAIN regs' : regs'[i].address = a
           /\ Cardinality(Registered') <= MaxRegs
<1>1. regs' \in Seq(Entries) /\ Len(regs') <= MaxRegs
      BY DEF IInv, Vectors
<1>2. \A i, j \in DOMAIN regs' : regs'[i].address = regs'[j].address => i = j
      BY DEF IInv, NoDoubleNoOrphan
<1> DEFINE s == regs'
<1>3. /\ DOMAIN MapOf(s) = AddressesOf(s) /\ AddressesOf(s) \subseteq Addresses
      /\ MapOf(s) \in [AddressesOf(s) -> Values]
      /\ \A i \in DOMAIN s : s[i].address \in AddressesOf(s) /\ MapOf(s)[s[i].address] = s[i].value
      /\ \A a \in AddressesOf(s) : \E i \in DOMAIN s : s[i].address = a
      /\ Len(s) \in Nat /\ Cardinality(AddressesOf(s)) \in Nat
      /\ Cardinality(AddressesOf(s)) <= Len(s)
      BY <1>1, <1>2, MapIs
<1>4. Cardinality(AddressesOf(s)) <= MaxRegs
      BY <1>1, <1>3, Assumed
<1> QED BY <1>3, <1>4, TheseAreTheMaps

LEMMA StartIsMapped == ASSUME Init PROVE M!InitMap
<1>1. IInv /\ regs = <<>> /\ callbacks = <<>> /\ result = Says(TRUE)
      BY StartKeeps DEF Init
<1>2. Registered = {}
      BY <1>1 DEF Registered
<1>3. MapOfRegs = [a \in {} |-> 0]
      BY <1>2 DEF MapOfRegs
<1>4. ASSUME NEW t, NEW a PROVE ListOf(callbacks, t, a) = <<>>
      <2>1. EntriesAt(callbacks, t, a) = {} /\ callbacks \in Seq(Attached)
            BY <1>1 DEF EntriesAt
      <2> QED BY <2>1, ListType DEF ListOf
<1>5. ListsOfCallbacks = [k \in {"set", "get"} |-> [a \in Addresses |-> <<>>]]
      BY <1>4, TheseAreTheMaps DEF ListsOf
<1> QED BY <1>1, <1>3, <1>5, Answers DEF M!InitMap, M!Kind

LEMMA RefuseStep ==
    ASSUME UNCHANGED <<regs, callbacks>>, result' \in {Says(FALSE), Reads(0)}
    PROVE  M!Refuse
BY SameMaps, Answers DEF M!Refuse

LEMMA RegisterStep ==
    ASSUME IInv, IInv', Longer, UNCHANGED callbacks, result' = Says(TRUE)
    PROVE  M!Register
<1>1. UNCHANGED ListsOfCallbacks
      BY SameMaps
<1>2. \A a \in Registered : a \in Registered' /\ MapOfRegs'[a] = MapOfRegs[a]
      <2> SUFFICES ASSUME NEW a \in Registered
                   PROVE  a \in Registered' /\ MapOfRegs'[a] = MapOfRegs[a]
            OBVIOUS
      <2>1. PICK i \in DOMAIN regs : regs[i].address = a
            BY MapNow
      <2>2. i \in DOMAIN regs' /\ regs'[i] = regs[i]
            BY DEF Longer
      <2>3. MapOfRegs[a] = regs[i].value
            BY <2>1, MapNow
      <2>4. a \in Registered' /\ MapOfRegs'[a] = regs[i].value
            BY <2>1, <2>2, MapNext
      <2> QED BY <2>3, <2>4
<1>3. /\ DOMAIN MapOfRegs = Registered /\ DOMAIN MapOfRegs' = Registered'
      /\ Registered' \subseteq Addresses /\ MapOfRegs' \in [Registered' -> Values]
      /\ Cardinality(Registered') <= MaxRegs
      BY MapNow, MapNext
<1>4. /\ DOMAIN MapOfRegs \subseteq DOMAIN MapOfRegs' /\ DOMAIN MapOfRegs' \subseteq Addresses
      /\ MapOfRegs' \in [DOMAIN MapOfRegs' -> Values]
      /\ Cardinality(DOMAIN MapOfRegs') <= MaxRegs
      BY <1>2, <1>3
<1>5. \A a \in DOMAIN MapOfRegs : MapOfRegs'[a] = MapOfRegs[a]
      BY <1>2, <1>3
<1>6. result' = M!Says(TRUE)
      BY Answers
<1>7. M!Cardinality(DOMAIN MapOfRegs') <= MaxRegs
      BY <1>4, SameCardinality
<1> QED BY <1>1, <1>4, <1>5, <1>6, <1>7, Zenon DEF M!Register

LEMMA AddRegStep ==
    ASSUME IInv, NEW a \in Addresses, NEW v \in Values, NEW n \in Nat, AddReg(a, v, n)
    PROVE  M!Register \/ M!Refuse
<1>1. IInv' /\ Longer /\ UNCHANGED callbacks
      BY AddRegKeeps DEF AddReg
<1>2. CASE Len(regs) + n > MaxRegs
      BY <1>2, RefuseStep DEF AddReg
<1>3. CASE ~ (Len(regs) + n > MaxRegs)
      <2>1. result' = Says(TRUE)
            BY <1>3 DEF AddReg
      <2> QED BY <1>1, <2>1, RegisterStep
<1> QED BY <1>2, <1>3

LEMMA AddRegsStep ==
    ASSUME IInv, NEW a \in Addresses, NEW n \in Nat, NEW values \in [1..n -> Values],
           AddRegs(a, values)
    PROVE  M!Register
<1>1. IInv' /\ Longer
      BY AddRegsKeeps
<1>2. UNCHANGED callbacks /\ result' = Says(TRUE)
      BY DEF AddRegs
<1> QED BY <1>1, <1>2, RegisterStep

LEMMA SetRegStep ==
    ASSUME IInv, NEW a \in Addresses, NEW v \in Values, SetReg(a, v)
    PROVE  M!Store \/ M!Refuse
<1> DEFINE r == SearchRegister(a)
           w == IF cbEnabled THEN Callback(a, v, "set") ELSE v
<1>1. CASE ~ Exists(a)
      BY <1>1, RefuseStep DEF SetReg
<1>2. CASE Exists(a)
      <2>1. r \in DOMAIN regs /\ regs[r].address = a /\ a \in Registered
            BY <1>2, Search DEF IInv
      <2>2. regs' = [regs EXCEPT ![r].value = w] /\ UNCHANGED callbacks /\ result' = Says(TRUE)
            BY <1>2 DEF SetReg
      <2>3. IInv'
            BY SetRegKeeps
      <2>4. w \in {v, M!Through(ListsOfCallbacks["set"][a], v)}
            BY ThroughIsPassed DEF ListsOfCallbacks, Callback
      <2> HIDE DEF r, w
      <2>5. /\ DOMAIN regs' = DOMAIN regs
            /\ \A i \in DOMAIN regs : /\ regs'[i].address = regs[i].address
                                      /\ regs'[i].value = IF i = r THEN w ELSE regs[i].value
            <3>1. \A i \in DOMAIN regs : regs[i] \in Entries
                  BY DEF IInv, Vectors
            <3>2. regs[r] = [address |-> regs[r].address, value |-> regs[r].value]
                  BY <2>1, <3>1 DEF Entries
            <3>3. regs'[r] = [regs[r] EXCEPT !.value = w]
                  BY <2>1, <2>2
            <3>4. regs'[r].address = regs[r].address /\ regs'[r].value = w
                  BY <3>2, <3>3
            <3> QED BY <2>2, <3>4
      <2>6. Registered' = Registered
            BY <2>5 DEF Registered
      <2>7. ASSUME NEW x \in Registered
            PROVE  MapOfRegs'[x] = IF x = a THEN w ELSE MapOfRegs[x]
            <3>1. PICK i \in DOMAIN regs : regs[i].address = x
                  BY MapNow
            <3>2. MapOfRegs[x] = regs[i].value
                  BY <3>1, MapNow
            <3>3. MapOfRegs'[x] = regs'[i].value
                  BY <2>3, <2>5, <3>1, MapNext
            <3>4. i = r <=> x = a
                  BY <2>1, <3>1 DEF IInv, NoDoubleNoOrphan
            <3> QED BY <2>5, <3>2, <3>3, <3>4
      <2>8. MapOfRegs' = [MapOfRegs EXCEPT ![a] = w]
            <3>1. MapOfRegs \in [Registered -> Values] /\ MapOfRegs' \in [Registered -> Values]
                  BY <2>3, <2>6, MapNow, MapNext
            <3> QED BY <2>7, <3>1
      <2>9. a \in DOMAIN MapOfRegs /\ UNCHANGED ListsOfCallbacks
            BY <2>1, <2>2, MapNow, SameMaps
      <2> QED BY <2>2, <2>4, <2>8, <2>9, Answers DEF M!Store
<1> QED BY <1>1, <1>2

LEMMA GetRegStep ==
    ASSUME IInv, NEW a \in Addresses, GetReg(a)
    PROVE  M!Fetch \/ M!Refuse
<1>1. CASE ~ Exists(a)
      BY <1>1, RefuseStep DEF GetReg
<1>2. CASE Exists(a)
      <2>1. a \in Registered /\ DOMAIN MapOfRegs = Registered
            BY <1>2, Search, MapNow DEF IInv
      <2>2. MapOfRegs[a] = regs[SearchRegister(a)].value
            BY <2>1 DEF MapOfRegs
      <2>3. result' \in {Reads(MapOfRegs[a]),
                        Reads(M!Through(ListsOfCallbacks["get"][a], MapOfRegs[a]))}
            BY <1>2, <2>2, ThroughIsPassed DEF GetReg, ListsOfCallbacks, Callback
      <2>4. UNCHANGED <<MapOfRegs, ListsOfCallbacks>>
            BY SameMaps DEF GetReg
      <2> QED BY <2>1, <2>3, <2>4, Answers DEF M!Fetch
<1> QED BY <1>1, <1>2

LEMMA RemoveRegStep ==
    ASSUME IInv, NEW a \in Addresses, NEW n, RemoveReg(a, n)
    PROVE  M!Withdraw
<1> DEFINE gone == {x \in Named(a, Clipped(a, n)) : Exists(x)}
           P == {i \in DOMAIN regs : regs[i].address \notin gone}
           Q == {i \in DOMAIN callbacks : callbacks[i].address \notin gone}
<1>1. regs' = Those(regs, P) /\ callbacks' = Those(callbacks, Q) /\ result' = Says(gone # {})
      BY DEF RemoveReg
<1>2. P \in SUBSET DOMAIN regs /\ Q \in SUBSET DOMAIN callbacks /\ callbacks \in Seq(Attached)
      BY DEF IInv, Vectors
<1>3. gone \subseteq Registered
      BY Search DEF IInv
<1>4. IInv'
      BY RemoveRegKeeps
<1>5. ASSUME NEW t, NEW x
      PROVE  ListOf(callbacks', t, x) = IF x \in gone THEN <<>> ELSE ListOf(callbacks, t, x)
      <2>1. x \in gone => EntriesAt(callbacks, t, x) \cap Q = {}
            BY DEF EntriesAt
      <2>2. x \notin gone => EntriesAt(callbacks, t, x) \subseteq Q
            BY DEF EntriesAt
      <2> HIDE DEF Q
      <2> QED BY <1>1, <1>2, <2>1, <2>2, ListsLeft
<1>6. Registered' = Registered \ gone
      <2>1. Registered' = {regs[i].address : i \in P}
            <3> HIDE DEF P
            <3> QED BY <1>1, <1>2, FewerRegisters
      <2> QED BY <2>1 DEF Registered
<1>7. \A k \in DOMAIN regs' : \E i \in DOMAIN regs : regs'[k] = regs[i]
      <2> HIDE DEF P
      <2> QED BY <1>1, <1>2, FewerRegisters
<1> HIDE DEF gone, P, Q
<1>8. /\ DOMAIN MapOfRegs = Registered /\ DOMAIN MapOfRegs' = Registered'
      /\ MapOfRegs \in [Registered -> Values] /\ MapOfRegs' \in [Registered' -> Values]
      BY <1>4, MapNow, MapNext
<1>9. ASSUME NEW x \in Registered' PROVE MapOfRegs'[x] = MapOfRegs[x]
      <2>1. PICK k \in DOMAIN regs' : regs'[k].address = x
            BY <1>4, MapNext
      <2>2. PICK i \in DOMAIN regs : regs'[k] = regs[i]
            BY <1>7
      <2>3. MapOfRegs'[x] = regs'[k].value
            BY <1>4, <2>1, MapNext
      <2>4. MapOfRegs[x] = regs[i].value
            BY <2>1, <2>2, MapNow
      <2> QED BY <2>2, <2>3, <2>4
<1>10. gone # {} <=> MapOfRegs' # MapOfRegs
      <2>1. CASE gone = {}
            <3>1. Registered' = Registered
                  BY <1>6, <2>1
            <3>2. MapOfRegs' = MapOfRegs
                  BY <1>8, <1>9, <3>1
            <3> QED BY <2>1, <3>2
      <2>2. CASE gone # {}
            <3>1. Registered' # Registered
                  BY <1>3, <1>6, <2>2
            <3> QED BY <1>8, <2>2, <3>1
      <2> QED BY <2>1, <2>2
<1>11. result' = M!Says(MapOfRegs' # MapOfRegs)
      <2>1. (gone # {}) = (MapOfRegs' # MapOfRegs)
            BY <1>10, Zenon
      <2> QED BY <1>1, <2>1, Answers
<1>12. gone = DOMAIN MapOfRegs \ DOMAIN MapOfRegs'
      BY <1>3, <1>6, <1>8
<1>13. ListsOfCallbacks' = [k \in {"set", "get"} |-> [x \in Addresses |->
                              IF x \in DOMAIN MapOfRegs \ DOMAIN MapOfRegs'
                              THEN <<>> ELSE ListsOfCallbacks[k][x]]]
      <2>1. ListsOfCallbacks' = [k \in {"set", "get"} |-> [x \in Addresses |->
                                   ListOf(callbacks', k, x)]]
            BY TheseAreTheMaps DEF ListsOf
      <2>2. ASSUME NEW k \in {"set", "get"}, NEW x \in Addresses
            PROVE  ListsOfCallbacks[k][x] = ListOf(callbacks, k, x)
            BY TheseAreTheMaps DEF ListsOf
      <2> QED BY <1>5, <1>12, <2>1, <2>2
<1>14. /\ DOMAIN MapOfRegs' \subseteq DOMAIN MapOfRegs
       /\ \A x \in DOMAIN MapOfRegs' : MapOfRegs'[x] = MapOfRegs[x]
      BY <1>6, <1>8, <1>9
<1> QED BY <1>11, <1>13, <1>14, Zenon DEF M!Withdraw, M!Kind

\* All of a vector is the vector.
LEMMA AllOfIt ==
    ASSUME NEW S, NEW s \in Seq(S), NEW P \in SUBSET DOMAIN s, Cardinality(P) = Len(s)
    PROVE  P = DOMAIN s
<1>1. Len(s) \in Nat /\ DOMAIN s = 1..Len(s)
      OBVIOUS
<1> DEFINE N == Len(s)
<1> HIDE DEF N
<1>2. N \in Nat /\ P \in SUBSET (1..N) /\ Cardinality(P) = N
      BY <1>1 DEF N
<1>3. P = 1..N
      BY <1>2, RankGrows
<1> QED BY <1>1, <1>3 DEF N

LEMMA RemoveOnStep ==
    ASSUME IInv, NEW a \in Addresses, NEW t \in {"get", "set"}, NEW cb, NEW n, RemoveOn(t, a, cb, n)
    PROVE  M!Detach
<1> DEFINE Gone(x) == x \in Named(a, n) /\ cb = None
           Q == {i \in DOMAIN callbacks : ~ (callbacks[i].type = t /\ Gone(callbacks[i].address))}
<1>1. /\ callbacks' = Those(callbacks, Q) /\ UNCHANGED regs
      /\ result' = Says(Len(callbacks') = Len(callbacks))
      BY DEF RemoveOn, Without
<1>2. /\ Q \in SUBSET DOMAIN callbacks /\ callbacks \in Seq(Attached)
      /\ \A i \in DOMAIN callbacks : callbacks[i] \in Attached
      BY DEF IInv, Vectors
<1> HIDE DEF Gone
<1>3. ASSUME NEW k, NEW x
      PROVE  ListOf(callbacks', k, x) = IF k = t /\ Gone(x) THEN <<>> ELSE ListOf(callbacks, k, x)
      <2>1. k = t /\ Gone(x) => EntriesAt(callbacks, k, x) \cap Q = {}
            BY DEF EntriesAt
      <2>2. ~ (k = t /\ Gone(x)) => EntriesAt(callbacks, k, x) \subseteq Q
            BY DEF EntriesAt
      <2> HIDE DEF Q
      <2> QED BY <1>1, <1>2, <2>1, <2>2, ListsLeft
<1>4. /\ ListsOfCallbacks = [k \in {"set", "get"} |-> [x \in Addresses |-> ListOf(callbacks, k, x)]]
      /\ ListsOfCallbacks' = [k \in {"set", "get"} |-> [x \in Addresses |-> ListOf(callbacks', k, x)]]
      BY TheseAreTheMaps DEF ListsOf
<1>5. Len(callbacks') = Cardinality(Q)
      <2> HIDE DEF Q
      <2> QED BY <1>1, <1>2, ThoseAre
<1>6. Len(callbacks') = Len(callbacks) <=> ListsOfCallbacks' = ListsOfCallbacks
      <2>1. CASE Len(callbacks') = Len(callbacks)
            <3>1. Q = DOMAIN callbacks
                  <4> HIDE DEF Q
                  <4> QED BY <1>2, <1>5, <2>1, AllOfIt
            <3>2. ASSUME NEW k, NEW x PROVE ListOf(callbacks', k, x) = ListOf(callbacks, k, x)
                  <4>1. EntriesAt(callbacks, k, x) \subseteq Q
                        BY <3>1 DEF EntriesAt
                  <4> HIDE DEF Q
                  <4> QED BY <1>1, <1>2, <4>1, ListsLeft
            <3>3. ListsOfCallbacks' = ListsOfCallbacks
                  BY <1>4, <3>2
            <3> QED BY <2>1, <3>3
      <2>2. CASE Len(callbacks') # Len(callbacks)
            <3>1. PICK i \in DOMAIN callbacks : i \notin Q
                  <4>1. Q = DOMAIN callbacks => Len(callbacks') = Len(callbacks)
                        <5>1. Len(callbacks) \in Nat /\ DOMAIN callbacks = 1..Len(callbacks)
                              BY <1>2
                        <5> DEFINE m == Len(callbacks)
                        <5>2. Cardinality(1..m) = m
                              <6> HIDE DEF m
                              <6> QED BY <5>1, FS_Interval DEF m
                        <5> QED BY <1>5, <5>1, <5>2
                  <4> QED BY <1>2, <2>2, <4>1
            <3> DEFINE x == callbacks[i].address
            <3>2. callbacks[i].type = t /\ Gone(x) /\ x \in Addresses
                  <4>1. callbacks[i].type = t /\ Gone(x)
                        BY <3>1
                  <4>2. x \in Addresses
                        BY <1>2 DEF Attached
                  <4> QED BY <4>1, <4>2
            <3>3. ListOf(callbacks', t, x) = <<>>
                  BY <1>3, <3>2
            <3>4. ListOf(callbacks, t, x) # <<>>
                  <4>1. EntriesAt(callbacks, t, x) \in SUBSET DOMAIN callbacks /\ EntriesAt(callbacks, t, x) # {}
                        BY <3>2 DEF EntriesAt
                  <4> QED BY <1>2, <4>1, ListType DEF ListOf
            <3>5. /\ ListsOfCallbacks[t][x] = ListOf(callbacks, t, x)
                  /\ ListsOfCallbacks'[t][x] = ListOf(callbacks', t, x)
                  BY <1>4, <3>2
            <3> QED BY <2>2, <3>3, <3>4, <3>5
      <2> QED BY <2>1, <2>2
<1> HIDE DEF Q
<1>7. result' = M!Says(ListsOfCallbacks' = ListsOfCallbacks)
      <2>1. (Len(callbacks') = Len(callbacks)) = (ListsOfCallbacks' = ListsOfCallbacks)
            BY <1>6, Zenon
      <2> QED BY <1>1, <2>1, Answers
<1>8. ListsOfCallbacks' = [ListsOfCallbacks EXCEPT ![t] = [x \in Addresses |->
                             IF ListsOfCallbacks'[t][x] = <<>> THEN <<>> ELSE @[x]]]
      <2>1. ASSUME NEW x \in Addresses
            PROVE  ListOf(callbacks', t, x) = IF ListsOfCallbacks'[t][x] = <<>> THEN <<>>
                                              ELSE ListsOfCallbacks[t][x]
            BY <1>3, <1>4
      <2>2. ASSUME NEW k \in {"set", "get"}, NEW x \in Addresses, k # t
            PROVE  ListOf(callbacks', k, x) = ListOf(callbacks, k, x)
            BY <1>3, <2>2
      <2> QED BY <1>4, <2>1, <2>2
<1>9. UNCHANGED MapOfRegs
      BY <1>1, SameMaps
<1> QED BY <1>7, <1>8, <1>9, Zenon DEF M!Detach, M!Kind

\* Fewer than 2^16 addresses in a row are different ones.
LEMMA PlusDiffers ==
    ASSUME NEW a \in Addresses, NEW i \in 0..Top, NEW j \in 0..Top, Plus(a, i) = Plus(a, j)
    PROVE  i = j
<1> DEFINE n == Top + 1
           x == a.address + i
           y == a.address + j
<1>1. a.address \in 0..Top /\ i \in Nat /\ j \in Nat
      BY Assumed DEF Addresses
<1>2. x % n = y % n
      <2>1. Plus(a, i).address = x % n
            BY <1>1, PlusIs
      <2>2. Plus(a, j).address = y % n
            BY <1>1, PlusIs
      <2> HIDE DEF x, y, n
      <2> QED BY <2>1, <2>2
<1>3. n \in Nat \ {0} /\ x \in Nat /\ y \in Nat /\ x < n + n /\ y < n + n
      BY <1>1, Assumed
<1>4. /\ x % n = x \/ x % n = x - n
      /\ y % n = y \/ y % n = y - n
      <2> HIDE DEF n, x, y
      <2>1. /\ x < n => x % n = x
            /\ n <= x /\ x < n + n => x % n = x - n
            BY <1>3, Remainders
      <2>2. /\ y < n => y % n = y
            /\ n <= y /\ y < n + n => y % n = y - n
            BY <1>3, Remainders
      <2> QED BY <1>3, <2>1, <2>2
<1>5. x = y \/ x = y - n \/ x - n = y
      <2> DEFINE u == x % n
                 v == y % n
      <2>1. (u = x \/ u = x - n) /\ (v = y \/ v = y - n) /\ u = v
            BY <1>2, <1>4
      <2> HIDE DEF u, v, x, y, n
      <2> QED BY <1>3, <2>1
<1> QED BY <1>1, <1>5, Assumed

LEMMA AttachStep ==
    ASSUME IInv, NEW a \in Addresses, NEW t \in {"get", "set"}, NEW cb \in Callbacks,
           NEW n \in Count, Attach(t, a, cb, n)
    PROVE  M!Attach \/ M!Refuse
<1> DEFINE all == [i \in 1..n |-> [type |-> t, address |-> Plus(a, i - 1), cb |-> cb]]
           P == {i \in 1..n : Exists(Plus(a, i - 1))}
           new == Those(all, P)
           S == {Plus(a, i - 1) : i \in P}
<1>1. /\ callbacks' = callbacks \o new /\ UNCHANGED regs
      /\ result' = Says(new # <<>>)
      BY DEF Attach
<1>2. callbacks \in Seq(Attached) /\ n \in Nat /\ n <= Top /\ Top \in Nat
      BY Assumed DEF IInv, Vectors
<1>3. all \in Seq(Attached) /\ DOMAIN all = 1..n /\ P \in SUBSET DOMAIN all
      <2>1. \A i \in 1..n : i - 1 \in Nat
            BY <1>2
      <2>2. \A i \in 1..n : [type |-> t, address |-> Plus(a, i - 1), cb |-> cb] \in Attached
            BY <2>1, PlusIs DEF Attached
      <2> QED BY <1>2, <2>2
<1>4. /\ \A i \in P : i \in 1..n /\ Plus(a, i - 1) \in Registered
      /\ \A i \in 1..n : all[i].type = t /\ all[i].address = Plus(a, i - 1) /\ all[i].cb = cb
      BY Search DEF IInv
<1>5. \A i, j \in 1..n : Plus(a, i - 1) = Plus(a, j - 1) => i = j
      <2> SUFFICES ASSUME NEW i \in 1..n, NEW j \in 1..n, Plus(a, i - 1) = Plus(a, j - 1)
                   PROVE  i = j
            OBVIOUS
      <2>1. i - 1 \in 0..Top /\ j - 1 \in 0..Top
            BY <1>2
      <2>2. i - 1 = j - 1
            BY <2>1, PlusDiffers
      <2> QED BY <1>2, <2>2
<1>6. S \subseteq Registered
      BY <1>4
<1> HIDE DEF all
<1>7. /\ new \in Seq(Attached) /\ DOMAIN new = 1..Cardinality(P) /\ Len(new) = Cardinality(P)
      /\ \A k \in 1..Cardinality(P) : Place(P, k) \in P /\ new[k] = all[Place(P, k)]
      /\ \A i \in P : Rank(P, i) \in 1..Cardinality(P) /\ Place(P, Rank(P, i)) = i
      <2> HIDE DEF P
      <2> QED BY <1>3, ThoseAre
<1> HIDE DEF P, new
<1>8. CASE P = {}
      <2>1. new = <<>>
            BY <1>7, <1>8, FS_EmptySet
      <2>2. callbacks' = callbacks
            BY <1>1, <1>2, <2>1
      <2> QED BY <1>1, <2>1, <2>2, RefuseStep
<1>9. CASE P # {}
      <2>1. new # <<>> /\ S # {}
            BY <1>7, <1>9
      <2>11. ASSUME NEW k, NEW x
             PROVE  /\ (\A l \in DOMAIN new : ~ (new[l].type = k /\ new[l].address = x)) =>
                         ListOf(callbacks', k, x) = ListOf(callbacks, k, x)
                    /\ \A m \in DOMAIN new :
                         (\A l \in DOMAIN new : new[l].type = k /\ new[l].address = x <=> l = m) =>
                           ListOf(callbacks', k, x) = Append(ListOf(callbacks, k, x), new[m].cb)
            <3> DEFINE c == callbacks
                       d == callbacks'
            <3>1. c \in Seq(Attached) /\ new \in Seq(Attached) /\ d = c \o new
                  BY <1>1, <1>2, <1>7
            <3> HIDE DEF c, d
            <3>2. (\A l \in DOMAIN new : ~ (new[l].type = k /\ new[l].address = x)) =>
                     ListOf(c \o new, k, x) = ListOf(c, k, x)
                  BY <3>1, ListGrows
            <3>3. ASSUME NEW m \in DOMAIN new,
                         \A l \in DOMAIN new : new[l].type = k /\ new[l].address = x <=> l = m
                  PROVE  ListOf(c \o new, k, x) = Append(ListOf(c, k, x), new[m].cb)
                  BY <3>1, <3>3, LastOfItsList
            <3> QED BY <3>1, <3>2, <3>3 DEF c, d
      <2>2. ASSUME NEW k \in DOMAIN new
            PROVE  new[k].type = t /\ new[k].cb = cb /\ new[k].address \in S
            BY <1>4, <1>7
      <2>3. ASSUME NEW x, x \notin S
            PROVE  \A k \in DOMAIN new : ~ (new[k].type = t /\ new[k].address = x)
            BY <2>2, <2>3
      <2>4. ASSUME NEW x \in S
            PROVE  \E m \in DOMAIN new : \A k \in DOMAIN new :
                      new[k].type = t /\ new[k].address = x <=> k = m
            <3>1. PICK i \in P : x = Plus(a, i - 1)
                  OBVIOUS
            <3>2. Rank(P, i) \in DOMAIN new /\ Place(P, Rank(P, i)) = i
                  BY <1>7
            <3>3. ASSUME NEW k \in DOMAIN new
                  PROVE  new[k].address = x <=> k = Rank(P, i)
                  <4>1. Place(P, k) \in P /\ Place(P, k) \in 1..n /\ i \in 1..n
                        BY <1>4, <1>7
                  <4>2. new[k].address = Plus(a, Place(P, k) - 1)
                        BY <1>4, <1>7, <4>1
                  <4>3. new[k].address = x => Place(P, k) = i
                        BY <1>5, <3>1, <4>1, <4>2
                  <4>4. Place(P, k) = i => k = Rank(P, i)
                        BY <1>3, <1>7, RankOfPlace
                  <4>5. k = Rank(P, i) => new[k].address = x
                        BY <3>1, <3>2, <4>2
                  <4> QED BY <4>3, <4>4, <4>5
            <3> QED BY <2>2, <3>2, <3>3
      <2>5. ASSUME NEW x \in Addresses
            PROVE  ListOf(callbacks', t, x) = IF x \in S THEN Append(ListOf(callbacks, t, x), cb)
                                              ELSE ListOf(callbacks, t, x)
            <3>1. CASE x \in S
                  <4>1. PICK m \in DOMAIN new : \A k \in DOMAIN new :
                           new[k].type = t /\ new[k].address = x <=> k = m
                        BY <2>4, <3>1
                  <4>2. ListOf(callbacks', t, x) = Append(ListOf(callbacks, t, x), new[m].cb)
                        BY <2>11, <4>1
                  <4> QED BY <2>2, <3>1, <4>2
            <3>2. CASE x \notin S
                  BY <2>3, <2>11, <3>2
            <3> QED BY <3>1, <3>2
      <2>6. ASSUME NEW k \in {"get", "set"}, k # t, NEW x
            PROVE  ListOf(callbacks', k, x) = ListOf(callbacks, k, x)
            <3>1. \A l \in DOMAIN new : ~ (new[l].type = k /\ new[l].address = x)
                  BY <2>2, <2>6
            <3> QED BY <2>11, <3>1
      <2>7. /\ ListsOfCallbacks = [k \in {"set", "get"} |-> [x \in Addresses |-> ListOf(callbacks, k, x)]]
            /\ ListsOfCallbacks' = [k \in {"set", "get"} |-> [x \in Addresses |-> ListOf(callbacks', k, x)]]
            BY TheseAreTheMaps DEF ListsOf
      <2>8. ListsOfCallbacks' = [ListsOfCallbacks EXCEPT ![t] = [x \in Addresses |->
                                   IF x \in S THEN Append(@[x], cb) ELSE @[x]]]
            BY <2>5, <2>6, <2>7
      <2>9. S \in (SUBSET DOMAIN MapOfRegs) \ {{}} /\ UNCHANGED MapOfRegs
            <3>1. DOMAIN MapOfRegs = Registered /\ UNCHANGED MapOfRegs
                  BY <1>1, MapNow, SameMaps
            <3> HIDE DEF S
            <3> QED BY <1>6, <2>1, <3>1
      <2>10. result' = M!Says(TRUE)
            <3>1. (new # <<>>) = TRUE
                  BY <2>1
            <3> QED BY <1>1, <3>1, Answers
      <2> HIDE DEF S
      <2> QED BY <2>8, <2>9, <2>10, Zenon DEF M!Attach, M!Kind
<1> QED BY <1>8, <1>9

LEMMA StepIsMapped == ASSUME IInv, [Next]_vars PROVE [M!NextMap]_M!mapVars
<1>1. CASE Add
      BY <1>1, AddRegStep, Assumed DEF Add, M!NextMap
<1>2. CASE AddArray
      <2>1. PICK a \in Addresses, n \in Count : \E values \in [1..n -> Held(a.type)] : AddRegs(a, values)
            BY <1>2 DEF AddArray
      <2>2. PICK values \in [1..n -> Held(a.type)] : AddRegs(a, values)
            BY <2>1
      <2>3. values \in [1..n -> Values] /\ n \in Nat
            BY Assumed
      <2> QED BY <2>2, <2>3, AddRegsStep DEF M!NextMap
<1>3. CASE Write
      BY <1>3, SetRegStep, Assumed DEF Write, M!NextMap
<1>4. CASE ReadOne
      BY <1>4, GetRegStep DEF ReadOne, M!NextMap
<1>5. CASE Withdraw
      BY <1>5, RemoveRegStep DEF Withdraw, M!NextMap
<1>6. CASE Getter
      <2>1. PICK a \in Addresses, cb \in Optional, n \in Count : OnGet(a, cb, n)
            BY <1>6 DEF Getter
      <2> QED BY <2>1, RemoveOnStep, AttachStep DEF OnGet, Optional, M!NextMap
<1>7. CASE Setter
      <2>1. PICK a \in Addresses, cb \in Optional, n \in Count : OnSet(a, cb, n)
            BY <1>7 DEF Setter
      <2> QED BY <2>1, RemoveOnStep, AttachStep DEF OnSet, Optional, M!NextMap
<1>8. CASE RemoveGetter \/ RemoveSetter
      BY <1>8, RemoveOnStep DEF RemoveGetter, RemoveSetter, M!NextMap
<1>9. CASE Enable
      BY <1>9, SameMaps DEF Enable, CbEnable, M!mapVars
<1>10. CASE UNCHANGED vars
      BY <1>10, SameMaps DEF vars, M!mapVars
<1> QED BY <1>1, <1>2, <1>3, <1>4, <1>5, <1>6, <1>7, <1>8, <1>9, <1>10 DEF Next

(* Modbus.cpp and ModbusAPI.h: every call, with whatever arguments, does to  *)
(* the two vectors what one step of RegisterMap does to the map and to the   *)
(* lists of handlers they stand for, or leaves these as they are.            *)
THEOREM VectorsAreAMap == Spec => ImplementsRegisterMap
<1>1. Init => IInv /\ M!InitMap
      BY StartKeeps, StartIsMapped
<1>2. IInv /\ [Next]_vars => IInv' /\ [M!NextMap]_M!mapVars
      BY StepKeeps, StepIsMapped
<1> QED BY <1>1, <1>2, PTL DEF Spec, ImplementsRegisterMap, M!MapSpec

--------------------------------------------------------------------------------
(* The queues. *)

(* How far a slot lies behind another, and the slot that lies that far.     *)
Dist(o, s) == IF s >= o THEN s - o ELSE s - o + Size
Shift(o, d) == IF o + d < Size THEN o + d ELSE o + d - Size

Ahead(s) == Dist(m_outPos, s)
Slot(i) == Shift(m_outPos, i - 1)  \* where the i-th of what is held belongs

SingleLocals == {Resting} \cup [pc : {"write", "store", "peeked"}, elements : Seq(Elements)]
SharedLocals ==
    {Resting} \cup [pc : {"claim"}, e : Elements]
        \cup [pc : {"check", "claim slot", "write"}, e : Elements, in : Slots]
        \cup [pc : {"leave"}] \cup [pc : {"count"}, in : Slots]
        \cup [pc : {"publish", "decrement"}, in : Slots, concurrent : Nat]
Names == {"pop", "pop_n", "for_each", "for_each_rev_requeue", "flush"}
Views == {Resting} \cup [pc : {"read", "store"}, name : Names, n : Nat,
                         got : Seq(Elements), keep : SUBSET Nat]

QueueTypes ==
    /\ shared \in BOOLEAN /\ fits = TRUE
    /\ m_buffer \in [Slots -> Elements \cup {Nothing}]
    /\ m_inPos \in Slots /\ m_outPos \in Slots /\ m_inPos_mp \in Slots
    /\ m_concurrent_mp \in Nat
    /\ held \in Seq(Elements) /\ Len(held) < Size
    /\ producer \in [Producers -> IF shared THEN SharedLocals ELSE SingleLocals]
    /\ consumer \in Views

(* One producer: all that is held can be popped, and a push keeps to what   *)
(* was free when it looked.                                                 *)
Single ==
    ~shared =>
      /\ Ahead(m_inPos) = Len(held)
      /\ \A p \in Producers : p # Owner => producer[p] = Resting
      /\ producer[Owner].pc \in {"write", "store"} =>
            Len(held) + Len(producer[Owner].elements) < Size
      /\ producer[Owner].pc = "peeked" => Len(producer[Owner].elements) = 1
      /\ producer[Owner].pc \in {"store", "peeked"} =>
            \A k \in 1..Len(producer[Owner].elements) :
                m_buffer[Slot(Len(held) + k)] = producer[Owner].elements[k]

(* Several: what a producer has read of m_inPos_mp lies between m_inPos and *)
(* m_inPos_mp; who publishes is the only one to do so, and nobody has read   *)
(* less; a slot that is claimed was free, and is not published before it is *)
(* written.                                                                 *)
Reading == {"check", "claim slot", "write", "count", "publish"}
Inside == {p \in Producers : producer[p] # Resting}
Shared ==
    shared =>
      /\ Ahead(m_inPos_mp) = Len(held) /\ Ahead(m_inPos) <= Len(held)
      /\ m_concurrent_mp = Cardinality(Inside)
      /\ \A p \in Producers : producer[p].pc \in Reading =>
            Ahead(m_inPos) <= Ahead(producer[p].in) /\ Ahead(producer[p].in) <= Len(held)
      /\ \A p \in Producers : producer[p].pc = "claim slot" =>
            Ahead(producer[p].in) + 1 < Size
      /\ \A p \in Producers : producer[p].pc = "write" =>
            /\ Ahead(producer[p].in) < Len(held)
            /\ held[Ahead(producer[p].in) + 1] = producer[p].e
      /\ \A p, q \in Producers : p # q /\ producer[p].pc = "publish" =>
            /\ producer[q].pc # "publish"
            /\ producer[q].pc \in Reading => Ahead(producer[p].in) <= Ahead(producer[q].in)

(* Everything held is in its slot, or about to be written there, or has     *)
(* just been seen by the consumer; what that wants to keep is in place.     *)
Pending(s) == shared /\ \E p \in Producers : producer[p].pc = "write" /\ producer[p].in = s
Seen == IF consumer.pc = "store" THEN Taken ELSE 0
Contents == \A i \in 1..Len(held) : i > Seen => Pending(Slot(i)) \/ m_buffer[Slot(i)] = held[i]
Consumed ==
    consumer # Resting =>
      /\ consumer.n \in 1..Ahead(m_inPos)
      /\ consumer.pc = "read" => consumer.name # "flush" /\ consumer.keep = {}
      /\ consumer.keep \in SUBSET (1..consumer.n)
      /\ consumer.name # "for_each_rev_requeue" => consumer.keep = {}
      /\ consumer.pc = "store" =>
           /\ consumer.name # "flush" => consumer.got = SubSeq(held, 1, Taken)
           /\ \A k \in 1..Cardinality(consumer.keep) :
                m_buffer[Slot(consumer.n - Cardinality(consumer.keep) + k)]
                    = held[Place(consumer.keep, k)]

QueueInv == QueueTypes /\ Single /\ Shared /\ Contents /\ Consumed

--------------------------------------------------------------------------------
(* The ring. *)

LEMMA SizeType == Size \in Nat /\ Size > 1 /\ Slots = 0..(Size - 1)
BY CircularQueueAssumption DEF Slots

LEMMA Remainder ==
    ASSUME NEW n \in Nat, n > 0, NEW x \in Int, -n <= x, x < 2 * n
    PROVE  x % n = IF x < 0 THEN x + n ELSE IF x < n THEN x ELSE x - n
OBVIOUS

LEMMA Rounds ==
    ASSUME NEW x \in Int, -Size <= x, x < 2 * Size
    PROVE  x % Size = IF x < 0 THEN x + Size ELSE IF x < Size THEN x ELSE x - Size
BY SizeType, Remainder

LEMMA DistIs ==
    ASSUME NEW o \in Slots, NEW s \in Slots
    PROVE  Dist(o, s) \in Slots /\ Shift(o, Dist(o, s)) = s
BY SizeType DEF Dist, Shift

LEMMA ShiftIs ==
    ASSUME NEW o \in Slots, NEW d \in Slots
    PROVE  Shift(o, d) \in Slots /\ Dist(o, Shift(o, d)) = d
BY SizeType DEF Dist, Shift

LEMMA Closer ==
    ASSUME NEW o \in Slots, NEW s \in Slots, NEW m \in 0..Dist(o, s)
    PROVE  Shift(o, m) \in Slots /\ Dist(Shift(o, m), s) = Dist(o, s) - m
BY SizeType DEF Dist, Shift

LEMMA Farther ==
    ASSUME NEW o \in Slots, NEW m \in Nat, NEW d \in Nat, m + d < Size
    PROVE  /\ Shift(o, m) \in Slots /\ Shift(Shift(o, m), d) = Shift(o, m + d)
           /\ Dist(o, Shift(o, m + d)) = m + d
BY SizeType DEF Dist, Shift

LEMMA Steps ==
    ASSUME NEW o \in Slots, NEW d \in Nat, d < Size
    PROVE  /\ (o + d) % Size = Shift(o, d)
           /\ \A s \in Slots : (s - o) % Size = Dist(o, s)
<1>1. o \in Nat /\ o < Size
      BY SizeType
<1>2. (o + d) % Size = Shift(o, d)
      <2> DEFINE x == o + d
      <2>1. x \in Int /\ -Size <= x /\ x < 2 * Size /\ ~ (x < 0)
            BY <1>1, SizeType
      <2>2. x % Size = IF x < Size THEN x ELSE x - Size
            <3> HIDE DEF x
            <3> QED BY <2>1, Rounds
      <2> QED BY <2>2, <1>1, SizeType DEF Shift
<1>3. ASSUME NEW s \in Slots PROVE (s - o) % Size = Dist(o, s)
      <2>1. s \in Nat /\ s < Size
            BY SizeType
      <2>2. s - o \in Int /\ -Size <= s - o /\ s - o < 2 * Size /\ s - o < Size
            BY <1>1, <2>1, SizeType
      <2>3. s - o < 0 <=> ~ (s >= o)
            BY <1>1, <2>1
      <2> QED BY <2>2, <2>3, Rounds DEF Dist
<1> QED BY <1>2, <1>3

LEMMA Room ==
    ASSUME NEW in \in Slots, NEW out \in Slots
    PROVE  /\ PushRoom(in, out) \in {0, 1}
           /\ PushRoom(in, out) = 1 => Dist(out, in) + 1 < Size
<1>1. (in + 1) % Size = Shift(in, 1)
      BY Steps, SizeType
<1> QED BY <1>1, SizeType DEF PushRoom, Dist, Shift

LEMMA RoomForBlock ==
    ASSUME NEW in \in Slots, NEW out \in Slots, NEW size \in Nat
    PROVE  /\ PushNRoom(in, out, size) \in 0..size
           /\ Dist(out, in) + PushNRoom(in, out, size) < Size
<1> DEFINE free == IF out > in THEN out - 1 - in
                   ELSE IF out = 0 THEN Size - 1 - in ELSE Size - in
           block == Smaller(size, free)
           next == (in + block) % Size
           rest == IF out > 1 /\ next < out THEN Smaller(size - block, out - next - 1)
                   ELSE IF out > 1 THEN size - block ELSE 0
<1>1. /\ in \in Nat /\ in < Size /\ out \in Nat /\ out < Size
      /\ free \in Nat /\ in + free <= Size
      BY SizeType
<1>2. block \in Nat /\ block <= size /\ block <= free /\ (block < size => block = free)
      BY <1>1 DEF Smaller
<1>3. next = IF in + block < Size THEN in + block ELSE 0
      <2> DEFINE x == in + block
      <2>1. x \in Int /\ -Size <= x /\ x < 2 * Size /\ ~ (x < 0) /\ x <= Size
            BY <1>1, <1>2, SizeType
      <2>2. x % Size = IF x < Size THEN x ELSE x - Size
            <3> HIDE DEF x
            <3> QED BY <2>1, Rounds
      <2> QED BY <2>1, <2>2, SizeType
<1>4. rest \in Nat /\ block + rest <= size /\ Dist(out, in) + block + rest < Size
      <2>1. CASE block = size
            <3>1. rest = 0
                  BY <2>1, <1>1, <1>2, <1>3, SizeType DEF Smaller
            <3> QED BY <3>1, <2>1, <1>1, <1>2, SizeType DEF Dist
      <2>2. CASE block < size /\ out > in
            BY <2>2, <1>1, <1>2, <1>3, SizeType DEF Dist, Smaller
      <2>3. CASE block < size /\ ~ (out > in)
            BY <2>3, <1>1, <1>2, <1>3, SizeType DEF Dist, Smaller
      <2> QED BY <2>1, <2>2, <2>3, <1>2
<1>5. PushNRoom(in, out, size) = IF block = 0 THEN 0 ELSE block + rest
      BY DEF PushNRoom
<1>6. Dist(out, in) \in Nat /\ Dist(out, in) < Size
      BY <1>1, SizeType, DistIs
<1> QED BY <1>2, <1>4, <1>5, <1>6

--------------------------------------------------------------------------------
(* What the invariant says. *)

LEMMA LocalIs ==
    ASSUME NEW l \in SharedLocals
    PROVE  /\ l.pc \in {"idle", "claim", "check", "claim slot", "write", "leave", "count",
                        "publish", "decrement"}
           /\ l = Resting <=> l.pc = "idle"
           /\ l.pc \in {"claim", "check", "claim slot", "write"} => l.e \in Elements
           /\ l.pc \in Reading \cup {"decrement"} => l.in \in Slots
           /\ l.pc \in {"publish", "decrement"} => l.concurrent \in Nat
           /\ l.pc \in {"check", "claim slot", "write"} => l = [pc |-> l.pc, e |-> l.e, in |-> l.in]
           /\ l.pc \in {"publish", "decrement"} =>
                 l = [pc |-> l.pc, in |-> l.in, concurrent |-> l.concurrent]
<1>1. CASE l = Resting
      BY <1>1 DEF Resting, Reading
<1>2. CASE l \in [pc : {"claim"}, e : Elements]
      <2>1. l.pc = "claim" /\ l.e \in Elements
            BY <1>2
      <2>2. l.pc # "idle"
            BY <2>1
      <2>3. l # Resting
            BY <2>2 DEF Resting
      <2> QED BY <2>1, <2>2, <2>3 DEF Reading
<1>3. CASE l \in [pc : {"check", "claim slot", "write"}, e : Elements, in : Slots]
      <2>1. /\ l.pc \in {"check", "claim slot", "write"} /\ l.e \in Elements /\ l.in \in Slots
            /\ l = [pc |-> l.pc, e |-> l.e, in |-> l.in]
            BY <1>3
      <2>2. l.pc # "idle"
            BY <2>1
      <2>3. l # Resting
            BY <2>2 DEF Resting
      <2> QED BY <2>1, <2>2, <2>3 DEF Reading
<1>4. CASE l \in [pc : {"leave"}]
      <2>1. l.pc = "leave"
            BY <1>4
      <2>2. l.pc # "idle"
            BY <2>1
      <2>3. l # Resting
            BY <2>2 DEF Resting
      <2> QED BY <2>1, <2>2, <2>3 DEF Reading
<1>5. CASE l \in [pc : {"count"}, in : Slots]
      <2>1. l.pc = "count" /\ l.in \in Slots
            BY <1>5
      <2>2. l.pc # "idle"
            BY <2>1
      <2>3. l # Resting
            BY <2>2 DEF Resting
      <2> QED BY <2>1, <2>2, <2>3 DEF Reading
<1>6. CASE l \in [pc : {"publish", "decrement"}, in : Slots, concurrent : Nat]
      <2>1. /\ l.pc \in {"publish", "decrement"} /\ l.in \in Slots /\ l.concurrent \in Nat
            /\ l = [pc |-> l.pc, in |-> l.in, concurrent |-> l.concurrent]
            BY <1>6
      <2>2. l.pc # "idle"
            BY <2>1
      <2>3. l # Resting
            BY <2>2 DEF Resting
      <2> QED BY <2>1, <2>2, <2>3 DEF Reading
<1> QED BY <1>1, <1>2, <1>3, <1>4, <1>5, <1>6 DEF SharedLocals

LEMMA LocalOfOne ==
    ASSUME NEW l \in SingleLocals
    PROVE  /\ l.pc \in {"idle", "write", "store", "peeked"}
           /\ l = Resting <=> l.pc = "idle"
           /\ l.pc # "idle" => l = [pc |-> l.pc, elements |-> l.elements] /\ l.elements \in Seq(Elements)
BY DEF SingleLocals, Resting

LEMMA ViewIs ==
    ASSUME NEW c \in Views
    PROVE  /\ c.pc \in {"idle", "read", "store"} /\ (c = Resting <=> c.pc = "idle")
           /\ c # Resting => /\ c = [pc |-> c.pc, name |-> c.name, n |-> c.n,
                                     got |-> c.got, keep |-> c.keep]
                             /\ c.name \in Names /\ c.n \in Nat
                             /\ c.got \in Seq(Elements) /\ c.keep \in SUBSET Nat
BY DEF Views, Resting

LEMMA OwnerIs == Owner \in Producers
BY CircularQueueAssumption DEF Owner

LEMMA Ordered ==
    /\ \A m \in Nat : m <= m
    /\ \A k, m, n \in Nat : k <= m /\ m <= n => k <= n
    /\ \A m, n \in Nat : m <= n => \A k \in 1..m : k \in 1..n
OBVIOUS

LEMMA AheadIs ==
    ASSUME m_outPos \in Slots
    PROVE  \A s \in Slots : Ahead(s) \in Nat /\ Ahead(s) < Size
BY DistIs, SizeType DEF Ahead

LEMMA PlacesOnTheRing ==
    ASSUME m_outPos \in Slots
    PROVE  /\ \A s \in Slots : Ahead(s) \in 0..Size - 1 /\ Slot(Ahead(s) + 1) = s
           /\ \A i \in 1..Size : Slot(i) \in Slots /\ Ahead(Slot(i)) = i - 1
           /\ \A i \in 0..Size - 1 : At(i) = m_buffer[Slot(i + 1)]
           /\ \A s \in Slots : (s - m_outPos) % Size = Ahead(s)
<1>1. ASSUME NEW s \in Slots PROVE Ahead(s) \in 0..Size - 1 /\ Slot(Ahead(s) + 1) = s
      <2>1. Dist(m_outPos, s) \in Slots /\ Shift(m_outPos, Dist(m_outPos, s)) = s
            BY DistIs
      <2>2. Dist(m_outPos, s) + 1 - 1 = Dist(m_outPos, s)
            BY <2>1, SizeType
      <2> QED BY <2>1, <2>2, SizeType DEF Ahead, Slot
<1>2. ASSUME NEW i \in 1..Size PROVE Slot(i) \in Slots /\ Ahead(Slot(i)) = i - 1
      BY ShiftIs, SizeType DEF Ahead, Slot
<1>3. ASSUME NEW i \in 0..Size - 1 PROVE At(i) = m_buffer[Slot(i + 1)]
      <2>1. i \in Nat /\ i < Size /\ i + 1 - 1 = i
            BY SizeType
      <2> QED BY <2>1, Steps DEF At, Slot
<1>4. ASSUME NEW s \in Slots PROVE (s - m_outPos) % Size = Ahead(s)
      BY Steps, SizeType DEF Ahead
<1> QED BY <1>1, <1>2, <1>3, <1>4

\* All that is published is there.
LEMMA PublishedIsThere ==
    ASSUME QueueInv
    PROVE  /\ Ahead(m_inPos) \in 0..Len(held) /\ available = Ahead(m_inPos)
           /\ \A i \in 1..Ahead(m_inPos) :
                 /\ i \in 1..Len(held) /\ i \in 1..Size - 1 /\ ~ Pending(Slot(i))
                 /\ i > Seen => m_buffer[Slot(i)] = held[i] /\ At(i - 1) = held[i]
<1>1. /\ m_outPos \in Slots /\ m_inPos \in Slots /\ Len(held) \in Nat /\ Len(held) < Size
      /\ shared \in BOOLEAN
      BY DEF QueueInv, QueueTypes
<1>2. /\ \A s \in Slots : Ahead(s) \in 0..Size - 1
      /\ \A i \in 1..Size : Ahead(Slot(i)) = i - 1
      /\ \A i \in 0..Size - 1 : At(i) = m_buffer[Slot(i + 1)]
      /\ \A s \in Slots : (s - m_outPos) % Size = Ahead(s)
      BY <1>1, PlacesOnTheRing
<1>3. available = Ahead(m_inPos)
      BY <1>1, <1>2 DEF available
<1>4. Ahead(m_inPos) \in 0..Len(held)
      <2>1. ~shared => Ahead(m_inPos) = Len(held)
            BY DEF QueueInv, Single
      <2>2. shared => Ahead(m_inPos) <= Len(held)
            BY DEF QueueInv, Shared
      <2>3. Ahead(m_inPos) \in 0..Size - 1
            BY <1>1, <1>2
      <2> QED BY <1>1, <2>1, <2>2, <2>3, SizeType
<1>5. ASSUME NEW i \in 1..Ahead(m_inPos)
      PROVE  /\ i \in 1..Len(held) /\ i \in 1..Size - 1 /\ ~ Pending(Slot(i))
             /\ i > Seen => m_buffer[Slot(i)] = held[i] /\ At(i - 1) = held[i]
      <2>1. /\ i \in 1..Len(held) /\ i \in 1..Size /\ i \in 1..Size - 1
            /\ i - 1 \in 0..Size - 1 /\ (i - 1) + 1 = i
            BY <1>1, <1>4, SizeType
      <2>2. Ahead(Slot(i)) = i - 1
            BY <1>2, <2>1
      <2>3. ASSUME Pending(Slot(i)) PROVE FALSE
            <3>1. PICK p \in Producers : producer[p].pc = "write" /\ producer[p].in = Slot(i)
                  BY <2>3 DEF Pending
            <3>2. shared
                  BY <2>3 DEF Pending
            <3>3. Ahead(m_inPos) <= Ahead(Slot(i))
                  BY <3>1, <3>2 DEF QueueInv, Shared, Reading
            <3> QED BY <3>3, <2>2, <1>4, <1>1
      <2>4. i > Seen => m_buffer[Slot(i)] = held[i]
            BY <2>1, <2>3 DEF QueueInv, Contents
      <2>5. At(i - 1) = m_buffer[Slot(i)]
            BY <1>2, <2>1
      <2> QED BY <2>1, <2>3, <2>4, <2>5
<1> QED BY <1>3, <1>4, <1>5

LEMMA InvIsFifo == ASSUME QueueInv PROVE QueueIsFifo
<1> DEFINE n == Ahead(m_inPos)
<1>1. /\ fits /\ Len(held) < Size /\ held \in Seq(Elements) /\ Len(held) \in Nat
      /\ m_inPos \in Slots /\ m_outPos \in Slots
      BY DEF QueueInv, QueueTypes
<1>2. /\ n \in 0..Len(held) /\ available = n
      /\ \A i \in 1..n : i > Seen => At(i - 1) = held[i]
      BY PublishedIsThere
<1> HIDE DEF n
<1> SUFFICES ASSUME consumer.pc # "store"
             PROVE  /\ available <= Len(held) /\ Published = SubSeq(held, 1, available)
                    /\ ~shared => /\ Published = held
                                  /\ available + available_for_push = Size - 1
                    /\ available > 0 => peek = Head(held)
      BY <1>1 DEF QueueIsFifo
<1>3. \A i \in 1..n : At(i - 1) = held[i]
      BY <1>2 DEF Seen
<1>4. Published = [i \in 1..n |-> held[i]]
      BY <1>2, <1>3 DEF Published
<1>5. Published = SubSeq(held, 1, n)
      BY <1>1, <1>2, <1>4, FrontIs
<1>6. ASSUME ~shared PROVE Published = held /\ available + available_for_push = Size - 1
      <2>1. n = Len(held)
            BY <1>6 DEF n, QueueInv, Single
      <2>2. held = [i \in 1..Len(held) |-> held[i]]
            BY <1>1
      <2>3. Published = held
            BY <1>4, <2>1, <2>2
      <2> DEFINE x == m_outPos - m_inPos - 1
      <2>4. /\ m_outPos \in Nat /\ m_inPos \in Nat /\ m_outPos < Size /\ m_inPos < Size
            BY <1>1, SizeType
      <2>5. x \in Int /\ -Size <= x /\ x < 2 * Size /\ x < Size
            BY <2>4, SizeType
      <2>6. available_for_push = IF x < 0 THEN x + Size ELSE x
            <3>1. available_for_push = x % Size
                  BY DEF available_for_push
            <3> HIDE DEF x
            <3> QED BY <2>5, <3>1, Rounds
      <2>7. n = IF m_inPos >= m_outPos THEN m_inPos - m_outPos ELSE m_inPos - m_outPos + Size
            BY DEF n, Ahead, Dist
      <2>8. n + available_for_push = Size - 1
            BY <2>4, <2>6, <2>7, SizeType
      <2> QED BY <2>3, <2>8, <1>2
<1>7. ASSUME available > 0 PROVE peek = Head(held)
      <2>1. 1 \in 1..n /\ 1 - 1 = 0
            BY <1>1, <1>2, <1>7
      <2>2. At(0) = held[1]
            BY <1>3, <2>1
      <2> QED BY <2>2 DEF peek
<1> QED BY <1>2, <1>5, <1>6, <1>7

LEMMA QueueStarts == ASSUME QueueInit PROVE QueueInv
<1>1. /\ shared \in BOOLEAN /\ m_buffer = [s \in Slots |-> Nothing]
      /\ m_inPos = 0 /\ m_outPos = 0 /\ m_inPos_mp = 0 /\ m_concurrent_mp = 0
      /\ producer = [p \in Producers |-> Resting] /\ consumer = Resting
      /\ held = <<>> /\ fits = TRUE
      BY DEF QueueInit
<1>2. 0 \in Slots /\ Ahead(0) = 0
      BY <1>1, SizeType DEF Ahead, Dist
<1>3. Len(held) = 0 /\ held \in Seq(Elements) /\ Len(held) < Size
      BY <1>1, SizeType
<1>4. Resting \in SharedLocals /\ Resting \in SingleLocals /\ Resting \in Views /\ Resting.pc = "idle"
      BY DEF SharedLocals, SingleLocals, Views, Resting
<1>5. producer \in [Producers -> IF shared THEN SharedLocals ELSE SingleLocals]
      BY <1>1, <1>4
<1>6. QueueTypes
      BY <1>1, <1>2, <1>3, <1>4, <1>5 DEF QueueTypes
<1>7. \A p \in Producers : producer[p] = Resting /\ producer[p].pc = "idle"
      BY <1>1, <1>4
<1>8. Single
      BY <1>1, <1>2, <1>3, <1>7, OwnerIs DEF Single
<1>9. Inside = {}
      BY <1>7 DEF Inside
<1>10. Shared
      <2>1. Cardinality(Inside) = 0
            BY <1>9, FS_EmptySet
      <2>2. \A p \in Producers : /\ producer[p].pc \notin Reading
                                 /\ producer[p].pc \notin {"claim slot", "write", "publish"}
            BY <1>7 DEF Reading
      <2>3. Ahead(m_inPos_mp) = Len(held) /\ Ahead(m_inPos) <= Len(held)
            BY <1>1, <1>2, <1>3
      <2> QED BY <1>1, <2>1, <2>2, <2>3 DEF Shared
<1>11. Contents /\ Consumed
      BY <1>1, <1>3 DEF Contents, Consumed
<1> QED BY <1>6, <1>8, <1>10, <1>11 DEF QueueInv

\* What does not change.
LEMMA SameRing ==
    ASSUME UNCHANGED m_outPos
    PROVE  (\A s : Ahead(s)' = Ahead(s)) /\ (\A i : Slot(i)' = Slot(i))
BY DEF Ahead, Slot

LEMMA SameView ==
    ASSUME UNCHANGED consumer
    PROVE  Seen' = Seen /\ Taken' = Taken
BY DEF Seen, Taken

--------------------------------------------------------------------------------
(* Several producers: a step that moves only p. *)

LEMMA OneMoves ==
    ASSUME QueueInv, NEW p \in Producers, NEW l, producer' = [producer EXCEPT ![p] = l]
    PROVE  \A q \in Producers : producer'[q] = IF q = p THEN l ELSE producer[q]
BY DEF QueueInv, QueueTypes

LEMMA LedgerStep ==
    ASSUME QueueInv, shared, NEW p \in Producers, NEW l \in SharedLocals,
           producer' = [producer EXCEPT ![p] = l],
           UNCHANGED <<shared, m_outPos, m_inPos_mp, held>>,
           m_inPos' \in Slots, Ahead(m_inPos) <= Ahead(m_inPos'), Ahead(m_inPos') <= Len(held),
           \A q \in Producers : q # p /\ producer[q].pc \in Reading =>
               Ahead(m_inPos') <= Ahead(producer[q].in),
           m_concurrent_mp' \in Nat, m_concurrent_mp' = Cardinality(Inside'),
           l.pc # "write",
           l.pc \in Reading => /\ Ahead(m_inPos') <= Ahead(l.in) /\ Ahead(l.in) <= Len(held)
                               /\ \A q \in Producers : q # p /\ producer[q].pc = "publish" =>
                                     Ahead(producer[q].in) <= Ahead(l.in),
           l.pc = "claim slot" => Ahead(l.in) + 1 < Size,
           l.pc = "publish" => \A q \in Producers \ {p} : producer[q].pc \notin Reading
    PROVE  Shared'
<1>1. \A q \in Producers : producer'[q] = IF q = p THEN l ELSE producer[q]
      BY OneMoves
<1>2. \A s : Ahead(s)' = Ahead(s)
      BY SameRing
<1>3. /\ Ahead(m_inPos_mp)' = Len(held)' /\ Ahead(m_inPos)' <= Len(held)'
      /\ m_concurrent_mp' = Cardinality(Inside')
      BY <1>2 DEF QueueInv, Shared, Ahead
<1>4. ASSUME NEW q \in Producers, producer'[q].pc \in Reading
      PROVE  /\ Ahead(m_inPos)' <= Ahead(producer[q].in)'
             /\ Ahead(producer[q].in)' <= Len(held)'
      BY <1>1, <1>2, <1>4 DEF QueueInv, Shared, Ahead
<1>5. ASSUME NEW q \in Producers, producer'[q].pc = "claim slot"
      PROVE  Ahead(producer[q].in)' + 1 < Size
      BY <1>1, <1>5 DEF QueueInv, Shared, Ahead
<1>6. ASSUME NEW q \in Producers, producer'[q].pc = "write"
      PROVE  /\ Ahead(producer[q].in)' < Len(held)'
             /\ held'[(Ahead(producer[q].in) + 1)'] = producer'[q].e
      <2>1. q # p /\ producer'[q] = producer[q] /\ producer[q].pc = "write"
            BY <1>1, <1>6
      <2>2. Ahead(producer[q].in) < Len(held) /\ held[Ahead(producer[q].in) + 1] = producer[q].e
            BY <2>1 DEF QueueInv, Shared
      <2> QED BY <2>1, <2>2 DEF Ahead
<1>7. ASSUME NEW q \in Producers, NEW r \in Producers, q # r, producer'[q].pc = "publish"
      PROVE  /\ producer'[r].pc # "publish"
             /\ producer'[r].pc \in Reading =>
                   Ahead(producer[q].in)' <= Ahead(producer[r].in)'
      <2>1. CASE q = p
            <3>1. producer'[r].pc \notin Reading
                  BY <1>1, <1>7, <2>1
            <3> QED BY <3>1 DEF Reading
      <2>2. CASE r = p
            <3>1. producer'[q] = producer[q] /\ producer'[r] = l /\ producer[q].pc = "publish"
                  BY <1>1, <1>7, <2>2
            <3>2. l.pc # "publish"
                  BY <1>7, <2>2, <3>1 DEF Reading
            <3>3. l.pc \in Reading => Ahead(producer[q].in) <= Ahead(l.in)
                  BY <1>7, <2>2, <3>1
            <3> QED BY <3>1, <3>2, <3>3 DEF Ahead
      <2>3. CASE q # p /\ r # p
            <3>1. producer'[q] = producer[q] /\ producer'[r] = producer[r]
                  BY <1>1, <2>3
            <3>2. /\ producer[r].pc # "publish"
                  /\ producer[r].pc \in Reading => Ahead(producer[q].in) <= Ahead(producer[r].in)
                  BY <1>7, <3>1 DEF QueueInv, Shared
            <3> QED BY <3>1, <3>2 DEF Ahead
      <2> QED BY <2>1, <2>2, <2>3
<1> QED BY <1>3, <1>4, <1>5, <1>6, <1>7 DEF Shared

LEMMA SharedStep ==
    ASSUME QueueInv, shared, NEW p \in Producers, NEW l \in SharedLocals,
           producer' = [producer EXCEPT ![p] = l],
           UNCHANGED <<shared, m_buffer, m_outPos, m_inPos_mp, consumer, held, fits>>,
           m_inPos' \in Slots, Ahead(m_inPos) <= Ahead(m_inPos'), Ahead(m_inPos') <= Len(held),
           \A q \in Producers : q # p /\ producer[q].pc \in Reading =>
               Ahead(m_inPos') <= Ahead(producer[q].in),
           m_concurrent_mp' \in Nat, m_concurrent_mp' = Cardinality(Inside'),
           producer[p].pc # "write", l.pc # "write",
           l.pc \in Reading => /\ Ahead(m_inPos') <= Ahead(l.in) /\ Ahead(l.in) <= Len(held)
                               /\ \A q \in Producers : q # p /\ producer[q].pc = "publish" =>
                                     Ahead(producer[q].in) <= Ahead(l.in),
           l.pc = "claim slot" => Ahead(l.in) + 1 < Size,
           l.pc = "publish" => \A q \in Producers \ {p} : producer[q].pc \notin Reading
    PROVE  QueueInv'
<1>1. \A q \in Producers : producer'[q] = IF q = p THEN l ELSE producer[q]
      BY OneMoves
<1>2. /\ \A s : Ahead(s)' = Ahead(s)
      /\ \A i : Slot(i)' = Slot(i)
      /\ Seen' = Seen /\ Taken' = Taken
      BY SameRing, SameView
<1>3. QueueTypes'
      BY DEF QueueInv, QueueTypes
<1>4. Single'
      BY DEF Single
<1>5. Shared'
      BY LedgerStep
<1>6. \A s : Pending(s) => Pending(s)'
      BY <1>1 DEF Pending
<1>7. Contents'
      BY <1>2, <1>6 DEF QueueInv, Contents
<1>8. Consumed'
      <2> SUFFICES ASSUME consumer # Resting PROVE Consumed'
            BY DEF Consumed
      <2>1. consumer.n \in 1..Ahead(m_inPos)
            BY DEF QueueInv, Consumed
      <2>2. m_inPos \in Slots /\ m_outPos \in Slots
            BY DEF QueueInv, QueueTypes
      <2>3. Ahead(m_inPos) \in Nat /\ Ahead(m_inPos') \in Nat
            BY <2>2, AheadIs
      <2>4. consumer.n \in 1..Ahead(m_inPos')
            BY <2>1, <2>3, Ordered, Zenon
      <2>5. consumer.n \in 1..Ahead(m_inPos)'
            BY <2>4 DEF Ahead
      <2> QED BY <1>2, <2>5 DEF QueueInv, Consumed
<1> QED BY <1>3, <1>4, <1>5, <1>7, <1>8 DEF QueueInv

LEMMA SharedMove ==
    ASSUME QueueInv, shared, NEW p \in Producers, NEW l \in SharedLocals,
           producer' = [producer EXCEPT ![p] = l],
           UNCHANGED <<shared, m_buffer, m_inPos, m_outPos, m_inPos_mp, consumer, held, fits>>,
           m_concurrent_mp' \in Nat, m_concurrent_mp' = Cardinality(Inside'),
           producer[p].pc # "write", l.pc # "write",
           l.pc \in Reading => /\ Ahead(m_inPos) <= Ahead(l.in) /\ Ahead(l.in) <= Len(held)
                               /\ \A q \in Producers : q # p /\ producer[q].pc = "publish" =>
                                     Ahead(producer[q].in) <= Ahead(l.in),
           l.pc = "claim slot" => Ahead(l.in) + 1 < Size,
           l.pc = "publish" => \A q \in Producers \ {p} : producer[q].pc \notin Reading
    PROVE  QueueInv'
<1>1. m_inPos' = m_inPos /\ m_inPos \in Slots /\ m_outPos \in Slots
      BY DEF QueueInv, QueueTypes
<1>2. Ahead(m_inPos) \in Nat
      BY <1>1, AheadIs
<1>3. /\ Ahead(m_inPos) <= Len(held)
      /\ \A q \in Producers : q # p /\ producer[q].pc \in Reading =>
            Ahead(m_inPos) <= Ahead(producer[q].in)
      BY DEF QueueInv, Shared
<1>4. Ahead(m_inPos) <= Ahead(m_inPos)
      BY <1>2, Ordered, Zenon
<1> QED BY <1>1, <1>3, <1>4, SharedStep

\* What p has read of m_inPos_mp, and who is inside.
LEMMA HasRead ==
    ASSUME QueueInv, shared
    PROVE  /\ m_inPos_mp \in Slots /\ Ahead(m_inPos_mp) = Len(held) /\ Len(held) \in Nat
           /\ Ahead(m_inPos) <= Len(held)
           /\ \A q \in Producers : /\ producer[q] \in SharedLocals
                                   /\ producer[q].pc = "publish" =>
                                        Ahead(producer[q].in) <= Len(held)
           /\ \A q \in Producers : producer[q].pc \in Reading =>
                  /\ Ahead(m_inPos) <= Ahead(producer[q].in)
                  /\ Ahead(producer[q].in) <= Len(held)
                  /\ \A r \in Producers : r # q /\ producer[r].pc = "publish" =>
                        Ahead(producer[r].in) <= Ahead(producer[q].in)
<1>1. m_inPos_mp \in Slots /\ Ahead(m_inPos_mp) = Len(held) /\ Len(held) \in Nat /\ Ahead(m_inPos) <= Len(held)
      <2>1. m_inPos_mp \in Slots /\ held \in Seq(Elements)
            BY DEF QueueInv, QueueTypes
      <2>2. Ahead(m_inPos_mp) = Len(held) /\ Ahead(m_inPos) <= Len(held)
            BY DEF QueueInv, Shared
      <2> QED BY <2>1, <2>2
<1>2. \A q \in Producers : producer[q] \in SharedLocals
      BY DEF QueueInv, QueueTypes
<1>3. ASSUME NEW q \in Producers, producer[q].pc \in Reading
      PROVE  /\ Ahead(m_inPos) <= Ahead(producer[q].in)
             /\ Ahead(producer[q].in) <= Len(held)
             /\ \A r \in Producers : r # q /\ producer[r].pc = "publish" =>
                   Ahead(producer[r].in) <= Ahead(producer[q].in)
      BY <1>3 DEF QueueInv, Shared
<1>4. \A q \in Producers : producer[q].pc = "publish" => producer[q].pc \in Reading
      BY DEF Reading
<1> QED BY <1>1, <1>2, <1>3, <1>4

LEMMA WhoIsInside ==
    ASSUME QueueInv, shared, NEW p \in Producers, NEW l, producer' = [producer EXCEPT ![p] = l]
    PROVE  /\ m_concurrent_mp \in Nat /\ m_concurrent_mp = Cardinality(Inside)
           /\ producer[p] = Resting /\ l # Resting => Cardinality(Inside') = m_concurrent_mp + 1
           /\ producer[p] # Resting /\ l # Resting => Cardinality(Inside') = m_concurrent_mp
           /\ producer[p] # Resting /\ l = Resting =>
                 m_concurrent_mp - 1 \in Nat /\ Cardinality(Inside') = m_concurrent_mp - 1
           /\ m_concurrent_mp = 1 /\ producer[p] # Resting =>
                 \A q \in Producers \ {p} : producer[q] = Resting
<1>1. IsFiniteSet(Inside) /\ Inside \subseteq Producers
      BY CircularQueueAssumption, FS_Subset DEF Inside
<1>2. m_concurrent_mp \in Nat /\ m_concurrent_mp = Cardinality(Inside)
      BY DEF QueueInv, QueueTypes, Shared
<1>3. \A q \in Producers : producer'[q] = IF q = p THEN l ELSE producer[q]
      BY OneMoves
<1>4. ASSUME producer[p] = Resting, l # Resting PROVE Cardinality(Inside') = m_concurrent_mp + 1
      <2>1. Inside' = Inside \cup {p} /\ p \notin Inside
            BY <1>3, <1>4 DEF Inside
      <2> QED BY <1>1, <1>2, <2>1, FS_AddElement
<1>5. ASSUME producer[p] # Resting, l # Resting PROVE Cardinality(Inside') = m_concurrent_mp
      <2>1. Inside' = Inside
            BY <1>3, <1>5 DEF Inside
      <2> QED BY <1>2, <2>1
<1>6. ASSUME producer[p] # Resting, l = Resting
      PROVE  m_concurrent_mp - 1 \in Nat /\ Cardinality(Inside') = m_concurrent_mp - 1
      <2>1. Inside' = Inside \ {p} /\ p \in Inside
            BY <1>3, <1>6 DEF Inside
      <2>2. Cardinality(Inside') = m_concurrent_mp - 1 /\ IsFiniteSet(Inside')
            BY <1>1, <1>2, <2>1, FS_RemoveElement
      <2> QED BY <2>2, FS_CardinalityType
<1>7. ASSUME m_concurrent_mp = 1, producer[p] # Resting, NEW q \in Producers \ {p}
      PROVE  producer[q] = Resting
      <2>1. PICK r : Inside = {r}
            BY <1>1, <1>2, <1>7, FS_Singleton
      <2> QED BY <1>7, <2>1 DEF Inside
<1> QED BY <1>2, <1>4, <1>5, <1>6, <1>7

LEMMA EnterKeeps ==
    ASSUME QueueInv, shared, NEW p \in Producers, Enter(p),
           UNCHANGED <<shared, m_outPos, consumer, fits>>
    PROVE  QueueInv'
<1>1. /\ producer[p] = Resting /\ m_concurrent_mp' = m_concurrent_mp + 1
      /\ UNCHANGED <<m_buffer, m_inPos, m_inPos_mp, held>>
      BY DEF Enter
<1>2. PICK e \in Elements : producer' = [producer EXCEPT ![p] = [pc |-> "claim", e |-> e]]
      BY DEF Enter, Goes
<1> DEFINE l == [pc |-> "claim", e |-> e]
<1>3. l \in SharedLocals /\ l.pc = "claim" /\ l.pc # "idle"
      BY DEF SharedLocals
<1>4. l # Resting /\ l.pc \notin Reading /\ producer[p].pc = "idle"
      BY <1>1, <1>3 DEF Resting, Reading
<1> HIDE DEF l
<1>5. producer' = [producer EXCEPT ![p] = l]
      BY <1>2 DEF l
<1>6. Cardinality(Inside') = m_concurrent_mp + 1 /\ m_concurrent_mp \in Nat
      BY <1>1, <1>4, <1>5, WhoIsInside
<1>7. m_concurrent_mp' \in Nat /\ m_concurrent_mp' = Cardinality(Inside')
      BY <1>1, <1>6
<1>8. l.pc # "write" /\ l.pc # "claim slot" /\ l.pc # "publish" /\ producer[p].pc # "write"
      BY <1>3, <1>4
<1> QED BY <1>1, <1>3, <1>4, <1>5, <1>7, <1>8, SharedMove

LEMMA LoadInKeeps ==
    ASSUME QueueInv, shared, NEW p \in Producers, LoadIn(p),
           UNCHANGED <<shared, m_outPos, consumer, fits>>
    PROVE  QueueInv'
<1> DEFINE l == [pc |-> "check", e |-> producer[p].e, in |-> m_inPos_mp]
<1>1. /\ producer[p].pc = "claim" /\ producer' = [producer EXCEPT ![p] = l]
      /\ UNCHANGED <<m_buffer, m_inPos, m_inPos_mp, m_concurrent_mp, held>>
      BY DEF LoadIn, Goes
<1>2. /\ m_inPos_mp \in Slots /\ producer[p].e \in Elements /\ producer[p] # Resting
      /\ Ahead(m_inPos_mp) = Len(held) /\ Len(held) \in Nat /\ Ahead(m_inPos) <= Len(held)
      /\ \A q \in Producers : producer[q].pc = "publish" => Ahead(producer[q].in) <= Len(held)
      BY <1>1, HasRead, LocalIs
<1>3. /\ l \in SharedLocals /\ l.pc = "check" /\ l.pc # "idle" /\ l.in = m_inPos_mp
      BY <1>2 DEF SharedLocals
<1>4. l # Resting
      BY <1>3 DEF Resting
<1> HIDE DEF l
<1>5. m_concurrent_mp' \in Nat /\ m_concurrent_mp' = Cardinality(Inside')
      <2>1. Cardinality(Inside') = m_concurrent_mp /\ m_concurrent_mp \in Nat
            BY <1>1, <1>2, <1>4, WhoIsInside
      <2> QED BY <1>1, <2>1
<1>6. /\ Ahead(m_inPos) <= Ahead(l.in) /\ Ahead(l.in) <= Len(held)
      /\ \A q \in Producers : q # p /\ producer[q].pc = "publish" =>
            Ahead(producer[q].in) <= Ahead(l.in)
      BY <1>2, <1>3
<1>7. l.pc # "write" /\ l.pc # "claim slot" /\ l.pc # "publish" /\ producer[p].pc # "write"
      BY <1>1, <1>3
<1> QED BY <1>1, <1>3, <1>5, <1>6, <1>7, SharedMove

LEMMA CheckOutKeeps ==
    ASSUME QueueInv, shared, NEW p \in Producers, CheckOut(p),
           UNCHANGED <<shared, m_outPos, consumer, fits>>
    PROVE  QueueInv'
<1> DEFINE room == PushRoom(producer[p].in, m_outPos)
           l == IF room = 0 THEN [pc |-> "leave"] ELSE [producer[p] EXCEPT !.pc = "claim slot"]
<1>1. /\ producer[p].pc = "check" /\ producer' = [producer EXCEPT ![p] = l]
      /\ UNCHANGED <<m_buffer, m_inPos, m_inPos_mp, m_concurrent_mp, held>>
      BY DEF CheckOut, Goes
<1>2. /\ producer[p] = [pc |-> "check", e |-> producer[p].e, in |-> producer[p].in]
      /\ producer[p].e \in Elements /\ producer[p].in \in Slots /\ producer[p] # Resting
      <2>1. producer[p] \in SharedLocals
            BY DEF QueueInv, QueueTypes
      <2> QED BY <1>1, <2>1, LocalIs DEF Reading
<1>3. /\ l.pc = "leave" \/ (l.pc = "claim slot" /\ l.in = producer[p].in /\ room # 0)
      /\ l \in SharedLocals
      <2>1. CASE room = 0
            BY <2>1 DEF SharedLocals
      <2>2. CASE room # 0
            <3>1. l = [pc |-> "claim slot", e |-> producer[p].e, in |-> producer[p].in]
                  BY <1>2, <2>2
            <3> QED BY <1>2, <2>2, <3>1 DEF SharedLocals
      <2> QED BY <2>1, <2>2
<1>4. l # Resting
      BY <1>3 DEF Resting
<1>5. room = 0 \/ Ahead(producer[p].in) + 1 < Size
      <2>1. producer[p].in \in Slots /\ m_outPos \in Slots
            BY <1>2 DEF QueueInv, QueueTypes
      <2> QED BY <2>1, Room DEF Ahead
<1> HIDE DEF l, room
<1>6. m_concurrent_mp' \in Nat /\ m_concurrent_mp' = Cardinality(Inside')
      <2>1. Cardinality(Inside') = m_concurrent_mp /\ m_concurrent_mp \in Nat
            BY <1>1, <1>2, <1>4, WhoIsInside
      <2> QED BY <1>1, <2>1
<1>7. /\ Ahead(m_inPos) <= Ahead(producer[p].in) /\ Ahead(producer[p].in) <= Len(held)
      /\ \A q \in Producers : q # p /\ producer[q].pc = "publish" =>
            Ahead(producer[q].in) <= Ahead(producer[p].in)
      BY <1>1, HasRead DEF Reading
<1>8. l.pc \in Reading => l.in = producer[p].in
      BY <1>3 DEF Reading
<1>9. l.pc = "claim slot" => Ahead(l.in) + 1 < Size
      BY <1>3, <1>5
<1>10. l.pc # "write" /\ l.pc # "publish" /\ producer[p].pc # "write"
      BY <1>1, <1>3
<1>11. l.pc \in Reading => /\ Ahead(m_inPos) <= Ahead(l.in) /\ Ahead(l.in) <= Len(held)
                           /\ \A q \in Producers : q # p /\ producer[q].pc = "publish" =>
                                 Ahead(producer[q].in) <= Ahead(l.in)
      BY <1>7, <1>8
<1> QED BY <1>1, <1>3, <1>6, <1>9, <1>10, <1>11, SharedMove

LEMMA LeaveLoadInKeeps ==
    ASSUME QueueInv, shared, NEW p \in Producers, LeaveLoadIn(p),
           UNCHANGED <<shared, m_outPos, consumer, fits>>
    PROVE  QueueInv'
<1> DEFINE l == [pc |-> "count", in |-> m_inPos_mp]
<1>1. /\ producer[p].pc = "leave" /\ producer' = [producer EXCEPT ![p] = l]
      /\ UNCHANGED <<m_buffer, m_inPos, m_inPos_mp, m_concurrent_mp, held>>
      BY DEF LeaveLoadIn, Goes
<1>2. /\ m_inPos_mp \in Slots /\ producer[p] # Resting
      /\ Ahead(m_inPos_mp) = Len(held) /\ Len(held) \in Nat /\ Ahead(m_inPos) <= Len(held)
      /\ \A q \in Producers : producer[q].pc = "publish" => Ahead(producer[q].in) <= Len(held)
      BY <1>1, HasRead, LocalIs
<1>3. /\ l \in SharedLocals /\ l.pc = "count" /\ l.pc # "idle" /\ l.in = m_inPos_mp
      BY <1>2 DEF SharedLocals
<1>4. l # Resting
      BY <1>3 DEF Resting
<1> HIDE DEF l
<1>5. m_concurrent_mp' \in Nat /\ m_concurrent_mp' = Cardinality(Inside')
      <2>1. Cardinality(Inside') = m_concurrent_mp /\ m_concurrent_mp \in Nat
            BY <1>1, <1>2, <1>4, WhoIsInside
      <2> QED BY <1>1, <2>1
<1>6. /\ Ahead(m_inPos) <= Ahead(l.in) /\ Ahead(l.in) <= Len(held)
      /\ \A q \in Producers : q # p /\ producer[q].pc = "publish" =>
            Ahead(producer[q].in) <= Ahead(l.in)
      BY <1>2, <1>3
<1>7. l.pc # "write" /\ l.pc # "claim slot" /\ l.pc # "publish" /\ producer[p].pc # "write"
      BY <1>1, <1>3
<1> QED BY <1>1, <1>3, <1>5, <1>6, <1>7, SharedMove

LEMMA LeaveLoadCountKeeps ==
    ASSUME QueueInv, shared, NEW p \in Producers, LeaveLoadCount(p),
           UNCHANGED <<shared, m_outPos, consumer, fits>>
    PROVE  QueueInv'
<1> DEFINE l == [pc |-> IF LastOne(m_concurrent_mp) THEN "publish" ELSE "decrement",
                 in |-> producer[p].in, concurrent |-> m_concurrent_mp]
<1>1. /\ producer[p].pc = "count" /\ producer' = [producer EXCEPT ![p] = l]
      /\ UNCHANGED <<m_buffer, m_inPos, m_inPos_mp, m_concurrent_mp, held>>
      BY DEF LeaveLoadCount, Goes
<1>2. producer[p].in \in Slots /\ producer[p] # Resting /\ m_concurrent_mp \in Nat
      <2>1. producer[p] \in SharedLocals /\ m_concurrent_mp \in Nat
            BY DEF QueueInv, QueueTypes
      <2> QED BY <1>1, <2>1, LocalIs DEF Reading
<1>3. /\ l \in SharedLocals /\ l.in = producer[p].in
      /\ l.pc \in {"publish", "decrement"} /\ (l.pc = "publish" => m_concurrent_mp = 1)
      BY <1>2 DEF SharedLocals, LastOne
<1>4. l # Resting
      BY <1>3 DEF Resting
<1> HIDE DEF l
<1>5. m_concurrent_mp' \in Nat /\ m_concurrent_mp' = Cardinality(Inside')
      <2>1. Cardinality(Inside') = m_concurrent_mp
            BY <1>1, <1>2, <1>4, WhoIsInside
      <2> QED BY <1>1, <1>2, <2>1
<1>6. l.pc = "publish" => \A q \in Producers \ {p} : producer[q].pc \notin Reading
      <2>1. l.pc = "publish" => \A q \in Producers \ {p} : producer[q] = Resting
            BY <1>1, <1>2, <1>3, WhoIsInside
      <2>2. Resting.pc \notin Reading
            BY DEF Resting, Reading
      <2> QED BY <2>1, <2>2
<1>7. /\ Ahead(m_inPos) <= Ahead(l.in) /\ Ahead(l.in) <= Len(held)
      /\ \A q \in Producers : q # p /\ producer[q].pc = "publish" =>
            Ahead(producer[q].in) <= Ahead(l.in)
      BY <1>1, <1>3, HasRead DEF Reading
<1>8. l.pc # "write" /\ l.pc # "claim slot" /\ producer[p].pc # "write"
      BY <1>1, <1>3
<1> QED BY <1>1, <1>3, <1>5, <1>6, <1>7, <1>8, SharedMove

LEMMA DecrementKeeps ==
    ASSUME QueueInv, shared, NEW p \in Producers, Decrement(p),
           UNCHANGED <<shared, m_outPos, consumer, fits>>
    PROVE  QueueInv'
<1>1. /\ producer[p].pc = "decrement" /\ producer[p].pc # "write"
      /\ UNCHANGED <<m_buffer, m_inPos, m_inPos_mp, held>>
      BY DEF Decrement
<1>2. producer[p] # Resting
      BY <1>1 DEF Resting
<1>3. CASE m_concurrent_mp' = m_concurrent_mp - 1 /\ Goes(p, Resting)
      <2>1. producer' = [producer EXCEPT ![p] = Resting]
            BY <1>3 DEF Goes
      <2>2. m_concurrent_mp' \in Nat /\ m_concurrent_mp' = Cardinality(Inside')
            BY <1>2, <1>3, <2>1, WhoIsInside
      <2>3. /\ Resting \in SharedLocals /\ Resting.pc \notin Reading
            /\ Resting.pc # "write" /\ Resting.pc # "claim slot" /\ Resting.pc # "publish"
            BY DEF Resting, SharedLocals, Reading
      <2> QED BY <1>1, <2>1, <2>2, <2>3, SharedMove
<1>4. CASE Goes(p, [pc |-> "leave"]) /\ UNCHANGED m_concurrent_mp
      <2> DEFINE l == [pc |-> "leave"]
      <2>1. producer' = [producer EXCEPT ![p] = l]
            BY <1>4 DEF Goes
      <2>2. /\ l \in SharedLocals /\ l.pc \notin Reading /\ l # Resting
            /\ l.pc # "write" /\ l.pc # "claim slot" /\ l.pc # "publish"
            BY DEF Resting, SharedLocals, Reading
      <2> HIDE DEF l
      <2>3. m_concurrent_mp' \in Nat /\ m_concurrent_mp' = Cardinality(Inside')
            BY <1>2, <1>4, <2>1, <2>2, WhoIsInside
      <2> QED BY <1>1, <2>1, <2>2, <2>3, SharedMove
<1> QED BY <1>3, <1>4 DEF Decrement

LEMMA PublishKeeps ==
    ASSUME QueueInv, shared, NEW p \in Producers, Publish(p),
           UNCHANGED <<shared, m_outPos, consumer, fits>>
    PROVE  QueueInv'
<1> DEFINE l == [producer[p] EXCEPT !.pc = "decrement"]
<1>1. /\ producer[p].pc = "publish" /\ producer' = [producer EXCEPT ![p] = l]
      /\ m_inPos' = producer[p].in
      /\ UNCHANGED <<m_buffer, m_inPos_mp, m_concurrent_mp, held>>
      BY DEF Publish, Goes
<1>2. /\ producer[p] = [pc |-> "publish", in |-> producer[p].in, concurrent |-> producer[p].concurrent]
      /\ producer[p].in \in Slots /\ producer[p].concurrent \in Nat /\ producer[p] # Resting
      <2>1. producer[p] \in SharedLocals
            BY DEF QueueInv, QueueTypes
      <2> QED BY <1>1, <2>1, LocalIs DEF Reading
<1>3. l = [pc |-> "decrement", in |-> producer[p].in, concurrent |-> producer[p].concurrent]
      BY <1>2
<1>4. /\ l \in SharedLocals /\ l.pc = "decrement"
      BY <1>2, <1>3 DEF SharedLocals
<1> HIDE DEF l
<1>5. /\ l # Resting /\ l.pc \notin Reading
      /\ l.pc # "write" /\ l.pc # "claim slot" /\ l.pc # "publish" /\ producer[p].pc # "write"
      BY <1>1, <1>4 DEF Resting, Reading
<1>6. m_concurrent_mp' \in Nat /\ m_concurrent_mp' = Cardinality(Inside')
      <2>1. Cardinality(Inside') = m_concurrent_mp /\ m_concurrent_mp \in Nat
            BY <1>1, <1>2, <1>5, WhoIsInside
      <2> QED BY <1>1, <2>1
<1>7. /\ m_inPos' \in Slots /\ Ahead(m_inPos) <= Ahead(m_inPos') /\ Ahead(m_inPos') <= Len(held)
      BY <1>1, <1>2, HasRead DEF Reading
<1>8. \A q \in Producers : q # p /\ producer[q].pc \in Reading =>
          Ahead(m_inPos') <= Ahead(producer[q].in)
      BY <1>1 DEF QueueInv, Shared
<1> QED BY <1>1, <1>4, <1>5, <1>6, <1>7, <1>8, SharedStep

\* The consumer's view lasts while what is published stays and more is held.
LEMMA ViewLasts ==
    ASSUME QueueInv, UNCHANGED <<m_outPos, consumer>>,
           held' \in Seq(Elements), Len(held) <= Len(held'),
           \A i \in 1..Len(held) : held'[i] = held[i],
           m_inPos' \in Slots, Ahead(m_inPos) <= Ahead(m_inPos'),
           \A i \in 1..Ahead(m_inPos) : m_buffer'[Slot(i)] = m_buffer[Slot(i)]
    PROVE  Consumed'
<1> SUFFICES ASSUME consumer # Resting PROVE Consumed'
    BY DEF Consumed
<1> DEFINE n == consumer.n
           keep == consumer.keep
           c == Cardinality(keep)
<1>1. /\ n \in 1..Ahead(m_inPos) /\ keep \in SUBSET (1..n)
      /\ consumer.pc = "read" => consumer.name # "flush" /\ keep = {}
      /\ consumer.name # "for_each_rev_requeue" => keep = {}
      /\ consumer.pc = "store" =>
           /\ consumer.name # "flush" => consumer.got = SubSeq(held, 1, Taken)
           /\ \A k \in 1..c : m_buffer[Slot(n - c + k)] = held[Place(keep, k)]
      BY DEF QueueInv, Consumed
<1>2. /\ m_inPos \in Slots /\ m_outPos \in Slots /\ held \in Seq(Elements) /\ Len(held) \in Nat
      /\ Ahead(m_inPos) \in 0..Len(held)
      BY PublishedIsThere DEF QueueInv, QueueTypes
<1>3. Ahead(m_inPos) \in Nat /\ Ahead(m_inPos') \in Nat /\ n \in Nat
      BY <1>1, <1>2, AheadIs
<1>4. n \in 1..Ahead(m_inPos')
      BY <1>1, <1>3, Ordered, Zenon
<1>5. n \in 1..Len(held) /\ Taken \in 1..n /\ Taken \in 0..Len(held) /\ Taken \in 0..Len(held')
      BY <1>1, <1>2, <1>3 DEF Taken
<1>6. SubSeq(held', 1, Taken) = SubSeq(held, 1, Taken)
      <2>1. /\ SubSeq(held, 1, Taken) = [k \in 1..Taken |-> held[k]]
            /\ SubSeq(held', 1, Taken) = [k \in 1..Taken |-> held'[k]]
            BY <1>2, <1>5, FrontIs
      <2>2. \A k \in 1..Taken : k \in 1..Len(held)
            BY <1>2, <1>5
      <2> QED BY <2>1, <2>2
<1>7. c \in Nat /\ c <= n /\ \A k \in 1..c : Place(keep, k) \in keep
      BY <1>1, <1>3, Placed
<1>8. ASSUME NEW k \in 1..c
      PROVE  m_buffer'[Slot(n - c + k)] = m_buffer[Slot(n - c + k)]
             /\ held'[Place(keep, k)] = held[Place(keep, k)]
      <2>1. n - c + k \in 1..n
            BY <1>3, <1>7
      <2>2. n - c + k \in 1..Ahead(m_inPos)
            BY <1>1, <1>3, <2>1
      <2>3. Place(keep, k) \in 1..n
            BY <1>1, <1>7
      <2>4. Place(keep, k) \in 1..Len(held)
            BY <1>2, <1>3, <1>5, <2>3
      <2> QED BY <2>2, <2>4
<1>9. Taken' = Taken /\ (\A i : Slot(i)' = Slot(i)) /\ Ahead(m_inPos)' = Ahead(m_inPos')
      BY SameRing, SameView DEF Ahead
<1> QED BY <1>1, <1>4, <1>6, <1>8, <1>9 DEF Consumed

LEMMA WriteSlotKeeps ==
    ASSUME QueueInv, shared, NEW p \in Producers, WriteSlot(p),
           UNCHANGED <<shared, m_outPos, consumer, fits>>
    PROVE  QueueInv'
<1> DEFINE l == [pc |-> "leave"]
           in == producer[p].in
           e == producer[p].e
<1>1. /\ producer[p].pc = "write" /\ producer' = [producer EXCEPT ![p] = l]
      /\ m_buffer' = [m_buffer EXCEPT ![in] = e]
      /\ UNCHANGED <<m_inPos, m_inPos_mp, m_concurrent_mp, held>>
      BY DEF WriteSlot, Goes
<1>2. /\ in \in Slots /\ e \in Elements /\ producer[p] # Resting
      <2>1. producer[p] \in SharedLocals
            BY DEF QueueInv, QueueTypes
      <2> QED BY <1>1, <2>1, LocalIs DEF Reading
<1>3. /\ l \in SharedLocals /\ l.pc \notin Reading /\ l # Resting
      /\ l.pc # "write" /\ l.pc # "claim slot" /\ l.pc # "publish"
      BY DEF Resting, SharedLocals, Reading
<1> HIDE DEF l
<1>4. \A q \in Producers : producer'[q] = IF q = p THEN l ELSE producer[q]
      BY <1>1, OneMoves
<1>5. /\ m_buffer \in [Slots -> Elements \cup {Nothing}]
      /\ m_inPos \in Slots /\ m_outPos \in Slots /\ held \in Seq(Elements) /\ Len(held) < Size
      /\ Len(held) \in Nat
      BY DEF QueueInv, QueueTypes
<1>6. m_buffer' \in [Slots -> Elements \cup {Nothing}]
      BY <1>1, <1>2, <1>5
<1>7. m_concurrent_mp' \in Nat /\ m_concurrent_mp' = Cardinality(Inside')
      <2>1. Cardinality(Inside') = m_concurrent_mp /\ m_concurrent_mp \in Nat
            BY <1>1, <1>2, <1>3, WhoIsInside
      <2> QED BY <1>1, <2>1
<1>8. QueueTypes'
      <2>1. producer' \in [Producers -> SharedLocals]
            BY <1>1, <1>3 DEF QueueInv, QueueTypes
      <2> QED BY <1>1, <1>6, <1>7, <2>1 DEF QueueInv, QueueTypes
<1>9. Single'
      BY DEF Single
<1>10. /\ Ahead(m_inPos) \in 0..Len(held) /\ Ahead(m_inPos) <= Ahead(in)
       /\ Ahead(in) < Len(held) /\ held[Ahead(in) + 1] = e /\ Ahead(in) \in Nat
       /\ Ahead(m_inPos) \in Nat
      <2>1. Ahead(m_inPos) <= Ahead(in) /\ Ahead(in) < Len(held) /\ held[Ahead(in) + 1] = e
            BY <1>1 DEF QueueInv, Shared, Reading
      <2>2. Ahead(m_inPos) \in 0..Len(held)
            BY PublishedIsThere
      <2> QED BY <1>2, <1>5, <2>1, <2>2, AheadIs
<1>11. Shared'
      <2>1. m_inPos' = m_inPos /\ Ahead(m_inPos) <= Ahead(m_inPos)
            BY <1>1, <1>10, Ordered, Zenon
      <2>2. Ahead(m_inPos) <= Len(held)
            BY <1>5, <1>10
      <2>3. \A q \in Producers : q # p /\ producer[q].pc \in Reading =>
                Ahead(m_inPos) <= Ahead(producer[q].in)
            BY DEF QueueInv, Shared
      <2> QED BY <1>1, <1>3, <1>5, <1>7, <2>1, <2>2, <2>3, LedgerStep
<1>12. \A i \in 1..Size : Slot(i) \in Slots /\ Ahead(Slot(i)) = i - 1
      BY <1>5, PlacesOnTheRing
<1>13. Seen' = Seen /\ (\A i : Slot(i)' = Slot(i))
      BY SameRing, SameView
<1>14. Contents'
      <2> SUFFICES ASSUME NEW i \in 1..Len(held), i > Seen
                   PROVE  Pending(Slot(i))' \/ m_buffer'[Slot(i)] = held[i]
            BY <1>1, <1>13 DEF Contents
      <2>1. Slot(i) \in Slots /\ Ahead(Slot(i)) = i - 1 /\ i \in Nat
            BY <1>5, <1>12, SizeType
      <2>2. CASE Slot(i) = in
            <3>1. Ahead(in) + 1 = i
                  BY <2>1, <2>2
            <3>2. m_buffer'[Slot(i)] = e
                  BY <1>1, <1>2, <1>5, <2>2
            <3> QED BY <1>10, <3>1, <3>2
      <2>3. CASE Slot(i) # in
            <3>1. Pending(Slot(i)) \/ m_buffer[Slot(i)] = held[i]
                  BY DEF QueueInv, Contents
            <3>2. m_buffer'[Slot(i)] = m_buffer[Slot(i)]
                  BY <1>1, <1>5, <2>1, <2>3
            <3>3. Pending(Slot(i)) => Pending(Slot(i))'
                  BY <1>4, <1>13, <2>3 DEF Pending
            <3> QED BY <3>1, <3>2, <3>3
      <2> QED BY <2>2, <2>3
<1>15. Consumed'
      <2>1. ASSUME NEW i \in 1..Ahead(m_inPos) PROVE m_buffer'[Slot(i)] = m_buffer[Slot(i)]
            <3>1. i \in 1..Size /\ i - 1 < Ahead(in)
                  BY <1>5, <1>10, SizeType
            <3>2. Slot(i) \in Slots /\ Slot(i) # in
                  BY <1>10, <1>12, <3>1
            <3> QED BY <1>1, <1>5, <3>2
      <2>2. m_inPos' \in Slots /\ Ahead(m_inPos) <= Ahead(m_inPos')
            <3>1. m_inPos' = m_inPos
                  BY <1>1
            <3>2. Ahead(m_inPos) <= Ahead(m_inPos)
                  BY <1>10, Ordered, Zenon
            <3> QED BY <1>5, <3>1, <3>2
      <2>3. held' = held /\ Len(held) <= Len(held)
            BY <1>1, <1>5
      <2> QED BY <1>5, <2>1, <2>2, <2>3, ViewLasts
<1> QED BY <1>8, <1>9, <1>11, <1>14, <1>15 DEF QueueInv

LEMMA ClaimSlotKeeps ==
    ASSUME QueueInv, shared, NEW p \in Producers, ClaimSlot(p),
           UNCHANGED <<shared, m_outPos, consumer, fits>>
    PROVE  QueueInv'
<1> DEFINE in == producer[p].in
           e == producer[p].e
<1>1. /\ producer[p].pc = "claim slot" /\ producer[p].pc # "write"
      /\ UNCHANGED <<m_buffer, m_inPos, m_concurrent_mp>>
      BY DEF ClaimSlot
<1>2. /\ in \in Slots /\ e \in Elements /\ producer[p] # Resting
      /\ producer[p] = [pc |-> "claim slot", e |-> e, in |-> in]
      <2>1. producer[p] \in SharedLocals
            BY DEF QueueInv, QueueTypes
      <2> QED BY <1>1, <2>1, LocalIs DEF Reading
<1>3. CASE Goes(p, [pc |-> "claim", e |-> e]) /\ UNCHANGED <<m_inPos_mp, held>>
      <2> DEFINE l == [pc |-> "claim", e |-> e]
      <2>1. producer' = [producer EXCEPT ![p] = l]
            BY <1>3 DEF Goes
      <2>2. l \in SharedLocals /\ l.pc = "claim"
            BY <1>2 DEF SharedLocals
      <2> HIDE DEF l
      <2>3. /\ l.pc \notin Reading /\ l # Resting
            /\ l.pc # "write" /\ l.pc # "claim slot" /\ l.pc # "publish"
            BY <2>2 DEF Resting, Reading
      <2>4. m_concurrent_mp' \in Nat /\ m_concurrent_mp' = Cardinality(Inside')
            <3>1. Cardinality(Inside') = m_concurrent_mp /\ m_concurrent_mp \in Nat
                  BY <1>2, <2>1, <2>3, WhoIsInside
            <3> QED BY <1>1, <3>1
      <2> QED BY <1>1, <1>3, <2>1, <2>2, <2>3, <2>4, SharedMove
<1>4. CASE /\ m_inPos_mp = in /\ m_inPos_mp' = (m_inPos_mp + 1) % Size
           /\ held' = Append(held, e)
           /\ Goes(p, [pc |-> "write", e |-> e, in |-> in])
      <2> DEFINE l == [pc |-> "write", e |-> e, in |-> in]
                 n == Len(held)
      <2>1. producer' = [producer EXCEPT ![p] = l]
            BY <1>4 DEF Goes
      <2>2. l \in SharedLocals /\ l.pc = "write" /\ l.in = in /\ l.e = e
            BY <1>2 DEF SharedLocals
      <2> HIDE DEF l
      <2>3. l # Resting /\ l.pc # "claim slot" /\ l.pc # "publish"
            BY <2>2 DEF Resting
      <2>4. \A q \in Producers : producer'[q] = IF q = p THEN l ELSE producer[q]
            BY <2>1, OneMoves
      <2>5. m_concurrent_mp' \in Nat /\ m_concurrent_mp' = Cardinality(Inside')
            <3>1. Cardinality(Inside') = m_concurrent_mp /\ m_concurrent_mp \in Nat
                  BY <1>2, <2>1, <2>3, WhoIsInside
            <3> QED BY <1>1, <3>1
      <2>6. /\ m_inPos \in Slots /\ m_outPos \in Slots /\ held \in Seq(Elements) /\ n \in Nat
            /\ Ahead(m_inPos) \in 0..n /\ Ahead(m_inPos) \in Nat
            BY PublishedIsThere, AheadIs DEF QueueInv, QueueTypes
      <2>7. Ahead(in) = n /\ n + 1 < Size
            <3>1. Ahead(m_inPos_mp) = n /\ Ahead(in) + 1 < Size
                  BY <1>1 DEF QueueInv, Shared
            <3> QED BY <1>4, <3>1
      <2>8. /\ held' \in Seq(Elements) /\ Len(held') = n + 1 /\ held'[n + 1] = e
            /\ \A i \in 1..n : held'[i] = held[i]
            <3>1. held' = Append(held, e) /\ e \in Elements /\ held \in Seq(Elements)
                  BY <1>2, <1>4, <2>6
            <3> HIDE DEF e
            <3> QED BY <3>1
      <2>9. m_inPos_mp' \in Slots /\ Ahead(m_inPos_mp') = n + 1
            <3>1. in = Shift(m_outPos, n)
                  BY <1>2, <2>6, <2>7, DistIs DEF Ahead
            <3>2. 1 \in Nat /\ 1 < Size /\ 1 \in Slots
                  BY SizeType
            <3>3. m_inPos_mp' = Shift(in, 1) /\ Shift(in, 1) \in Slots
                  <4>1. m_inPos_mp' = (in + 1) % Size
                        BY <1>4
                  <4> HIDE DEF in
                  <4> QED BY <1>2, <4>1, <3>2, Steps, ShiftIs
            <3>4. /\ Shift(in, 1) = Shift(m_outPos, n + 1)
                  /\ Dist(m_outPos, Shift(m_outPos, n + 1)) = n + 1
                  BY <2>6, <2>7, <3>1, <3>2, Farther
            <3> QED BY <3>3, <3>4 DEF Ahead
      <2>10. /\ \A s : Ahead(s)' = Ahead(s)
             /\ \A i : Slot(i)' = Slot(i)
             /\ Seen' = Seen
            BY SameRing, SameView
      <2>11. QueueTypes'
            <3>1. producer' \in [Producers -> SharedLocals]
                  BY <2>1, <2>2 DEF QueueInv, QueueTypes
            <3>2. Len(held') < Size
                  BY <2>7, <2>8
            <3> QED BY <1>1, <2>5, <2>8, <2>9, <3>1, <3>2 DEF QueueInv, QueueTypes
      <2>12. Single'
            BY DEF Single
      <2>13. Shared'
            <3>1. Ahead(m_inPos_mp)' = Len(held') /\ Ahead(m_inPos)' <= Len(held')
                  <4>1. Ahead(m_inPos_mp)' = Ahead(m_inPos_mp') /\ Ahead(m_inPos)' = Ahead(m_inPos)
                        BY <1>1 DEF Ahead
                  <4> QED BY <2>6, <2>8, <2>9, <4>1
            <3>2. ASSUME NEW q \in Producers, producer'[q].pc \in Reading
                  PROVE  /\ Ahead(m_inPos)' <= Ahead(producer[q].in)'
                         /\ Ahead(producer[q].in)' <= Len(held')
                  <4>1. CASE q = p
                        <5>1. producer'[q].in = in
                              BY <2>2, <2>4, <4>1
                        <5>2. Ahead(producer[q].in)' = Ahead(in) /\ Ahead(m_inPos)' = Ahead(m_inPos)
                              BY <1>1, <5>1 DEF Ahead
                        <5> QED BY <2>6, <2>7, <2>8, <5>2
                  <4>2. CASE q # p
                        <5>1. producer'[q] = producer[q]
                              BY <2>4, <4>2
                        <5>2. /\ Ahead(m_inPos) <= Ahead(producer[q].in)
                              /\ Ahead(producer[q].in) <= n
                              BY <3>2, <5>1 DEF QueueInv, Shared
                        <5>3. Ahead(producer[q].in) \in Nat
                              BY <2>6, <3>2, <5>1, AheadIs, HasRead, LocalIs
                        <5>4. Ahead(producer[q].in) <= n + 1
                              BY <2>6, <5>2, <5>3
                        <5> QED BY <1>1, <2>8, <5>1, <5>2, <5>4 DEF Ahead
                  <4> QED BY <4>1, <4>2
            <3>3. ASSUME NEW q \in Producers, producer'[q].pc = "claim slot"
                  PROVE  Ahead(producer[q].in)' + 1 < Size
                  <4>1. producer'[q] = producer[q]
                        BY <2>3, <2>4, <3>3
                  <4> QED BY <3>3, <4>1 DEF QueueInv, Shared, Ahead
            <3>4. ASSUME NEW q \in Producers, producer'[q].pc = "write"
                  PROVE  /\ Ahead(producer[q].in)' < Len(held')
                         /\ held'[(Ahead(producer[q].in) + 1)'] = producer'[q].e
                  <4>1. CASE q = p
                        <5>1. producer'[q].in = in /\ producer'[q].e = e
                              BY <2>2, <2>4, <4>1
                        <5>2. Ahead(producer[q].in)' = n
                              BY <2>7, <5>1 DEF Ahead
                        <5> QED BY <2>6, <2>8, <5>1, <5>2
                  <4>2. CASE q # p
                        <5>1. producer'[q] = producer[q] /\ producer[q].pc = "write"
                              BY <2>4, <3>4, <4>2
                        <5>2. /\ Ahead(producer[q].in) < n
                              /\ held[Ahead(producer[q].in) + 1] = producer[q].e
                              BY <5>1 DEF QueueInv, Shared
                        <5>3. Ahead(producer[q].in) \in Nat
                              BY <2>6, <5>1, AheadIs, HasRead, LocalIs DEF Reading
                        <5>4. Ahead(producer[q].in)' = Ahead(producer[q].in)
                              BY <5>1 DEF Ahead
                        <5> QED BY <2>6, <2>8, <5>1, <5>2, <5>3, <5>4
                  <4> QED BY <4>1, <4>2
            <3>5. ASSUME NEW q \in Producers, NEW r \in Producers, q # r, producer'[q].pc = "publish"
                  PROVE  /\ producer'[r].pc # "publish"
                         /\ producer'[r].pc \in Reading =>
                               Ahead(producer[q].in)' <= Ahead(producer[r].in)'
                  <4>1. q # p /\ producer'[q] = producer[q] /\ producer[q].pc = "publish"
                        BY <2>3, <2>4, <3>5
                  <4>2. /\ producer[r].pc # "publish"
                        /\ producer[r].pc \in Reading => Ahead(producer[q].in) <= Ahead(producer[r].in)
                        BY <3>5, <4>1 DEF QueueInv, Shared
                  <4>3. CASE r = p
                        <5>1. Ahead(producer[q].in) <= Ahead(in)
                              BY <1>1, <4>2, <4>3 DEF Reading
                        <5> QED BY <2>2, <2>3, <2>4, <4>1, <4>3, <5>1 DEF Ahead
                  <4>4. CASE r # p
                        BY <2>4, <4>1, <4>2, <4>4 DEF Ahead
                  <4> QED BY <4>3, <4>4
            <3>6. m_concurrent_mp' = Cardinality(Inside')
                  BY <2>5
            <3> QED BY <3>1, <3>2, <3>3, <3>4, <3>5, <3>6 DEF Shared
      <2>14. Contents'
            <3> SUFFICES ASSUME NEW i \in 1..n + 1, i > Seen
                         PROVE  Pending(Slot(i))' \/ m_buffer'[Slot(i)] = held'[i]
                  BY <2>8, <2>10 DEF Contents
            <3>1. CASE i = n + 1
                  <4>1. Slot(i) = in
                        <5>1. Slot(Ahead(in) + 1) = in
                              BY <1>2, <2>6, PlacesOnTheRing
                        <5> QED BY <2>7, <3>1, <5>1
                  <4>2. producer'[p].pc = "write" /\ producer'[p].in = in
                        BY <2>2, <2>4
                  <4>3. Slot(i)' = in
                        BY <2>10, <4>1
                  <4> QED BY <4>2, <4>3 DEF Pending
            <3>2. CASE i # n + 1
                  <4>1. i \in 1..n
                        BY <2>6, <3>2
                  <4>2. Pending(Slot(i)) \/ m_buffer[Slot(i)] = held[i]
                        BY <4>1 DEF QueueInv, Contents
                  <4>3. Pending(Slot(i)) => Pending(Slot(i))'
                        BY <1>1, <2>4, <2>10 DEF Pending
                  <4> QED BY <1>1, <2>8, <4>1, <4>2, <4>3
            <3> QED BY <3>1, <3>2
      <2>15. Consumed'
            <3>1. m_inPos' = m_inPos /\ m_buffer' = m_buffer
                  BY <1>1
            <3>2. Ahead(m_inPos) <= Ahead(m_inPos)
                  BY <2>6, Ordered, Zenon
            <3>3. Len(held) <= Len(held')
                  BY <2>6, <2>8
            <3> QED BY <2>6, <2>8, <3>1, <3>2, <3>3, ViewLasts
      <2> QED BY <2>11, <2>12, <2>13, <2>14, <2>15 DEF QueueInv
<1> QED BY <1>3, <1>4 DEF ClaimSlot

LEMMA SharedPushKeeps ==
    ASSUME QueueInv, NEW p \in Producers, SharedPush(p)
    PROVE  QueueInv'
<1>1. shared /\ UNCHANGED <<shared, m_outPos, consumer, fits>>
      BY DEF SharedPush
<1>2. CASE Enter(p)
      BY <1>1, <1>2, EnterKeeps
<1>3. CASE LoadIn(p)
      BY <1>1, <1>3, LoadInKeeps
<1>4. CASE CheckOut(p)
      BY <1>1, <1>4, CheckOutKeeps
<1>5. CASE ClaimSlot(p)
      BY <1>1, <1>5, ClaimSlotKeeps
<1>6. CASE WriteSlot(p)
      BY <1>1, <1>6, WriteSlotKeeps
<1>7. CASE LeaveLoadIn(p)
      BY <1>1, <1>7, LeaveLoadInKeeps
<1>8. CASE LeaveLoadCount(p)
      BY <1>1, <1>8, LeaveLoadCountKeeps
<1>9. CASE Publish(p)
      BY <1>1, <1>9, PublishKeeps
<1>10. CASE Decrement(p)
      BY <1>1, <1>10, DecrementKeeps
<1> QED BY <1>2, <1>3, <1>4, <1>5, <1>6, <1>7, <1>8, <1>9, <1>10 DEF SharedPush

--------------------------------------------------------------------------------
(* One producer. *)

LEMMA SingleStep ==
    ASSUME QueueInv, ~shared, NEW l \in SingleLocals,
           producer' = [producer EXCEPT ![Owner] = l],
           UNCHANGED <<shared, m_outPos, m_inPos_mp, m_concurrent_mp, consumer, fits>>,
           held' \in Seq(Elements), Len(held) <= Len(held'), Len(held') < Size,
           \A i \in 1..Len(held) : held'[i] = held[i],
           m_inPos' \in Slots, Ahead(m_inPos') = Len(held'),
           m_buffer' \in [Slots -> Elements \cup {Nothing}],
           \A i \in 1..Len(held) : m_buffer'[Slot(i)] = m_buffer[Slot(i)],
           \A i \in 1..Len(held') : i \in 1..Len(held) \/ m_buffer'[Slot(i)] = held'[i],
           l.pc \in {"write", "store"} => Len(held') + Len(l.elements) < Size,
           l.pc = "peeked" => Len(l.elements) = 1,
           l.pc \in {"store", "peeked"} => \A k \in 1..Len(l.elements) :
               m_buffer'[Slot(Len(held') + k)] = l.elements[k]
    PROVE  QueueInv'
<1>1. \A q \in Producers : producer'[q] = IF q = Owner THEN l ELSE producer[q]
      BY DEF QueueInv, QueueTypes
<1>2. /\ \A s : Ahead(s)' = Ahead(s)
      /\ \A i : Slot(i)' = Slot(i)
      /\ Seen' = Seen
      BY SameRing, SameView
<1>3. QueueTypes'
      <2>1. producer' \in [Producers -> SingleLocals]
            BY DEF QueueInv, QueueTypes
      <2> QED BY <2>1 DEF QueueInv, QueueTypes
<1>4. Ahead(m_inPos)' = Len(held')
      BY DEF Ahead
<1>5. Single'
      <2>1. producer'[Owner] = l
            BY <1>1, OwnerIs
      <2>2. \A q \in Producers : q # Owner => producer'[q] = Resting
            BY <1>1 DEF QueueInv, Single
      <2> QED BY <1>2, <1>4, <2>1, <2>2 DEF Single
<1>6. Shared'
      BY DEF Shared
<1>7. Contents'
      <2> SUFFICES ASSUME NEW i \in 1..Len(held'), i > Seen PROVE m_buffer'[Slot(i)] = held'[i]
            BY <1>2 DEF Contents
      <2>1. CASE i \in 1..Len(held)
            <3>1. m_buffer[Slot(i)] = held[i]
                  BY <2>1 DEF QueueInv, Contents, Pending
            <3> QED BY <2>1, <3>1
      <2> QED BY <2>1
<1>8. Consumed'
      <2>1. Ahead(m_inPos) = Len(held) /\ held \in Seq(Elements)
            BY DEF QueueInv, Single, QueueTypes
      <2>2. Ahead(m_inPos) <= Ahead(m_inPos')
            BY <2>1
      <2>3. \A i \in 1..Ahead(m_inPos) : m_buffer'[Slot(i)] = m_buffer[Slot(i)]
            BY <2>1
      <2> QED BY <2>2, <2>3, ViewLasts
<1> QED BY <1>3, <1>5, <1>6, <1>7, <1>8 DEF QueueInv

\* What the producer finds.
LEMMA Alone ==
    ASSUME QueueInv, ~shared
    PROVE  /\ producer[Owner] \in SingleLocals
           /\ m_inPos \in Slots /\ m_outPos \in Slots /\ held \in Seq(Elements)
           /\ Len(held) \in Nat /\ Len(held) < Size /\ Len(held) <= Len(held)
           /\ Ahead(m_inPos) = Len(held) /\ m_inPos = Shift(m_outPos, Len(held))
           /\ m_buffer \in [Slots -> Elements \cup {Nothing}]
           /\ Slot(Len(held) + 1) = m_inPos
<1>1. /\ producer[Owner] \in SingleLocals
      /\ m_inPos \in Slots /\ m_outPos \in Slots /\ held \in Seq(Elements) /\ Len(held) < Size
      /\ m_buffer \in [Slots -> Elements \cup {Nothing}]
      BY OwnerIs DEF QueueInv, QueueTypes
<1>2. Ahead(m_inPos) = Len(held)
      BY DEF QueueInv, Single
<1>3. m_inPos = Shift(m_outPos, Len(held))
      BY <1>1, <1>2, DistIs DEF Ahead
<1>4. Slot(Ahead(m_inPos) + 1) = m_inPos
      BY <1>1, PlacesOnTheRing
<1> QED BY <1>1, <1>2, <1>3, <1>4

LEMMA PushCheckKeeps ==
    ASSUME QueueInv, ~shared, PushCheck(Owner)
    PROVE  QueueInv'
<1>1. /\ held \in Seq(Elements) /\ Len(held) \in Nat /\ Len(held) <= Len(held)
      /\ m_inPos \in Slots /\ m_outPos \in Slots /\ Len(held) < Size
      /\ Dist(m_outPos, m_inPos) = Len(held)
      /\ m_buffer \in [Slots -> Elements \cup {Nothing}]
      BY Alone DEF Ahead
<1>2. UNCHANGED <<shared, m_buffer, m_inPos, m_outPos, m_inPos_mp, m_concurrent_mp, consumer,
                  held, fits>>
      BY DEF PushCheck
<1>3. \E elements \in Seq(Elements) :
          Len(held) + Len(elements) < Size /\ Accept(Owner, elements)
      <2>1. ASSUME NEW e \in Elements, Accept(Owner, SubSeq(<<e>>, 1, PushRoom(m_inPos, m_outPos)))
            PROVE  \E elements \in Seq(Elements) :
                       Len(held) + Len(elements) < Size /\ Accept(Owner, elements)
            <3> DEFINE room == PushRoom(m_inPos, m_outPos)
                       elements == SubSeq(<<e>>, 1, room)
            <3>1. room \in {0, 1} /\ (room = 1 => Len(held) + 1 < Size)
                  BY <1>1, Room
            <3> HIDE DEF room
            <3>2. <<e>> \in Seq(Elements) /\ Len(<<e>>) = 1
                  OBVIOUS
            <3>3. elements \in Seq(Elements) /\ Len(elements) = room
                  BY <3>1, <3>2, Front
            <3>4. Len(held) + Len(elements) < Size
                  BY <1>1, <3>1, <3>3
            <3>5. Accept(Owner, elements)
                  BY <2>1 DEF room
            <3> HIDE DEF elements
            <3> QED BY <3>3, <3>4, <3>5
      <2>2. ASSUME NEW block \in Blocks,
                   Accept(Owner, SubSeq(block, 1, PushNRoom(m_inPos, m_outPos, Len(block))))
            PROVE  \E elements \in Seq(Elements) :
                       Len(held) + Len(elements) < Size /\ Accept(Owner, elements)
            <3> DEFINE room == PushNRoom(m_inPos, m_outPos, Len(block))
                       elements == SubSeq(block, 1, room)
            <3>1. block \in Seq(Elements) /\ Len(block) \in Nat
                  BY DEF Blocks
            <3>2. room \in 0..Len(block) /\ Len(held) + room < Size
                  BY <1>1, <3>1, RoomForBlock
            <3> HIDE DEF room
            <3>3. elements \in Seq(Elements) /\ Len(elements) = room
                  BY <3>1, <3>2, Front
            <3>4. Len(held) + Len(elements) < Size
                  BY <3>2, <3>3
            <3>5. Accept(Owner, elements)
                  BY <2>2 DEF room
            <3> HIDE DEF elements
            <3> QED BY <3>3, <3>4, <3>5
      <2> QED BY <2>1, <2>2 DEF PushCheck
<1>4. PICK elements \in Seq(Elements) :
          Len(held) + Len(elements) < Size /\ Accept(Owner, elements)
      BY <1>3
<1> DEFINE l == IF elements = <<>> THEN Resting ELSE [pc |-> "write", elements |-> elements]
<1>5. producer' = [producer EXCEPT ![Owner] = l]
      BY <1>4 DEF Accept
<1>6. /\ l \in SingleLocals /\ (l.pc = "idle" \/ (l.pc = "write" /\ l.elements = elements))
      BY DEF SingleLocals, Resting
<1> HIDE DEF l
<1>7. /\ Len(held) + Len(elements) < Size /\ l.pc # "store" /\ l.pc # "peeked"
      /\ l.pc = "write" => l.elements = elements
      BY <1>4, <1>6
<1>8. Ahead(m_inPos') = Len(held')
      BY <1>1, <1>2 DEF Ahead
<1>9. l.pc \in {"write", "store"} => Len(held') + Len(l.elements) < Size
      BY <1>2, <1>7
<1> QED BY <1>1, <1>2, <1>5, <1>6, <1>7, <1>8, <1>9, SingleStep

LEMMA PushWriteKeeps ==
    ASSUME QueueInv, ~shared, PushWrite(Owner)
    PROVE  QueueInv'
<1> DEFINE elements == producer[Owner].elements
           n == Len(held)
           m == Len(elements)
           l == [pc |-> "store", elements |-> elements]
<1>1. /\ held \in Seq(Elements) /\ n \in Nat /\ n <= n /\ n < Size
      /\ m_inPos \in Slots /\ m_outPos \in Slots
      /\ Ahead(m_inPos) = n /\ m_inPos = Shift(m_outPos, n)
      /\ m_buffer \in [Slots -> Elements \cup {Nothing}]
      BY Alone
<1>2. /\ producer[Owner].pc = "write" /\ producer' = [producer EXCEPT ![Owner].pc = "store"]
      /\ UNCHANGED <<shared, m_inPos, m_outPos, m_inPos_mp, m_concurrent_mp, consumer,
                     held, fits>>
      BY DEF PushWrite
<1>3. /\ producer[Owner] = [pc |-> "write", elements |-> elements]
      /\ elements \in Seq(Elements) /\ m \in Nat
      BY <1>2, Alone, LocalOfOne
<1>4. n + m < Size
      BY <1>2 DEF QueueInv, Single
<1>5. producer' = [producer EXCEPT ![Owner] = l]
      <2>1. [producer[Owner] EXCEPT !.pc = "store"] = l
            BY <1>3
      <2> QED BY <1>2, <2>1
<1>6. l \in SingleLocals /\ l.pc = "store" /\ l.elements = elements
      BY <1>3 DEF SingleLocals
<1>7. \A s \in Slots : m_buffer'[s] = LET i == 1 + Dist(m_inPos, s)
                                      IN  IF i <= m THEN elements[i] ELSE m_buffer[s]
      <2>1. \A s \in Slots : (s - m_inPos) % Size = Dist(m_inPos, s)
            BY <1>1, <1>3, Steps
      <2>2. m_buffer' = [s \in Slots |->
                LET i == 1 + ((s - m_inPos) % Size)
                IN IF i <= m THEN elements[i] ELSE m_buffer[s]]
            BY DEF PushWrite
      <2> HIDE DEF elements, m
      <2> QED BY <2>1, <2>2, Zenon
<1>8. m_buffer' \in [Slots -> Elements \cup {Nothing}]
      <2>1. ASSUME NEW s \in Slots PROVE m_buffer'[s] \in Elements \cup {Nothing}
            <3>1. Dist(m_inPos, s) \in Nat
                  <4>1. Dist(m_inPos, s) \in Slots
                        BY <1>1, DistIs
                  <4> QED BY <4>1, SizeType
            <3>2. 1 + Dist(m_inPos, s) <= m => elements[1 + Dist(m_inPos, s)] \in Elements
                  BY <1>3, <3>1
            <3> QED BY <1>1, <1>7, <3>2
      <2>2. m_buffer' = [s \in Slots |-> m_buffer'[s]]
            <3>1. m_buffer' = [s \in Slots |->
                      LET i == 1 + ((s - m_inPos) % Size)
                      IN IF i <= m THEN elements[i] ELSE m_buffer[s]]
                  BY DEF PushWrite
            <3> QED BY <3>1, Zenon
      <2> QED BY <2>1, <2>2
<1> HIDE DEF elements, m, l
<1>9. ASSUME NEW i \in 1..n PROVE m_buffer'[Slot(i)] = m_buffer[Slot(i)]
      <2> DEFINE s == Slot(i)
      <2>1. s \in Slots /\ s = Shift(m_outPos, i - 1)
            <3>1. i \in 1..Size
                  <4> HIDE DEF n
                  <4> QED BY <1>1, SizeType
            <3> QED BY <1>1, <3>1, PlacesOnTheRing DEF Slot
      <2>2. Dist(m_inPos, s) = Size - n + (i - 1)
            <3>1. m_outPos \in Nat /\ m_outPos < Size
                  BY <1>1, SizeType
            <3> HIDE DEF n, s
            <3> QED BY <1>1, <2>1, <3>1, SizeType DEF Dist, Shift
      <2>3. ~ (1 + Dist(m_inPos, s) <= m)
            BY <1>1, <1>3, <1>4, <2>2, SizeType
      <2> HIDE DEF s
      <2>4. m_buffer'[s] = m_buffer[s]
            BY <1>7, <2>1, <2>3
      <2> QED BY <2>4 DEF s
<1>10. ASSUME NEW k \in 1..m PROVE m_buffer'[Slot(n + k)] = elements[k]
      <2> DEFINE s == Slot(n + k)
      <2>1. k - 1 \in Nat /\ n + (k - 1) < Size /\ n + k - 1 = n + (k - 1) /\ 1 + (k - 1) = k
            <3> HIDE DEF n
            <3> QED BY <1>1, <1>3, <1>4, SizeType
      <2>2. k - 1 \in Slots /\ k - 1 < Size
            BY <1>1, <2>1, SizeType
      <2>3. s = Shift(m_inPos, k - 1)
            <3>1. s = Shift(m_outPos, n + (k - 1))
                  BY <2>1 DEF Slot
            <3>2. Shift(Shift(m_outPos, n), k - 1) = Shift(m_outPos, n + (k - 1))
                  BY <1>1, <2>1, Farther
            <3> QED BY <1>1, <3>1, <3>2
      <2>4. s \in Slots /\ Dist(m_inPos, s) = k - 1
            <3> HIDE DEF s
            <3> QED BY <1>1, <2>2, <2>3, ShiftIs
      <2> HIDE DEF s
      <2>5. k <= m
            BY <1>3
      <2>6. m_buffer'[s] = elements[k]
            BY <1>7, <2>1, <2>4, <2>5
      <2> QED BY <2>6 DEF s
<1>11. Ahead(m_inPos') = Len(held')
      BY <1>1, <1>2 DEF Ahead
<1>12. /\ Len(held') + Len(l.elements) < Size
       /\ \A k \in 1..Len(l.elements) : m_buffer'[Slot(Len(held') + k)] = l.elements[k]
      BY <1>2, <1>4, <1>6, <1>10 DEF m
<1>13. l.pc # "peeked"
      BY <1>6
<1> QED BY <1>1, <1>2, <1>5, <1>6, <1>8, <1>9, <1>11, <1>12, <1>13, SingleStep

LEMMA PushPeekKeeps ==
    ASSUME QueueInv, ~shared, PushPeek(Owner)
    PROVE  QueueInv'
<1> DEFINE n == Len(held)
<1>1. /\ held \in Seq(Elements) /\ n \in Nat /\ n <= n /\ n < Size
      /\ m_inPos \in Slots /\ m_outPos \in Slots
      /\ Ahead(m_inPos) = n /\ Slot(n + 1) = m_inPos
      /\ m_buffer \in [Slots -> Elements \cup {Nothing}]
      BY Alone
<1>2. UNCHANGED <<shared, m_inPos, m_outPos, m_inPos_mp, m_concurrent_mp, consumer,
                  held, fits>>
      BY DEF PushPeek
<1>3. PICK e \in Elements :
          /\ m_buffer' = [m_buffer EXCEPT ![m_inPos] = e]
          /\ producer' = [producer EXCEPT ![Owner] = [pc |-> "peeked", elements |-> <<e>>]]
      BY DEF PushPeek
<1> DEFINE l == [pc |-> "peeked", elements |-> <<e>>]
<1>4. /\ l \in SingleLocals /\ l.pc = "peeked" /\ Len(l.elements) = 1 /\ l.elements[1] = e
      BY DEF SingleLocals
<1> HIDE DEF l
<1>5. producer' = [producer EXCEPT ![Owner] = l]
      BY <1>3 DEF l
<1>6. m_buffer' \in [Slots -> Elements \cup {Nothing}]
      BY <1>1, <1>3
<1>7. ASSUME NEW i \in 1..n PROVE m_buffer'[Slot(i)] = m_buffer[Slot(i)]
      <2>1. Slot(i) \in Slots /\ Ahead(Slot(i)) = i - 1 /\ i - 1 < n
            <3>1. i \in 1..Size /\ i - 1 < n
                  <4> HIDE DEF n
                  <4> QED BY <1>1, SizeType
            <3> QED BY <1>1, <3>1, PlacesOnTheRing
      <2>2. Slot(i) # m_inPos
            BY <1>1, <2>1
      <2> QED BY <1>1, <1>3, <2>1, <2>2
<1>8. \A k \in 1..Len(l.elements) : m_buffer'[Slot(Len(held') + k)] = l.elements[k]
      <2>1. m_buffer'[Slot(n + 1)] = e
            BY <1>1, <1>3
      <2> QED BY <1>2, <1>4, <2>1
<1>9. Ahead(m_inPos') = Len(held')
      BY <1>1, <1>2 DEF Ahead
<1>10. l.pc # "write" /\ l.pc # "store"
      BY <1>4
<1> QED BY <1>1, <1>2, <1>4, <1>5, <1>6, <1>7, <1>8, <1>9, <1>10, SingleStep

LEMMA PushPeekedKeeps ==
    ASSUME QueueInv, ~shared, PushPeeked(Owner)
    PROVE  QueueInv'
<1> DEFINE n == Len(held)
           elements == producer[Owner].elements
           room == PushRoom(m_inPos, m_outPos)
           l == IF room = 0 THEN Resting ELSE [pc |-> "store", elements |-> elements]
<1>1. /\ held \in Seq(Elements) /\ n \in Nat /\ n <= n /\ n < Size
      /\ m_inPos \in Slots /\ m_outPos \in Slots /\ Ahead(m_inPos) = n
      /\ m_buffer \in [Slots -> Elements \cup {Nothing}]
      BY Alone
<1>2. /\ UNCHANGED <<shared, m_buffer, m_inPos, m_outPos, m_inPos_mp, m_concurrent_mp,
                     consumer, held, fits>>
      /\ producer[Owner].pc = "peeked"
      /\ producer' = [producer EXCEPT ![Owner] =
            IF room = 0 THEN Resting ELSE [@ EXCEPT !.pc = "store"]]
      BY DEF PushPeeked
<1>3. /\ producer[Owner] = [pc |-> "peeked", elements |-> elements] /\ elements \in Seq(Elements)
      BY <1>2, Alone, LocalOfOne
<1>4. producer' = [producer EXCEPT ![Owner] = l]
      <2>1. [producer[Owner] EXCEPT !.pc = "store"] = [pc |-> "store", elements |-> elements]
            BY <1>3
      <2> QED BY <1>2, <2>1
<1>5. /\ Len(elements) = 1
      /\ \A k \in 1..Len(elements) : m_buffer[Slot(n + k)] = elements[k]
      BY <1>2 DEF QueueInv, Single
<1>6. /\ l \in SingleLocals
      /\ l.pc = "idle" \/ (l.pc = "store" /\ l.elements = elements /\ room # 0)
      BY <1>3 DEF SingleLocals, Resting
<1>7. room # 0 => n + 1 < Size
      BY <1>1, Room DEF Ahead
<1> HIDE DEF l, room, elements
<1>8. Ahead(m_inPos') = Len(held')
      BY <1>1, <1>2 DEF Ahead
<1>9. l.pc # "peeked" /\ l.pc # "write"
      BY <1>6
<1>10. l.pc = "store" => /\ Len(held') + Len(l.elements) < Size
                         /\ \A k \in 1..Len(l.elements) :
                               m_buffer'[Slot(Len(held') + k)] = l.elements[k]
      BY <1>2, <1>5, <1>6, <1>7
<1> QED BY <1>1, <1>2, <1>4, <1>6, <1>8, <1>9, <1>10, SingleStep

LEMMA PushStoreKeeps ==
    ASSUME QueueInv, ~shared, PushStore(Owner)
    PROVE  QueueInv'
<1> DEFINE n == Len(held)
           elements == producer[Owner].elements
           m == Len(elements)
<1>1. /\ held \in Seq(Elements) /\ n \in Nat /\ n < Size
      /\ m_inPos \in Slots /\ m_outPos \in Slots /\ m_inPos = Shift(m_outPos, n)
      /\ m_buffer \in [Slots -> Elements \cup {Nothing}]
      BY Alone
<1>2. /\ UNCHANGED <<shared, m_buffer, m_outPos, m_inPos_mp, m_concurrent_mp, consumer, fits>>
      /\ producer[Owner].pc = "store" /\ producer' = [producer EXCEPT ![Owner] = Resting]
      /\ m_inPos' = (m_inPos + m) % Size /\ held' = held \o elements
      BY DEF PushStore
<1>3. elements \in Seq(Elements) /\ m \in Nat
      BY <1>2, Alone, LocalOfOne
<1>4. /\ n + m < Size
      /\ \A k \in 1..m : m_buffer[Slot(n + k)] = elements[k]
      BY <1>2 DEF QueueInv, Single
<1> HIDE DEF elements, m
<1>5. m_inPos' \in Slots /\ Ahead(m_inPos') = n + m
      <2>1. m < Size
            <3> HIDE DEF n
            <3> QED BY <1>1, <1>3, <1>4, SizeType
      <2>2. m_inPos' = Shift(m_inPos, m)
            BY <1>1, <1>2, <1>3, <2>1, Steps
      <2>3. /\ Shift(m_inPos, m) = Shift(m_outPos, n + m)
            /\ Dist(m_outPos, Shift(m_outPos, n + m)) = n + m
            BY <1>1, <1>3, <1>4, Farther
      <2>4. m_inPos' \in Slots
            <3>1. m \in Slots
                  BY <1>3, <2>1, SizeType
            <3> QED BY <1>1, <2>2, <3>1, ShiftIs
      <2> QED BY <2>2, <2>3, <2>4 DEF Ahead
<1>6. /\ held' \in Seq(Elements) /\ Len(held') = n + m
      /\ \A i \in 1..n : held'[i] = held[i]
      /\ \A k \in 1..m : held'[n + k] = elements[k]
      /\ \A i \in 1..n + m : i \in 1..n \/ \E k \in 1..m : i = n + k
      BY <1>1, <1>2, <1>3, Joined DEF m
<1>7. n <= Len(held') /\ Len(held') < Size /\ Ahead(m_inPos') = Len(held')
      BY <1>1, <1>3, <1>4, <1>5, <1>6
<1>8. \A i \in 1..Len(held') : i \in 1..Len(held) \/ m_buffer'[Slot(i)] = held'[i]
      BY <1>2, <1>4, <1>6
<1>9. /\ Resting \in SingleLocals
      /\ Resting.pc # "write" /\ Resting.pc # "store" /\ Resting.pc # "peeked"
      BY DEF SingleLocals, Resting
<1> QED BY <1>1, <1>2, <1>5, <1>6, <1>7, <1>8, <1>9, SingleStep

--------------------------------------------------------------------------------
(* The consumer. *)

\* A step that only the consumer notices.
LEMMA ViewStep ==
    ASSUME QueueInv, consumer' \in Views,
           UNCHANGED <<shared, m_inPos, m_outPos, m_inPos_mp, m_concurrent_mp, producer,
                       held, fits>>,
           m_buffer' \in [Slots -> Elements \cup {Nothing}],
           \A i \in 1..Size : i > Len(held) => m_buffer'[Slot(i)] = m_buffer[Slot(i)],
           Contents', Consumed'
    PROVE  QueueInv'
<1>1. QueueTypes'
      BY DEF QueueInv, QueueTypes
<1>2. /\ \A s : Ahead(s)' = Ahead(s)
      /\ \A i : Slot(i)' = Slot(i)
      BY SameRing
<1>3. Single'
      <2> SUFFICES ASSUME ~shared PROVE Single'
            BY DEF Single
      <2> DEFINE n == Len(held)
                 elements == producer[Owner].elements
      <2>1. /\ Ahead(m_inPos) = n
            /\ \A p \in Producers : p # Owner => producer[p] = Resting
            /\ producer[Owner].pc \in {"write", "store"} => n + Len(elements) < Size
            /\ producer[Owner].pc = "peeked" => Len(elements) = 1
            /\ producer[Owner].pc \in {"store", "peeked"} =>
                  \A k \in 1..Len(elements) : m_buffer[Slot(n + k)] = elements[k]
            BY DEF QueueInv, Single
      <2>2. n \in Nat /\ n < Size
            BY Alone
      <2>3. ASSUME producer[Owner].pc \in {"store", "peeked"}, NEW k \in 1..Len(elements)
            PROVE  m_buffer'[Slot(n + k)] = elements[k]
            <3>1. producer[Owner] \in SingleLocals /\ producer[Owner] # Resting
                  BY <2>3, Alone DEF Resting
            <3>2. Len(elements) \in Nat /\ n + Len(elements) <= Size
                  <4>1. elements \in Seq(Elements)
                        BY <3>1, LocalOfOne
                  <4>2. Len(elements) \in Nat
                        BY <4>1
                  <4> HIDE DEF elements, n
                  <4> QED BY <2>1, <2>2, <2>3, <4>2, SizeType
            <3>3. n + k \in 1..Size /\ n + k > n
                  <4> HIDE DEF n, elements
                  <4> QED BY <2>2, <3>2, SizeType
            <3>4. m_buffer'[Slot(n + k)] = m_buffer[Slot(n + k)]
                  BY <3>3
            <3> QED BY <2>1, <2>3, <3>4
      <2>4. Ahead(m_inPos)' = n
            BY <2>1 DEF Ahead
      <2> HIDE DEF n, elements
      <2> QED BY <1>2, <2>1, <2>3, <2>4 DEF Single, n, elements
<1>4. Shared'
      BY DEF QueueInv, Shared, Ahead, Inside
<1> QED BY <1>1, <1>3, <1>4 DEF QueueInv

LEMMA ConsumerLooksKeeps ==
    ASSUME QueueInv, ConsumerLooks
    PROVE  QueueInv'
<1>1. /\ consumer = Resting
      /\ UNCHANGED <<shared, m_buffer, m_inPos, m_outPos, m_inPos_mp, m_concurrent_mp, producer,
                     held, fits>>
      BY DEF ConsumerLooks
<1>2. PICK op \in Operations :
        /\ Sees(op) > 0
        /\ consumer' = [pc |-> IF op.name = "flush" THEN "store" ELSE "read",
                        name |-> op.name, n |-> Sees(op), got |-> <<>>, keep |-> {}]
      BY DEF ConsumerLooks
<1>3. /\ available = Ahead(m_inPos) /\ Ahead(m_inPos) \in Nat
      /\ m_buffer \in [Slots -> Elements \cup {Nothing}]
      BY PublishedIsThere, AheadIs DEF QueueInv, QueueTypes
<1>4. op.name \in Names /\ (op.name = "pop_n" => op.size \in Nat)
      BY DEF Operations, Names
<1>5. Sees(op) \in 1..Ahead(m_inPos) /\ Sees(op) \in Nat
      BY <1>2, <1>3, <1>4 DEF Sees, Smaller
<1> DEFINE n == Sees(op)
<1> HIDE DEF n
<1>6. /\ consumer'.name = op.name /\ consumer'.n = n /\ consumer'.keep = {}
      /\ consumer'.pc = IF op.name = "flush" THEN "store" ELSE "read"
      /\ consumer' \in Views
      <2>1. consumer' = [pc |-> IF op.name = "flush" THEN "store" ELSE "read",
                         name |-> op.name, n |-> n, got |-> <<>>, keep |-> {}]
            BY <1>2 DEF n
      <2>2. <<>> \in Seq(Elements) /\ {} \in SUBSET Nat /\ n \in Nat
            BY <1>5 DEF n
      <2> QED BY <1>4, <2>1, <2>2 DEF Views
<1>7. Contents'
      <2>1. Seen = 0 /\ \A i : Slot(i)' = Slot(i)
            BY <1>1, SameRing DEF Seen, Resting
      <2>2. \A i \in 1..Len(held) : i > 0
            OBVIOUS
      <2>3. \A i \in 1..Len(held) : Pending(Slot(i)) \/ m_buffer[Slot(i)] = held[i]
            BY <2>1, <2>2 DEF QueueInv, Contents
      <2>4. \A s : Pending(s) = Pending(s)'
            BY <1>1 DEF Pending
      <2> QED BY <1>1, <2>1, <2>3, <2>4 DEF Contents
<1>8. Consumed'
      <2>1. Cardinality({}) = 0 /\ \A k \in 1..0 : FALSE
            BY FS_EmptySet
      <2>2. \A k \in 1..Cardinality(consumer'.keep) : FALSE
            BY <1>6, <2>1
      <2>3. n \in 1..Ahead(m_inPos)'
            BY <1>1, <1>5 DEF Ahead, n
      <2>4. {} \in SUBSET (1..n)
            OBVIOUS
      <2> QED BY <1>6, <2>2, <2>3, <2>4 DEF Consumed
<1> QED BY <1>1, <1>3, <1>6, <1>7, <1>8, ViewStep

\* What the consumer has in hand.
LEMMA InHand ==
    ASSUME QueueInv, consumer # Resting
    PROVE  /\ m_inPos \in Slots /\ m_outPos \in Slots /\ held \in Seq(Elements)
           /\ Len(held) \in Nat /\ Len(held) < Size
           /\ consumer \in Views
           /\ consumer = [pc |-> consumer.pc, name |-> consumer.name, n |-> consumer.n,
                          got |-> consumer.got, keep |-> consumer.keep]
           /\ consumer.n \in Nat /\ consumer.n > 0 /\ consumer.n <= Len(held)
           /\ consumer.n <= Ahead(m_inPos) /\ Ahead(m_inPos) \in 0..Len(held)
           /\ Taken \in Nat /\ Taken > 0 /\ Taken <= consumer.n /\ Taken \in 0..Len(held)
           /\ consumer.name # "for_each" => Taken = consumer.n
           /\ consumer.pc = "read" =>
                 /\ consumer.name # "flush" /\ consumer.keep = {} /\ Seen = 0
                 /\ \A i \in 1..consumer.n : At(i - 1) = held[i] /\ m_buffer[Slot(i)] = held[i]
<1>1. /\ m_inPos \in Slots /\ m_outPos \in Slots /\ held \in Seq(Elements)
      /\ Len(held) \in Nat /\ Len(held) < Size /\ consumer \in Views
      BY DEF QueueInv, QueueTypes
<1>2. Ahead(m_inPos) \in 0..Len(held)
      BY PublishedIsThere
<1>3. consumer.n \in 1..Ahead(m_inPos)
      BY DEF QueueInv, Consumed
<1>4. /\ consumer.n \in Nat /\ consumer.n > 0 /\ consumer.n <= Len(held)
      /\ consumer.n <= Ahead(m_inPos)
      BY <1>1, <1>2, <1>3
<1>5. /\ Taken \in Nat /\ Taken > 0 /\ Taken <= consumer.n /\ Taken \in 0..Len(held)
      /\ consumer.name # "for_each" => Taken = consumer.n
      BY <1>1, <1>4 DEF Taken
<1>6. ASSUME consumer.pc = "read"
      PROVE  /\ consumer.name # "flush" /\ consumer.keep = {} /\ Seen = 0
             /\ \A i \in 1..consumer.n : At(i - 1) = held[i] /\ m_buffer[Slot(i)] = held[i]
      <2>1. consumer.name # "flush" /\ consumer.keep = {} /\ Seen = 0
            BY <1>6 DEF QueueInv, Consumed, Seen
      <2>2. \A i \in 1..consumer.n : i \in 1..Ahead(m_inPos) /\ i > 0
            BY <1>2, <1>4
      <2> QED BY <2>1, <2>2, PublishedIsThere
<1>7. consumer = [pc |-> consumer.pc, name |-> consumer.name, n |-> consumer.n,
                  got |-> consumer.got, keep |-> consumer.keep]
      BY <1>1, ViewIs
<1> QED BY <1>1, <1>2, <1>4, <1>5, <1>6, <1>7

LEMMA ConsumerReadsKeeps ==
    ASSUME QueueInv, ConsumerReads
    PROVE  QueueInv'
<1> DEFINE got == [i \in 1..Taken |-> At(i - 1)]
           t == Taken
           n == consumer.n
<1>1. /\ consumer.pc = "read" /\ consumer.name # "for_each_rev_requeue"
      /\ consumer' = [consumer EXCEPT !.pc = "store", !.got = got]
      /\ UNCHANGED <<shared, m_buffer, m_inPos, m_outPos, m_inPos_mp, m_concurrent_mp, producer,
                     held, fits>>
      BY DEF ConsumerReads
<1>2. consumer # Resting
      BY <1>1 DEF Resting
<1>3. /\ held \in Seq(Elements) /\ consumer \in Views /\ n \in Nat /\ t \in Nat /\ t <= n
      /\ consumer = [pc |-> "read", name |-> consumer.name, n |-> n,
                     got |-> consumer.got, keep |-> {}]
      /\ consumer.name \in Names /\ consumer.name # "flush"
      /\ t \in 0..Len(held)
      /\ \A i \in 1..n : At(i - 1) = held[i]
      BY <1>1, <1>2, InHand, ViewIs
<1>4. got = SubSeq(held, 1, t) /\ got \in Seq(Elements)
      <2>1. \A i \in 1..t : i \in 1..n
            BY <1>3, Ordered, Zenon
      <2>2. \A i \in 1..t : At(i - 1) = held[i]
            BY <1>3, <2>1
      <2>3. SubSeq(held, 1, t) = [i \in 1..t |-> held[i]]
            BY <1>3, FrontIs
      <2>4. SubSeq(held, 1, t) \in Seq(Elements)
            BY <1>3, Front
      <2> QED BY <2>2, <2>3, <2>4
<1> HIDE DEF got, n
<1>6. /\ consumer' \in Views /\ consumer'.pc = "store" /\ consumer'.name = consumer.name
      /\ consumer'.n = n /\ consumer'.got = got /\ consumer'.keep = {}
      <2>1. consumer \in [pc : {"read", "store"}, name : Names, n : Nat,
                          got : Seq(Elements), keep : SUBSET Nat]
            BY <1>2, <1>3 DEF Views
      <2>2. consumer'.pc = "store" /\ consumer'.name = consumer.name
            /\ consumer'.n = consumer.n /\ consumer'.got = got /\ consumer'.keep = consumer.keep
            BY <1>1, <2>1
      <2>3. consumer' \in [pc : {"read", "store"}, name : Names, n : Nat,
                           got : Seq(Elements), keep : SUBSET Nat]
            BY <1>1, <1>4, <2>1
      <2>4. consumer' \in Views
            BY <2>3 DEF Views
      <2>5. consumer.keep = {}
            BY <1>3
      <2> QED BY <2>2, <2>4, <2>5 DEF n
<1>7. Taken' = t
      BY <1>6 DEF Taken, n
<1>8. Contents'
      <2>1. Seen = 0 /\ \A i : Slot(i)' = Slot(i)
            BY <1>1, SameRing DEF Seen
      <2>2. \A i \in 1..Len(held) : i > 0
            OBVIOUS
      <2>3. \A i \in 1..Len(held) : Pending(Slot(i)) \/ m_buffer[Slot(i)] = held[i]
            BY <2>1, <2>2 DEF QueueInv, Contents
      <2>4. \A s : Pending(s) = Pending(s)'
            BY <1>1 DEF Pending
      <2> QED BY <1>1, <2>1, <2>3, <2>4 DEF Contents
<1>9. Consumed'
      <2>1. Cardinality({}) = 0 /\ \A k \in 1..0 : FALSE
            BY FS_EmptySet
      <2>2. \A k \in 1..Cardinality(consumer'.keep) : FALSE
            BY <1>6, <2>1
      <2>3. n \in 1..Ahead(m_inPos)'
            BY <1>1, <1>2 DEF Ahead, QueueInv, Consumed, n
      <2>4. {} \in SUBSET (1..n)
            OBVIOUS
      <2>5. consumer'.got = SubSeq(held', 1, Taken')
            BY <1>1, <1>4, <1>6, <1>7
      <2> QED BY <1>6, <2>2, <2>3, <2>4, <2>5 DEF Consumed
<1>10. m_buffer' \in [Slots -> Elements \cup {Nothing}]
      BY <1>1 DEF QueueInv, QueueTypes
<1> QED BY <1>1, <1>6, <1>8, <1>9, <1>10, ViewStep

\* What is left when the consumer keeps some of the t elements it saw, and
\* how many it lets go of.
Left(t, keep) == Those(held, keep) \o SubSeq(held, t + 1, Len(held))
Dropped(t, keep) == t - Cardinality(keep)

LEMMA LetGo ==
    ASSUME QueueInv, NEW t \in Nat, NEW keep \in SUBSET (1..t), t <= Ahead(m_inPos),
           NEW left, left = Left(t, keep), NEW d, d = Dropped(t, keep)
    PROVE  /\ d \in Nat /\ d <= t /\ left \in Seq(Elements) /\ Len(left) = Len(held) - d
           /\ Cardinality(keep) \in Nat /\ Cardinality(keep) = t - d
           /\ \A i \in 1..Cardinality(keep) : left[i] = held[Place(keep, i)]
           /\ \A i \in 1..Len(left) : i > Cardinality(keep) =>
                 i + d \in 1..Len(held) /\ i + d > t /\ left[i] = held[i + d]
<1> DEFINE c == Cardinality(keep)
           n == Len(held)
           front == Those(held, keep)
           rest == SubSeq(held, t + 1, n)
<1>1. held \in Seq(Elements) /\ n \in Nat /\ t <= n /\ Ahead(m_inPos) \in Nat
      <2>1. held \in Seq(Elements) /\ n \in Nat /\ Ahead(m_inPos) \in 0..n
            BY PublishedIsThere DEF QueueInv, QueueTypes
      <2> QED BY <2>1
<1>2. c \in Nat /\ c <= t /\ d \in Nat /\ d <= t /\ c = t - d
      <2>1. c \in Nat /\ c <= t
            BY Placed
      <2>2. d = t - c
            BY DEF Dropped
      <2> HIDE DEF c
      <2> QED BY <2>1, <2>2
<1>3. keep \in SUBSET DOMAIN held
      BY <1>1
<1>4. /\ front \in Seq(Elements) /\ Len(front) = c
      /\ \A i \in 1..c : front[i] = held[Place(keep, i)]
      BY <1>1, <1>3, ThoseAre
<1>5. /\ rest \in Seq(Elements) /\ Len(rest) = n - t
      /\ \A k \in 1..n - t : rest[k] = held[t + k]
      <2> HIDE DEF n
      <2>1. n = Len(held)
            BY DEF n
      <2> QED BY <1>1, <2>1
<1> HIDE DEF front, rest, n, c
<1>6. /\ left \in Seq(Elements) /\ Len(left) = c + (n - t)
      /\ \A i \in 1..c : left[i] = front[i]
      /\ \A k \in 1..n - t : left[c + k] = rest[k]
      /\ \A i \in 1..c + (n - t) : i \in 1..c \/ \E k \in 1..n - t : i = c + k
      <2>1. left = front \o rest
            BY DEF Left, front, rest, n
      <2>2. front \in Seq(Elements) /\ rest \in Seq(Elements)
            BY <1>4, <1>5
      <2>3. /\ front \o rest \in Seq(Elements) /\ Len(front \o rest) = Len(front) + Len(rest)
            /\ \A i \in 1..Len(front) : (front \o rest)[i] = front[i]
            /\ \A k \in 1..Len(rest) : (front \o rest)[Len(front) + k] = rest[k]
            /\ \A i \in 1..Len(front) + Len(rest) :
                  i \in 1..Len(front) \/ \E k \in 1..Len(rest) : i = Len(front) + k
            BY <2>2, Joined
      <2> QED BY <1>4, <1>5, <2>1, <2>3
<1>7. Len(left) = n - d
      BY <1>1, <1>2, <1>6
<1>8. ASSUME NEW i \in 1..Len(left), i > c
      PROVE  i + d \in 1..n /\ i + d > t /\ left[i] = held[i + d]
      <2>1. i \notin 1..c /\ i \in 1..c + (n - t)
            BY <1>2, <1>6, <1>8
      <2>2. PICK k \in 1..n - t : i = c + k
            BY <1>6, <2>1
      <2>3. i + d = t + k /\ t + k \in 1..n /\ t + k > t
            BY <1>1, <1>2, <2>2
      <2>4. left[i] = held[t + k]
            BY <1>5, <1>6, <2>2
      <2> QED BY <2>3, <2>4
<1>9. \A i \in 1..c : left[i] = held[Place(keep, i)]
      BY <1>4, <1>6
<1> QED BY <1>2, <1>6, <1>7, <1>8, <1>9 DEF n, c

\* The ring seen from d places on.
LEMMA SeenFrom ==
    ASSUME m_outPos \in Slots, m_outPos' \in Slots, NEW d \in Nat, d < Size,
           m_outPos' = Shift(m_outPos, d)
    PROVE  /\ \A s \in Slots : Ahead(s) >= d => Ahead(s)' = Ahead(s) - d
           /\ \A i \in 1..Size : i + d <= Size => Shift(m_outPos', i - 1) = Slot(i + d)
<1>1. ASSUME NEW s \in Slots, Ahead(s) >= d PROVE Ahead(s)' = Ahead(s) - d
      <2>1. Dist(m_outPos, s) \in Nat
            <3>1. Dist(m_outPos, s) \in Slots
                  BY DistIs
            <3> QED BY <3>1, SizeType
      <2>2. d \in 0..Dist(m_outPos, s)
            BY <1>1, <2>1 DEF Ahead
      <2>3. Dist(Shift(m_outPos, d), s) = Dist(m_outPos, s) - d
            BY <2>2, Closer
      <2> QED BY <2>3 DEF Ahead
<1>2. ASSUME NEW i \in 1..Size, i + d <= Size PROVE Shift(m_outPos', i - 1) = Slot(i + d)
      <2>1. i - 1 \in Nat /\ d + (i - 1) < Size /\ i + d - 1 = d + (i - 1)
            BY <1>2, SizeType
      <2>2. Shift(Shift(m_outPos, d), i - 1) = Shift(m_outPos, d + (i - 1))
            BY <2>1, Farther
      <2> QED BY <2>1, <2>2 DEF Slot
<1> QED BY <1>1, <1>2

LEMMA ConsumerStoresKeeps ==
    ASSUME QueueInv, ConsumerStores
    PROVE  QueueInv'
<1> DEFINE t == Taken
           n == Len(held)
           keep == consumer.keep
           c == Cardinality(keep)
           d == t - c
<1>1. /\ consumer.pc = "store"
      /\ m_outPos' = (m_outPos + Taken - c) % Size
      /\ held' = Those(held, keep) \o SubSeq(held, t + 1, n)
      /\ fits' = (consumer.name = "flush" \/ consumer.got = SubSeq(held, 1, t))
      /\ consumer' = IF t = consumer.n THEN Resting
                     ELSE [consumer EXCEPT !.pc = "read", !.n = @ - t]
      /\ UNCHANGED <<shared, m_buffer, m_inPos, m_inPos_mp, m_concurrent_mp, producer>>
      BY DEF ConsumerStores
<1>2. consumer # Resting
      BY <1>1 DEF Resting
<1>3. /\ m_inPos \in Slots /\ m_outPos \in Slots /\ held \in Seq(Elements)
      /\ n \in Nat /\ n < Size
      /\ consumer \in Views /\ consumer.n \in Nat /\ consumer.n <= n
      /\ consumer.n <= Ahead(m_inPos) /\ Ahead(m_inPos) \in 0..n
      /\ t \in Nat /\ t > 0 /\ t <= consumer.n
      /\ consumer.name # "for_each" => t = consumer.n
      BY <1>2, InHand
<1>4. /\ keep \in SUBSET (1..consumer.n)
      /\ consumer.name # "for_each_rev_requeue" => keep = {}
      /\ consumer.name # "flush" => consumer.got = SubSeq(held, 1, t)
      /\ \A k \in 1..c : m_buffer[Slot(consumer.n - c + k)] = held[Place(keep, k)]
      BY <1>1, <1>2 DEF QueueInv, Consumed
<1>5. t = consumer.n \/ keep = {}
      BY <1>3, <1>4
<1>6. keep \in SUBSET (1..t)
      BY <1>4, <1>5
<1> HIDE DEF t, n, d
<1>7. /\ t <= Ahead(m_inPos) /\ Ahead(m_inPos) \in Nat
      BY <1>3
<1>8. /\ d \in Nat /\ d <= t /\ held' \in Seq(Elements) /\ Len(held') = n - d
      /\ c \in Nat /\ c = t - d
      /\ \A i \in 1..c : held'[i] = held[Place(keep, i)]
      /\ \A i \in 1..Len(held') : i > c =>
            i + d \in 1..n /\ i + d > t /\ held'[i] = held[i + d]
      <2>1. d = Dropped(t, keep) /\ held' = Left(t, keep)
            BY <1>1 DEF d, n, Left, Dropped
      <2> HIDE DEF keep
      <2>2. /\ d \in Nat /\ d <= t /\ held' \in Seq(Elements) /\ Len(held') = Len(held) - d
            /\ Cardinality(keep) \in Nat /\ Cardinality(keep) = t - d
            /\ \A i \in 1..Cardinality(keep) : held'[i] = held[Place(keep, i)]
            /\ \A i \in 1..Len(held') : i > Cardinality(keep) =>
                  i + d \in 1..Len(held) /\ i + d > t /\ held'[i] = held[i + d]
            BY <1>3, <1>6, <1>7, <2>1, LetGo
      <2> QED BY <2>2 DEF n
<1> HIDE DEF keep, c
<1>9. m_outPos' = Shift(m_outPos, d) /\ d < Size /\ m_outPos' \in Slots
      <2>1. d < Size /\ d \in Slots
            BY <1>3, <1>7, <1>8, SizeType
      <2>2. m_outPos \in Nat
            BY <1>3, SizeType
      <2>3. m_outPos + t - c = m_outPos + d
            BY <1>3, <1>8, <2>2
      <2>4. m_outPos' = Shift(m_outPos, d)
            <3>1. m_outPos' = (m_outPos + d) % Size
                  BY <1>1, <2>3 DEF t
            <3> QED BY <1>3, <1>8, <2>1, <3>1, Steps
      <2> QED BY <1>3, <2>1, <2>4, ShiftIs
<1>10. /\ \A s \in Slots : Ahead(s) >= d => Ahead(s)' = Ahead(s) - d
       /\ \A i \in 1..Size : i + d <= Size => Shift(m_outPos', i - 1) = Slot(i + d)
      BY <1>3, <1>8, <1>9, SeenFrom
<1>11. Ahead(m_inPos)' = Ahead(m_inPos) - d /\ Ahead(m_inPos) >= d
      BY <1>1, <1>3, <1>7, <1>8, <1>10
<1>12. /\ consumer' \in Views
       /\ t = consumer.n => consumer' = Resting
       /\ t # consumer.n => /\ consumer'.pc = "read" /\ consumer'.n = consumer.n - t
                            /\ consumer'.name = consumer.name /\ consumer'.keep = keep
       /\ consumer'.pc # "store"
      <2>1. CASE t = consumer.n
            BY <1>1, <2>1 DEF Resting, Views
      <2>2. CASE t # consumer.n
            <3>1. consumer \in [pc : {"read", "store"}, name : Names, n : Nat,
                                got : Seq(Elements), keep : SUBSET Nat]
                  BY <1>2, <1>3 DEF Views
            <3>2. consumer' = [consumer EXCEPT !.pc = "read", !.n = consumer.n - t]
                  BY <1>1, <2>2
            <3>3. consumer.n - t \in Nat
                  BY <1>3
            <3>4. consumer' \in [pc : {"read", "store"}, name : Names, n : Nat,
                                 got : Seq(Elements), keep : SUBSET Nat]
                  BY <3>1, <3>2, <3>3
            <3>5. /\ consumer'.pc = "read" /\ consumer'.n = consumer.n - t
                  /\ consumer'.name = consumer.name /\ consumer'.keep = consumer.keep
                  BY <3>1, <3>2
            <3> QED BY <2>2, <3>4, <3>5 DEF Views, keep
      <2> QED BY <2>1, <2>2
<1>13. fits' = TRUE
      BY <1>1, <1>4, Zenon
<1>14. QueueTypes'
      <2>1. Len(held') < Size
            BY <1>3, <1>8, SizeType
      <2> QED BY <1>1, <1>8, <1>9, <1>12, <1>13, <2>1 DEF QueueInv, QueueTypes
<1>15. Single'
      <2> SUFFICES ASSUME ~shared PROVE Single'
            BY <1>1 DEF Single
      <2> DEFINE elements == producer[Owner].elements
                 m == Len(elements)
      <2>1. /\ Ahead(m_inPos) = n
            /\ \A p \in Producers : p # Owner => producer[p] = Resting
            /\ producer[Owner].pc \in {"write", "store"} => n + m < Size
            /\ producer[Owner].pc = "peeked" => m = 1
            /\ producer[Owner].pc \in {"store", "peeked"} =>
                  \A k \in 1..m : m_buffer[Slot(n + k)] = elements[k]
            BY DEF QueueInv, Single, n
      <2>2. producer[Owner].pc \in {"write", "store", "peeked"} => m \in Nat
            <3>1. producer[Owner].pc # "idle" => elements \in Seq(Elements)
                  BY Alone, LocalOfOne
            <3>2. elements \in Seq(Elements) => m \in Nat
                  OBVIOUS
            <3> QED BY <3>1, <3>2
      <2> HIDE DEF elements, m
      <2>3. Ahead(m_inPos)' = Len(held')
            BY <1>8, <1>11, <2>1
      <2>4. producer[Owner].pc \in {"write", "store"} => Len(held') + m < Size
            BY <1>3, <1>8, <2>1, <2>2, SizeType
      <2>5. ASSUME producer[Owner].pc \in {"store", "peeked"}, NEW k \in 1..m
            PROVE  m_buffer[Shift(m_outPos', Len(held') + k - 1)] = elements[k]
            <3>1. m \in Nat /\ n + m <= Size
                  BY <1>3, <2>1, <2>2, <2>5, SizeType
            <3>2. Len(held') = n - d /\ n - d \in Nat
                  BY <1>3, <1>7, <1>8
            <3> DEFINE i == n - d + k
            <3>3. i \in 1..Size /\ i + d = n + k /\ n + k <= Size
                  BY <1>3, <1>8, <3>1, <3>2, SizeType
            <3> HIDE DEF i
            <3>4. Shift(m_outPos', i - 1) = Slot(n + k)
                  BY <1>10, <3>3
            <3> QED BY <2>1, <2>5, <3>2, <3>4 DEF i
      <2>6. Single'
            <3>1. producer' = producer /\ m_buffer' = m_buffer
                  BY <1>1
            <3> QED BY <2>1, <2>3, <2>4, <2>5, <3>1 DEF Single, Slot, elements, m
      <2> QED BY <2>6
<1>16. Shared'
      <2> SUFFICES ASSUME shared PROVE Shared'
            BY <1>1 DEF Shared
      <2>1. /\ Ahead(m_inPos_mp) = n /\ Ahead(m_inPos) <= n
            /\ m_concurrent_mp = Cardinality(Inside) /\ m_inPos_mp \in Slots
            BY DEF QueueInv, Shared, QueueTypes, n
      <2>2. Ahead(m_inPos_mp)' = Len(held') /\ Ahead(m_inPos)' <= Len(held')
            <3>1. Ahead(m_inPos_mp)' = n - d
                  BY <1>1, <1>3, <1>7, <1>8, <1>10, <2>1
            <3> QED BY <1>3, <1>7, <1>8, <1>11, <2>1, <3>1
      <2>3. m_concurrent_mp' = Cardinality(Inside')
            BY <1>1, <2>1 DEF Inside
      <2>4. ASSUME NEW p \in Producers, producer[p].pc \in Reading
            PROVE  /\ Ahead(producer[p].in)' = Ahead(producer[p].in) - d
                   /\ Ahead(producer[p].in) \in Nat /\ Ahead(producer[p].in) >= t
                   /\ Ahead(m_inPos) <= Ahead(producer[p].in)
                   /\ Ahead(producer[p].in) <= n
            <3>1. /\ producer[p].in \in Slots
                  /\ Ahead(m_inPos) <= Ahead(producer[p].in) /\ Ahead(producer[p].in) <= n
                  BY <2>4, HasRead, LocalIs DEF n
            <3>2. Ahead(producer[p].in) \in Nat
                  BY <1>3, <3>1, AheadIs
            <3>3. Ahead(producer[p].in) >= t
                  BY <1>3, <1>7, <3>1, <3>2
            <3>4. Ahead(producer[p].in) >= d
                  BY <1>3, <1>8, <3>2, <3>3
            <3>5. Ahead(producer[p].in)' = Ahead(producer[p].in) - d
                  BY <1>1, <1>10, <3>1, <3>4
            <3> QED BY <3>1, <3>2, <3>3, <3>5
      <2>5. ASSUME NEW p \in Producers, producer'[p].pc \in Reading
            PROVE  /\ Ahead(m_inPos)' <= Ahead(producer[p].in)'
                   /\ Ahead(producer[p].in)' <= Len(held')
            <3> DEFINE a == Ahead(producer[p].in)
            <3>1. /\ Ahead(producer[p].in)' = a - d /\ a \in Nat
                  /\ Ahead(m_inPos) <= a /\ a <= n
                  BY <1>1, <2>4, <2>5
            <3>2. Ahead(m_inPos)' = Ahead(m_inPos) - d /\ Len(held') = n - d
                  BY <1>8, <1>11
            <3> HIDE DEF a
            <3>3. Ahead(m_inPos) - d <= a - d /\ a - d <= n - d
                  BY <1>3, <1>7, <1>8, <3>1
            <3> QED BY <3>1, <3>2, <3>3
      <2>6. ASSUME NEW p \in Producers, producer'[p].pc = "claim slot"
            PROVE  Ahead(producer[p].in)' + 1 < Size
            <3>1. Ahead(producer[p].in) + 1 < Size
                  BY <1>1, <2>6 DEF QueueInv, Shared
            <3>2. producer[p].pc \in Reading
                  BY <1>1, <2>6 DEF Reading
            <3> QED BY <1>8, <2>4, <3>1, <3>2, SizeType
      <2>7. ASSUME NEW p \in Producers, producer'[p].pc = "write"
            PROVE  /\ Ahead(producer[p].in)' < Len(held')
                   /\ held'[(Ahead(producer[p].in) + 1)'] = producer'[p].e
            <3> DEFINE a == Ahead(producer[p].in)
            <3>1. a < n /\ held[a + 1] = producer[p].e
                  BY <1>1, <2>7 DEF QueueInv, Shared, n
            <3>2. producer[p].pc \in Reading
                  BY <1>1, <2>7 DEF Reading
            <3>3. a \in Nat /\ a >= t /\ Ahead(producer[p].in)' = a - d
                  BY <2>4, <3>2
            <3> HIDE DEF a
            <3>4. /\ a - d < Len(held') /\ a - d + 1 \in 1..Len(held') /\ a - d + 1 > c
                  /\ (a - d + 1) + d = a + 1
                  BY <1>3, <1>8, <3>1, <3>3
            <3>5. held'[a - d + 1] = held[a + 1]
                  BY <1>8, <3>4
            <3> QED BY <1>1, <3>1, <3>3, <3>4, <3>5
      <2>8. ASSUME NEW p \in Producers, NEW q \in Producers, p # q, producer'[p].pc = "publish"
            PROVE  /\ producer'[q].pc # "publish"
                   /\ producer'[q].pc \in Reading =>
                         Ahead(producer[p].in)' <= Ahead(producer[q].in)'
            <3>1. /\ producer[q].pc # "publish"
                  /\ producer[q].pc \in Reading => Ahead(producer[p].in) <= Ahead(producer[q].in)
                  BY <1>1, <2>8 DEF QueueInv, Shared
            <3>2. producer[p].pc \in Reading
                  BY <1>1, <2>8 DEF Reading
            <3>3. producer[q].pc \in Reading => Ahead(producer[p].in)' <= Ahead(producer[q].in)'
                  <4> SUFFICES ASSUME producer[q].pc \in Reading
                               PROVE  Ahead(producer[p].in)' <= Ahead(producer[q].in)'
                        OBVIOUS
                  <4>1. /\ Ahead(producer[p].in)' = Ahead(producer[p].in) - d
                        /\ Ahead(producer[q].in)' = Ahead(producer[q].in) - d
                        /\ Ahead(producer[p].in) \in Nat /\ Ahead(producer[q].in) \in Nat
                        BY <2>4, <3>2
                  <4> QED BY <1>8, <3>1, <4>1
            <3> QED BY <1>1, <3>1, <3>3
      <2> QED BY <2>2, <2>3, <2>5, <2>6, <2>7, <2>8 DEF Shared
<1>17. Contents'
      <2> SUFFICES ASSUME NEW i \in 1..Len(held')
                   PROVE  Pending(Slot(i))' \/ m_buffer'[Slot(i)'] = held'[i]
            BY DEF Contents
      <2>1. i \in Nat /\ i \in 1..Size /\ i + d <= Size /\ i + d <= n
            BY <1>3, <1>8, <1>7, SizeType
      <2>2. Slot(i)' = Slot(i + d)
            BY <1>10, <2>1 DEF Slot
      <2>3. CASE i > c
            <3>1. i + d \in 1..n /\ i + d > t /\ held'[i] = held[i + d]
                  BY <1>8, <2>3
            <3>2. i + d > Seen
                  BY <1>1, <3>1 DEF Seen, t
            <3>3. Pending(Slot(i + d)) \/ m_buffer[Slot(i + d)] = held[i + d]
                  BY <3>1, <3>2 DEF QueueInv, Contents, n
            <3>4. Pending(Slot(i + d)) => Pending(Slot(i))'
                  BY <1>1, <2>2 DEF Pending
            <3> QED BY <1>1, <2>2, <3>1, <3>3, <3>4
      <2>4. CASE ~ (i > c)
            <3>1. i \in 1..c
                  BY <1>8, <2>1, <2>4
            <3>2. t = consumer.n
                  <4>1. keep # {}
                        <5>1. Cardinality({}) = 0 /\ \A k \in 1..0 : FALSE
                              BY FS_EmptySet
                        <5> QED BY <3>1, <5>1 DEF c
                  <4> QED BY <1>5, <4>1
            <3>3. consumer.n - c + i = i + d
                  BY <1>3, <1>8, <2>1, <3>2
            <3>4. m_buffer[Slot(i + d)] = held[Place(keep, i)]
                  BY <1>4, <3>1, <3>3
            <3> QED BY <1>1, <1>8, <2>2, <3>1, <3>4
      <2> QED BY <2>3, <2>4
<1>18. Consumed'
      <2> SUFFICES ASSUME consumer' # Resting PROVE Consumed'
            BY DEF Consumed
      <2>1. t # consumer.n
            BY <1>12
      <2>2. keep = {} /\ c = 0
            BY <1>5, <2>1, FS_EmptySet DEF c
      <2>3. consumer.n - t \in 1..Ahead(m_inPos)'
            BY <1>3, <1>7, <1>8, <1>11, <2>1, <2>2
      <2>4. consumer.name = "for_each" /\ {} \in SUBSET (1..(consumer.n - t))
            BY <1>3, <2>1
      <2> QED BY <1>12, <2>1, <2>2, <2>3, <2>4 DEF Consumed
<1> QED BY <1>14, <1>15, <1>16, <1>17, <1>18 DEF QueueInv

\* The recursion in Requeued has a solution.
LEMMA RequeuedIsRecursive ==
    ASSUME NEW n \in Nat, NEW keep
    PROVE  \E after :
             /\ after = [k \in 0..n |->
                    IF k = 0 THEN Unlooked(n)
                    ELSE Looked(after[k - 1], (m_outPos + n - k) % Size, n + 1 - k \in keep)]
             /\ Requeued(n, keep) = after[n]
<1> DEFINE Is(f, m) == f = [k \in 0..m |->
                IF k = 0 THEN Unlooked(n)
                ELSE Looked(f[k - 1], (m_outPos + n - k) % Size, n + 1 - k \in keep)]
           P == {m \in Nat : \E f : Is(f, m)}
<1>1. 0 \in P
      <2>1. Is([k \in 0..0 |-> Unlooked(n)], 0)
            OBVIOUS
      <2> HIDE DEF Is
      <2> QED BY <2>1
<1>2. ASSUME NEW m \in P PROVE m + 1 \in P
      <2>1. PICK f : Is(f, m)
            BY <1>2
      <2> DEFINE Look(k, last) ==
                     Looked(last, (m_outPos + n - k) % Size, n + 1 - k \in keep)
                 g == [k \in 0..m + 1 |-> IF k = m + 1 THEN Look(m + 1, f[m]) ELSE f[k]]
      <2>2. g = [k \in 0..m + 1 |-> IF k = 0 THEN Unlooked(n) ELSE Look(k, g[k - 1])]
            <3>1. f = [k \in 0..m |-> IF k = 0 THEN Unlooked(n) ELSE Look(k, f[k - 1])]
                  BY <2>1
            <3> HIDE DEF Look
            <3>2. ASSUME NEW k \in 0..m + 1
                  PROVE  g[k] = IF k = 0 THEN Unlooked(n) ELSE Look(k, g[k - 1])
                  <4>1. CASE k = m + 1
                        BY <4>1
                  <4>2. CASE k # m + 1
                        <5>1. k \in 0..m /\ (k # 0 => k - 1 \in 0..m)
                              BY <4>2
                        <5>2. f[k] = IF k = 0 THEN Unlooked(n) ELSE Look(k, f[k - 1])
                              BY <3>1, <5>1
                        <5> QED BY <4>2, <5>1, <5>2
                  <4> QED BY <4>1, <4>2
            <3> QED BY <3>2
      <2>3. m + 1 \in Nat
            OBVIOUS
      <2>4. Is(g, m + 1)
            BY <2>2
      <2> HIDE DEF Is, g
      <2> QED BY <2>3, <2>4
<1> HIDE DEF P
<1>3. P \in SUBSET Nat
      BY DEF P
<1>4. n \in P
      BY <1>1, <1>2, <1>3, NatSet
<1>5. \E f : Is(f, n)
      BY <1>4 DEF P
<1> DEFINE after == CHOOSE f : Is(f, n)
<1>6. Is(after, n)
      <2> HIDE DEF Is
      <2> QED BY <1>5, Zenon
<1>7. Requeued(n, keep) = after[n]
      BY Zenon DEF Requeued
<1> QED BY <1>6, <1>7

\* What the looks have done when those at i and behind have been looked at: the
\* kept ones of them are at the end of the n, the ones before are where they were.
LookedAt(last, n, keep, i) ==
    LET c == Cardinality(keep)
        end == n - c + Rank(keep, i - 1)
    IN  /\ last.out = Shift(m_outPos, end)
        /\ last.buffer \in [Slots -> Elements \cup {Nothing}]
        /\ \A j \in 1..Size : (j <= end \/ j > n) => last.buffer[Slot(j)] = m_buffer[Slot(j)]
        /\ \A x \in keep : x >= i =>
              last.buffer[Slot(n - c + Rank(keep, x))] = m_buffer[Slot(x)]
        /\ last.got \in Seq(Elements) /\ Len(last.got) = n - i + 1
        /\ \A j \in 1..(n - i + 1) : last.got[j] = m_buffer[Slot(i - 1 + j)]

LEMMA LookKeeps ==
    ASSUME m_outPos \in Slots, m_buffer \in [Slots -> Elements \cup {Nothing}],
           NEW n \in Nat, n < Size, NEW keep \in SUBSET (1..n),
           \A j \in 1..n : m_buffer[Slot(j)] \in Elements,
           NEW i \in 1..n, NEW last, LookedAt(last, n, keep, i + 1)
    PROVE  LookedAt(Looked(last, Slot(i), i \in keep), n, keep, i)
<1> DEFINE c == Cardinality(keep)
           R(j) == Rank(keep, j)
           end == n - c + R(i)
           to == (last.out + Size - 1) % Size
           next == Looked(last, Slot(i), i \in keep)
<1>1. /\ c \in Nat /\ c <= n /\ R(n) = c
      /\ R(i) \in Nat /\ R(i) <= i /\ c - R(i) \in Nat /\ c - R(i) <= n - i
      /\ R(i) = R(i - 1) + IF i \in keep THEN 1 ELSE 0
      /\ R(i - 1) \in Nat
      <2>1. i \in 0..n /\ i - 1 \in 0..n
            OBVIOUS
      <2>2. /\ R(n) = c /\ c \in Nat
            /\ \A j \in 0..n : R(j) \in 0..j /\ c - R(j) \in 0..n - j
            /\ \A j \in 1..n : R(j) = R(j - 1) + IF j \in keep THEN 1 ELSE 0
            BY RankSteps
      <2>3. c <= n
            BY Placed
      <2>4. R(i) \in 0..i /\ c - R(i) \in 0..n - i /\ R(i - 1) \in 0..i - 1
            BY <2>1, <2>2
      <2> HIDE DEF c, R
      <2> QED BY <2>2, <2>3, <2>4
<1>2. /\ last.out = Shift(m_outPos, end)
      /\ last.buffer \in [Slots -> Elements \cup {Nothing}]
      /\ \A j \in 1..Size : (j <= end \/ j > n) => last.buffer[Slot(j)] = m_buffer[Slot(j)]
      /\ \A x \in keep : x >= i + 1 => last.buffer[Slot(n - c + R(x))] = m_buffer[Slot(x)]
      /\ last.got \in Seq(Elements) /\ Len(last.got) = n - i
      /\ \A j \in 1..(n - i) : last.got[j] = m_buffer[Slot(i + j)]
      <2>1. (i + 1) - 1 = i /\ n - (i + 1) + 1 = n - i
            OBVIOUS
      <2> QED BY <2>1 DEF LookedAt
<1>3. /\ next.out = IF i \in keep THEN to ELSE last.out
      /\ next.buffer = IF i \in keep THEN [last.buffer EXCEPT ![to] = last.buffer[Slot(i)]]
                       ELSE last.buffer
      /\ next.got = <<last.buffer[Slot(i)]>> \o last.got
      BY DEF Looked
<1> HIDE DEF c, R, to, next
<1>4. /\ i \in 1..Size /\ i <= end /\ end \in Nat /\ end <= n
      /\ \A j \in 1..Size : Slot(j) \in Slots /\ Ahead(Slot(j)) = j - 1
      /\ \A j, k \in 1..Size : Slot(j) = Slot(k) => j = k
      <2>1. i \in 1..Size /\ i <= end /\ end \in Nat /\ end <= n
            BY <1>1, SizeType
      <2>2. \A j \in 1..Size : Slot(j) \in Slots /\ Ahead(Slot(j)) = j - 1
            BY PlacesOnTheRing
      <2>3. ASSUME NEW j \in 1..Size, NEW k \in 1..Size, Slot(j) = Slot(k) PROVE j = k
            <3>1. Ahead(Slot(j)) = j - 1 /\ Ahead(Slot(k)) = k - 1
                  BY <2>2
            <3>2. j - 1 = k - 1
                  BY <2>3, <3>1
            <3> QED BY <3>2, SizeType
      <2> QED BY <2>1, <2>2, <2>3
<1>5. last.buffer[Slot(i)] = m_buffer[Slot(i)] /\ last.buffer[Slot(i)] \in Elements
      BY <1>2, <1>4
<1>6. i \in keep => /\ end >= 1 /\ end \in 1..Size /\ R(i - 1) = R(i) - 1
                    /\ to = Shift(m_outPos, end - 1) /\ to = Slot(end) /\ to \in Slots
      <2> SUFFICES ASSUME i \in keep
                   PROVE  /\ end >= 1 /\ end \in 1..Size /\ R(i - 1) = R(i) - 1
                          /\ to = Shift(m_outPos, end - 1) /\ to = Slot(end) /\ to \in Slots
            OBVIOUS
      <2>1. end >= 1 /\ end \in 1..Size /\ R(i - 1) = R(i) - 1
            <3>1. R(i) = R(i - 1) + 1
                  BY <1>1
            <3>2. i >= 1 /\ i \in Nat /\ n \in Nat
                  OBVIOUS
            <3> DEFINE before == R(i - 1)
            <3> HIDE DEF before, end
            <3>3. end \in Nat /\ i <= end /\ end <= n /\ R(i) = before + 1 /\ before \in Nat
                  BY <1>1, <1>4, <3>1 DEF before
            <3>4. end >= 1 /\ end \in 1..Size /\ before = R(i) - 1
                  BY <3>2, <3>3, SizeType
            <3> QED BY <3>4 DEF before
      <2> HIDE DEF end
      <2>2. /\ last.out \in Nat /\ m_outPos \in Nat /\ m_outPos < Size
            /\ last.out = IF m_outPos + end < Size THEN m_outPos + end ELSE m_outPos + end - Size
            BY <1>2, <2>1, SizeType DEF Shift
      <2> DEFINE x == last.out + Size - 1
      <2>3. x \in Int /\ -Size <= x /\ x < 2 * Size /\ ~ (x < 0)
            BY <1>4, <2>1, <2>2, SizeType
      <2>4. to = IF x < Size THEN x ELSE x - Size
            <3>1. to = x % Size
                  BY DEF to
            <3> HIDE DEF x
            <3> QED BY <2>3, <3>1, Rounds
      <2>5. to = Shift(m_outPos, end - 1)
            BY <1>4, <2>1, <2>2, <2>4, SizeType DEF Shift
      <2>6. to = Slot(end)
            BY <2>5 DEF Slot
      <2>7. to \in Slots
            BY <1>4, <2>1, <2>6
      <2> QED BY <2>1, <2>5, <2>6, <2>7
<1> DEFINE start == n - c + R(i - 1)
<1>7. next.out = Shift(m_outPos, start)
      <2>1. CASE i \in keep
            <3>1. start = end - 1
                  BY <1>1, <1>6, <2>1
            <3> QED BY <1>3, <1>6, <2>1, <3>1
      <2>2. CASE i \notin keep
            <3>1. start = end
                  BY <1>1, <2>2
            <3> QED BY <1>2, <1>3, <2>2, <3>1
      <2> QED BY <2>1, <2>2
<1>8. next.buffer \in [Slots -> Elements \cup {Nothing}]
      BY <1>2, <1>3, <1>5, <1>6
<1>9. ASSUME NEW j \in 1..Size, j <= start \/ j > n
      PROVE  next.buffer[Slot(j)] = m_buffer[Slot(j)]
      <2>1. j <= end \/ j > n
            BY <1>1, <1>9
      <2>2. last.buffer[Slot(j)] = m_buffer[Slot(j)]
            BY <1>2, <2>1
      <2>3. CASE i \in keep
            <3>1. j # end
                  BY <1>1, <1>4, <1>6, <1>9, <2>3
            <3>2. Slot(j) # to /\ Slot(j) \in Slots
                  BY <1>4, <1>6, <2>3, <3>1
            <3> QED BY <1>2, <1>3, <2>2, <2>3, <3>2
      <2> QED BY <1>3, <2>2, <2>3
<1>10. ASSUME NEW x \in keep, x >= i
       PROVE  next.buffer[Slot(n - c + R(x))] = m_buffer[Slot(x)]
      <2>1. CASE x = i
            <3>1. next.buffer = [last.buffer EXCEPT ![to] = last.buffer[Slot(i)]] /\ to \in Slots
                  BY <1>3, <1>6, <2>1
            <3>2. next.buffer[to] = last.buffer[Slot(i)]
                  BY <1>2, <3>1
            <3> QED BY <1>5, <1>6, <2>1, <3>2
      <2>2. CASE x # i
            <3>1. x \in Nat /\ x >= i + 1 /\ x <= n /\ x > i
                  BY <1>10, <2>2
            <3>2. last.buffer[Slot(n - c + R(x))] = m_buffer[Slot(x)]
                  BY <1>2, <3>1
            <3>3. CASE i \in keep
                  <4>1. R(i) < R(x) /\ R(x) \in 1..c
                        BY <3>1, <3>3, RankGrows DEF R, c
                  <4>2. n - c + R(x) \in 1..Size /\ n - c + R(x) # end
                        BY <1>1, <4>1, SizeType
                  <4>3. Slot(n - c + R(x)) # to /\ Slot(n - c + R(x)) \in Slots
                        <5> DEFINE y == n - c + R(x)
                        <5> HIDE DEF y, end
                        <5>1. y \in 1..Size /\ y # end
                              BY <4>2 DEF y
                        <5>2. Slot(y) # to /\ Slot(y) \in Slots
                              BY <1>4, <1>6, <3>3, <5>1
                        <5> QED BY <5>2 DEF y
                  <4> QED BY <1>2, <1>3, <3>2, <3>3, <4>3
            <3> QED BY <1>3, <3>2, <3>3
      <2> QED BY <2>1, <2>2
<1>11. /\ next.got \in Seq(Elements) /\ Len(next.got) = n - i + 1
       /\ \A j \in 1..(n - i + 1) : next.got[j] = m_buffer[Slot(i - 1 + j)]
      <2> DEFINE front == <<last.buffer[Slot(i)]>>
      <2>1. front \in Seq(Elements) /\ Len(front) = 1 /\ front[1] = m_buffer[Slot(i)]
            BY <1>5
      <2> HIDE DEF front
      <2>2. last.got \in Seq(Elements) /\ Len(last.got) = n - i
            BY <1>2
      <2>3. next.got = front \o last.got
            BY <1>3 DEF front
      <2> DEFINE rest == last.got
                 both == front \o rest
      <2> HIDE DEF rest
      <2>4. front \in Seq(Elements) /\ rest \in Seq(Elements)
            BY <2>1, <2>2 DEF rest
      <2>5. /\ both \in Seq(Elements) /\ Len(both) = Len(front) + Len(rest)
            /\ \A j \in 1..Len(front) : both[j] = front[j]
            /\ \A k \in 1..Len(rest) : both[Len(front) + k] = rest[k]
            BY <2>4, Joined
      <2>6. /\ next.got \in Seq(Elements) /\ Len(next.got) = Len(front) + Len(last.got)
            /\ \A j \in 1..Len(front) : next.got[j] = front[j]
            /\ \A k \in 1..Len(last.got) : next.got[Len(front) + k] = last.got[k]
            BY <2>3, <2>5, Zenon DEF rest
      <2>7. Len(next.got) = n - i + 1
            BY <2>1, <2>2, <2>6
      <2>8. ASSUME NEW j \in 1..(n - i + 1) PROVE next.got[j] = m_buffer[Slot(i - 1 + j)]
            <3>1. CASE j = 1
                  <4>1. i - 1 + 1 = i /\ 1 \in 1..Len(front)
                        BY <2>1
                  <4> QED BY <2>1, <2>6, <3>1, <4>1
            <3>2. CASE j # 1
                  <4>1. j - 1 \in 1..(n - i) /\ 1 + (j - 1) = j /\ i - 1 + j = i + (j - 1)
                        BY <3>2
                  <4>2. next.got[1 + (j - 1)] = last.got[j - 1]
                        BY <2>1, <2>2, <2>6, <4>1
                  <4>3. last.got[j - 1] = m_buffer[Slot(i + (j - 1))]
                        BY <1>2, <4>1
                  <4> QED BY <4>1, <4>2, <4>3
            <3> QED BY <3>1, <3>2
      <2> QED BY <2>6, <2>7, <2>8
<1> QED BY <1>7, <1>8, <1>9, <1>10, <1>11 DEF LookedAt, c, R, next

LEMMA AllLookedAt ==
    ASSUME m_outPos \in Slots, m_buffer \in [Slots -> Elements \cup {Nothing}],
           NEW n \in Nat, n < Size, NEW keep \in SUBSET (1..n),
           \A j \in 1..n : m_buffer[Slot(j)] \in Elements
    PROVE  LookedAt(Requeued(n, keep), n, keep, 1)
<1>1. PICK after :
        /\ after = [k \in 0..n |->
               IF k = 0 THEN Unlooked(n)
               ELSE Looked(after[k - 1], (m_outPos + n - k) % Size, n + 1 - k \in keep)]
        /\ Requeued(n, keep) = after[n]
      BY RequeuedIsRecursive
<1> DEFINE P == {k \in Nat : k <= n => LookedAt(after[k], n, keep, n + 1 - k)}
<1>2. 0 \in P
      <2> DEFINE c == Cardinality(keep)
                 end == n - c + Rank(keep, (n + 1) - 1)
                 last == Unlooked(n)
      <2>1. after[0] = last
            BY <1>1
      <2>2. c \in Nat /\ Rank(keep, n) = c
            BY RankSteps
      <2>3. (n + 1) - 1 = n /\ end = n /\ n - (n + 1) + 1 = 0 /\ n + 1 - 0 = n + 1
            <3>1. (n + 1) - 1 = n /\ n - (n + 1) + 1 = 0 /\ n + 1 - 0 = n + 1
                  OBVIOUS
            <3> HIDE DEF c
            <3>2. end = n - c + c
                  BY <2>2, <3>1
            <3> QED BY <2>2, <3>1, <3>2
      <2>4. last.out = Shift(m_outPos, n) /\ last.buffer = m_buffer /\ last.got = <<>>
            BY Steps DEF Unlooked
      <2>5. ASSUME NEW x \in keep, x >= n + 1 PROVE FALSE
            BY <2>5
      <2> HIDE DEF last, c
      <2>6. LookedAt(last, n, keep, n + 1)
            <3>1. last.out = Shift(m_outPos, end)
                  BY <2>3, <2>4
            <3>2. last.got \in Seq(Elements) /\ Len(last.got) = n - (n + 1) + 1
                  BY <2>3, <2>4
            <3>3. \A j \in 1..(n - (n + 1) + 1) : FALSE
                  BY <2>3
            <3> QED BY <2>4, <2>5, <3>1, <3>2, <3>3 DEF LookedAt, c
      <2> QED BY <2>1, <2>3, <2>6
<1>3. ASSUME NEW k \in P PROVE k + 1 \in P
      <2> SUFFICES ASSUME k + 1 <= n PROVE LookedAt(after[k + 1], n, keep, n + 1 - (k + 1))
            OBVIOUS
      <2> DEFINE i == n - k
      <2>1. /\ i \in 1..n /\ n + 1 - (k + 1) = i /\ n + 1 - k = i + 1 /\ k <= n
            /\ k + 1 \in 0..n /\ k + 1 # 0 /\ (k + 1) - 1 = k
            OBVIOUS
      <2>2. after[k + 1] = Looked(after[k], (m_outPos + n - (k + 1)) % Size, i \in keep)
            <3>1. after[k + 1] = Looked(after[(k + 1) - 1], (m_outPos + n - (k + 1)) % Size,
                                        n + 1 - (k + 1) \in keep)
                  BY <1>1, <2>1, Zenon
            <3> HIDE DEF i
            <3> QED BY <2>1, <3>1
      <2>3. (m_outPos + n - (k + 1)) % Size = Slot(i)
            <3>1. i - 1 \in Nat /\ i - 1 < Size /\ m_outPos \in Nat
                  BY <2>1, SizeType
            <3>2. m_outPos + n - (k + 1) = m_outPos + (i - 1)
                  BY <3>1
            <3>3. (m_outPos + (i - 1)) % Size = Shift(m_outPos, i - 1)
                  <4> HIDE DEF i
                  <4> QED BY <3>1, Steps
            <3> HIDE DEF i
            <3> QED BY <3>2, <3>3 DEF Slot
      <2>4. LookedAt(after[k], n, keep, i + 1)
            <3>1. LookedAt(after[k], n, keep, n + 1 - k)
                  BY <2>1
            <3> HIDE DEF i
            <3> QED BY <2>1, <3>1
      <2> HIDE DEF i
      <2>5. LookedAt(Looked(after[k], Slot(i), i \in keep), n, keep, i)
            BY <2>1, <2>4, LookKeeps
      <2> QED BY <2>1, <2>2, <2>3, <2>5
<1> HIDE DEF P
<1>4. P \in SUBSET Nat
      BY DEF P
<1>5. n \in P
      BY <1>2, <1>3, <1>4, NatSet
<1>6. n <= n /\ n + 1 - n = 1
      OBVIOUS
<1> QED BY <1>1, <1>5, <1>6 DEF P

LEMMA ConsumerRequeuesKeeps ==
    ASSUME QueueInv, ConsumerRequeues
    PROVE  QueueInv'
<1> DEFINE n == consumer.n
<1>1. /\ consumer.pc = "read" /\ consumer.name = "for_each_rev_requeue"
      /\ UNCHANGED <<shared, m_inPos, m_outPos, m_inPos_mp, m_concurrent_mp, producer, held,
                     fits>>
      BY DEF ConsumerRequeues
<1>2. consumer # Resting
      BY <1>1 DEF Resting
<1>3. PICK keep \in SUBSET (1..n) :
        /\ m_buffer' = Requeued(n, keep).buffer
        /\ consumer' = [consumer EXCEPT !.pc = "store", !.keep = keep,
                                        !.got = Requeued(n, keep).got]
      BY DEF ConsumerRequeues
<1> DEFINE last == Requeued(n, keep)
           c == Cardinality(keep)
<1>4. /\ m_outPos \in Slots /\ m_inPos \in Slots /\ held \in Seq(Elements)
      /\ Len(held) \in Nat /\ Len(held) < Size
      /\ consumer \in Views /\ n \in Nat /\ n > 0 /\ n <= Len(held) /\ n <= Ahead(m_inPos)
      /\ \A i \in 1..n : m_buffer[Slot(i)] = held[i]
      BY <1>1, <1>2, InHand
<1>5. m_buffer \in [Slots -> Elements \cup {Nothing}]
      BY DEF QueueInv, QueueTypes
<1>6. LookedAt(last, n, keep, 1)
      <2>1. n < Size
            <3> HIDE DEF n
            <3> QED BY <1>4, SizeType
      <2>2. \A j \in 1..n : j \in 1..Len(held)
            BY <1>4, Ordered, Zenon
      <2>3. \A j \in 1..n : m_buffer[Slot(j)] \in Elements
            BY <1>4, <2>2
      <2> HIDE DEF n
      <2> QED BY <1>4, <1>5, <2>1, <2>3, AllLookedAt DEF last
<1>7. /\ c \in Nat /\ c <= n /\ keep \in SUBSET Nat
      /\ \A k \in 1..c : Place(keep, k) \in keep /\ Rank(keep, Place(keep, k)) = k
      BY <1>4, Placed
<1>8. /\ last.buffer \in [Slots -> Elements \cup {Nothing}]
      /\ \A j \in 1..Size : j > n => last.buffer[Slot(j)] = m_buffer[Slot(j)]
      /\ \A x \in keep : last.buffer[Slot(n - c + Rank(keep, x))] = m_buffer[Slot(x)]
      /\ last.got \in Seq(Elements) /\ Len(last.got) = n
      /\ \A j \in 1..n : last.got[j] = m_buffer[Slot(j)]
      <2>1. n - 1 + 1 = n /\ \A j \in 1..n : 1 - 1 + j = j
            BY <1>4
      <2>2. \A x \in keep : x >= 1
            OBVIOUS
      <2> HIDE DEF n, last
      <2> QED BY <1>6, <2>1, <2>2 DEF LookedAt
<1> HIDE DEF n, last, c
<1>9. /\ consumer' \in Views /\ consumer'.pc = "store"
      /\ consumer'.name = "for_each_rev_requeue"
      /\ consumer'.n = n /\ consumer'.got = last.got /\ consumer'.keep = keep
      <2>1. consumer \in [pc : {"read", "store"}, name : Names, n : Nat,
                          got : Seq(Elements), keep : SUBSET Nat]
            BY <1>2, <1>4 DEF Views
      <2>2. consumer' = [consumer EXCEPT !.pc = "store", !.keep = keep, !.got = last.got]
            BY <1>3 DEF last
      <2>3. consumer' \in [pc : {"read", "store"}, name : Names, n : Nat,
                           got : Seq(Elements), keep : SUBSET Nat]
            BY <1>7, <1>8, <2>1, <2>2
      <2>4. /\ consumer'.pc = "store" /\ consumer'.name = consumer.name
            /\ consumer'.n = consumer.n /\ consumer'.got = last.got /\ consumer'.keep = keep
            BY <2>1, <2>2
      <2> QED BY <1>1, <2>3, <2>4 DEF Views, n
<1>10. Taken' = n /\ Seen' = n
      BY <1>9 DEF Taken, Seen
<1>11. \A i : Slot(i)' = Slot(i)
      BY <1>1, SameRing
<1>12. m_buffer' = last.buffer
      BY <1>3 DEF last
<1>13. Contents'
      <2> SUFFICES ASSUME NEW i \in 1..Len(held), i > n
                   PROVE  Pending(Slot(i))' \/ m_buffer'[Slot(i)] = held[i]
            BY <1>1, <1>10, <1>11 DEF Contents
      <2>1. i \in 1..Size /\ i > 0
            BY <1>4, SizeType
      <2>2. Pending(Slot(i)) \/ m_buffer[Slot(i)] = held[i]
            <3>1. Seen = 0
                  BY <1>1 DEF Seen
            <3> QED BY <2>1, <3>1 DEF QueueInv, Contents
      <2>3. Pending(Slot(i)) => Pending(Slot(i))'
            BY <1>1, <1>11 DEF Pending
      <2> QED BY <1>8, <1>12, <2>1, <2>2, <2>3
<1>14. Consumed'
      <2>1. n \in 1..Ahead(m_inPos)'
            <3>1. n \in 1..Ahead(m_inPos)
                  BY <1>2 DEF QueueInv, Consumed, n
            <3> QED BY <1>1, <3>1 DEF Ahead
      <2>2. last.got = SubSeq(held, 1, n)
            <3>1. SubSeq(held, 1, n) = [i \in 1..n |-> held[i]]
                  BY <1>4, FrontIs
            <3>2. last.got = [i \in 1..n |-> last.got[i]]
                  BY <1>8
            <3>3. \A i \in 1..n : last.got[i] = held[i]
                  BY <1>4, <1>8
            <3> QED BY <3>1, <3>2, <3>3
      <2>3. \A k \in 1..c : last.buffer[Slot(n - c + k)] = held[Place(keep, k)]
            <3> SUFFICES ASSUME NEW k \in 1..c
                         PROVE  last.buffer[Slot(n - c + k)] = held[Place(keep, k)]
                  OBVIOUS
            <3>1. Place(keep, k) \in keep /\ Rank(keep, Place(keep, k)) = k
                  BY <1>7
            <3>2. last.buffer[Slot(n - c + k)] = m_buffer[Slot(Place(keep, k))]
                  BY <1>8, <3>1
            <3>3. Place(keep, k) \in 1..n
                  BY <3>1
            <3> QED BY <1>4, <3>2, <3>3
      <2>4. \A k \in 1..c : m_buffer'[Shift(m_outPos', (n - c + k) - 1)] = held'[Place(keep, k)]
            <3>1. m_outPos' = m_outPos /\ held' = held
                  BY <1>1
            <3> SUFFICES ASSUME NEW k \in 1..c
                         PROVE  m_buffer'[Shift(m_outPos', (n - c + k) - 1)] = held'[Place(keep, k)]
                  OBVIOUS
            <3>2. last.buffer[Slot(n - c + k)] = held[Place(keep, k)]
                  BY <2>3
            <3> QED BY <1>12, <3>1, <3>2 DEF Slot
      <2>5. consumer'.got = SubSeq(held', 1, Taken')
            BY <1>1, <1>9, <1>10, <2>2
      <2>6. consumer'.n \in 1..Ahead(m_inPos)' /\ consumer'.keep \in SUBSET (1..consumer'.n)
            BY <1>9, <2>1
      <2>7. \A k \in 1..Cardinality(consumer'.keep) :
              m_buffer'[Shift(m_outPos', (consumer'.n - Cardinality(consumer'.keep) + k) - 1)]
                = held'[Place(consumer'.keep, k)]
            BY <1>9, <2>4, Zenon DEF c
      <2>8. (\A k \in 1..Cardinality(consumer.keep) :
                m_buffer[Slot(consumer.n - Cardinality(consumer.keep) + k)]
                    = held[Place(consumer.keep, k)])'
            BY <2>7, Zenon DEF Slot
      <2> QED BY <1>9, <2>5, <2>6, <2>8, Zenon DEF Consumed
<1>15. \A i \in 1..Size : i > Len(held) => m_buffer'[Slot(i)] = m_buffer[Slot(i)]
      <2> SUFFICES ASSUME NEW i \in 1..Size, i > Len(held)
                   PROVE  m_buffer'[Slot(i)] = m_buffer[Slot(i)]
            OBVIOUS
      <2>1. i > n
            BY <1>4, SizeType
      <2> QED BY <1>8, <1>12, <2>1
<1> QED BY <1>1, <1>8, <1>9, <1>12, <1>13, <1>14, <1>15, ViewStep

LEMMA QueueStepKeeps == ASSUME QueueInv, [QueueNext]_queueVars PROVE QueueInv'
<1>1. CASE \E p \in Producers : SharedPush(p)
      BY <1>1, SharedPushKeeps
<1>2. CASE /\ ~shared
           /\ \/ PushCheck(Owner) \/ PushWrite(Owner) \/ PushPeek(Owner)
              \/ PushPeeked(Owner) \/ PushStore(Owner)
      BY <1>2, PushCheckKeeps, PushWriteKeeps, PushPeekKeeps, PushPeekedKeeps, PushStoreKeeps
<1>3. CASE ConsumerLooks \/ ConsumerReads \/ ConsumerRequeues \/ ConsumerStores
      BY <1>3, ConsumerLooksKeeps, ConsumerReadsKeeps, ConsumerRequeuesKeeps, ConsumerStoresKeeps
<1>4. CASE UNCHANGED queueVars
      <2> USE <1>4 DEF queueVars
      <2>1. QueueTypes' /\ Single'
            BY DEF QueueInv, QueueTypes, Single, Ahead, Slot
      <2>2. Shared'
            BY DEF QueueInv, Shared, Ahead, Inside
      <2>3. Seen' = Seen /\ Taken' = Taken /\ (\A i : Slot(i)' = Slot(i))
            BY SameView, SameRing
      <2>4. Contents'
            BY <2>3 DEF QueueInv, Contents, Pending
      <2>5. Consumed'
            BY <2>3 DEF QueueInv, Consumed, Ahead
      <2> QED BY <2>1, <2>2, <2>4, <2>5 DEF QueueInv
<1> QED BY <1>1, <1>2, <1>3, <1>4 DEF QueueNext

(* However many producers push and in whatever order their steps and the   *)
(* consumer's come: what is popped, walked over or requeued is the oldest   *)
(* that was accepted, and no more is accepted than fits.                    *)
THEOREM QueuesAreFifo == QueueSpec => []QueueIsFifo
<1>1. QueueInit => QueueInv
      BY QueueStarts
<1>2. QueueInv /\ [QueueNext]_queueVars => QueueInv'
      BY QueueStepKeeps
<1>3. QueueInv => QueueIsFifo
      BY InvIsFifo
<1> QED BY <1>1, <1>2, <1>3, PTL DEF QueueSpec
================================================================================
