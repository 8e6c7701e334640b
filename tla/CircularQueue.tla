----------------------------- MODULE CircularQueue -----------------------------
(***************************************************************************)
(* The ring buffers of EspSoftwareSerial: circular_queue, which one        *)
(* producer and one consumer share without a lock, and circular_queue_mp,  *)
(* in which several producers claim slots and the last of them to leave    *)
(* publishes what all have written.  A step touches at most one variable   *)
(* that the other side writes; what only one's own side writes is read     *)
(* along with it.                                                          *)
(***************************************************************************)
EXTENDS Integers, Sequences, FiniteSets, Positions

CONSTANTS Size,      \* m_bufSize: one more than the queue holds
          Producers, \* of circular_queue_mp; circular_queue has the first of them
          Elements,  \* what is pushed
          MaxBlock   \* bound: what push_n and pop_n are asked for

ASSUME CircularQueueAssumption ==
    /\ Size \in Nat \ {0, 1} /\ MaxBlock \in Nat \ {0}
    /\ Producers # {} /\ IsFiniteSet(Producers)

VARIABLES shared,             \* whether it is a circular_queue_mp
          m_buffer, m_inPos, m_outPos,
          m_inPos_mp, m_concurrent_mp,
          producer, consumer, \* where each is, and its local variables
          \* what is accepted and not yet removed; whether all that was handed
          \* out was the oldest of it: history
          held, fits

queueVars == <<shared, m_buffer, m_inPos, m_outPos, m_inPos_mp, m_concurrent_mp,
               producer, consumer, held, fits>>

Slots == 0..(Size - 1)
Nothing == "nothing"  \* what a slot holds that nobody has written
Smaller(a, b) == IF a < b THEN a ELSE b
Resting == [pc |-> "idle"]

(* int avail = in - out; if (avail < 0) avail += m_bufSize                  *)
available == (m_inPos - m_outPos) % Size
available_for_push == (m_outPos - m_inPos - 1) % Size
At(i) == m_buffer[(m_outPos + i) % Size]
peek == At(0)
Published == [i \in 1..available |-> At(i - 1)]

QueueInit ==
    /\ shared \in BOOLEAN
    /\ m_buffer = [s \in Slots |-> Nothing]
    /\ m_inPos = 0 /\ m_outPos = 0 /\ m_inPos_mp = 0 /\ m_concurrent_mp = 0
    /\ producer = [p \in Producers |-> Resting] /\ consumer = Resting
    /\ held = <<>> /\ fits = TRUE

--------------------------------------------------------------------------------
(* One producer. *)

Owner == CHOOSE p \in Producers : TRUE

(* push(T&&) takes one element if the next slot is not the one to be popped. *)
PushRoomUnchecked(in, out) == 1
PushRoom(in, out) == IF (in + 1) % Size = out THEN 0 ELSE 1

(* push_n fills a block up to the end of the buffer, or up to the oldest    *)
(* element, and goes on at its beginning.                                   *)
PushNRoom(in, out, size) ==
    LET block == Smaller(size, IF out > in THEN out - 1 - in
                               ELSE IF out = 0 THEN Size - 1 - in ELSE Size - in)
        next == (in + block) % Size
        \* out - next - 1 is unsigned: more than any size if it is less than 0
        rest == IF out > 1 /\ next < out THEN Smaller(size - block, out - next - 1)
                ELSE IF out > 1 THEN size - block ELSE 0
    IN IF block = 0 THEN 0 ELSE block + rest

Blocks == UNION {[1..n -> Elements] : n \in 1..MaxBlock}

Accept(p, elements) ==
    producer' = [producer EXCEPT ![p] =
        IF elements = <<>> THEN Resting ELSE [pc |-> "write", elements |-> elements]]

PushCheck(p) ==
    /\ producer[p] = Resting
    /\ \/ \E e \in Elements : Accept(p, SubSeq(<<e>>, 1, PushRoom(m_inPos, m_outPos)))
       \/ \E block \in Blocks :
            Accept(p, SubSeq(block, 1, PushNRoom(m_inPos, m_outPos, Len(block))))
    /\ UNCHANGED <<shared, m_buffer, m_inPos, m_outPos, m_inPos_mp, m_concurrent_mp,
                   consumer, held, fits>>

PushWrite(p) ==
    /\ producer[p].pc = "write"
    /\ LET elements == producer[p].elements
       IN m_buffer' = [s \in Slots |->
            LET i == 1 + ((s - m_inPos) % Size)
            IN IF i <= Len(elements) THEN elements[i] ELSE m_buffer[s]]
    /\ producer' = [producer EXCEPT ![p].pc = "store"]
    /\ UNCHANGED <<shared, m_inPos, m_outPos, m_inPos_mp, m_concurrent_mp, consumer,
                   held, fits>>

(* pushpeek() writes into the slot before push() looks whether there is one. *)
PushPeek(p) ==
    /\ producer[p] = Resting
    /\ \E e \in Elements :
        /\ m_buffer' = [m_buffer EXCEPT ![m_inPos] = e]
        /\ producer' = [producer EXCEPT ![p] = [pc |-> "peeked", elements |-> <<e>>]]
    /\ UNCHANGED <<shared, m_inPos, m_outPos, m_inPos_mp, m_concurrent_mp, consumer,
                   held, fits>>
PushPeeked(p) ==
    /\ producer[p].pc = "peeked"
    /\ producer' = [producer EXCEPT ![p] =
            IF PushRoom(m_inPos, m_outPos) = 0 THEN Resting ELSE [@ EXCEPT !.pc = "store"]]
    /\ UNCHANGED <<shared, m_buffer, m_inPos, m_outPos, m_inPos_mp, m_concurrent_mp,
                   consumer, held, fits>>

PushStore(p) ==
    /\ producer[p].pc = "store"
    /\ m_inPos' = (m_inPos + Len(producer[p].elements)) % Size
    /\ held' = held \o producer[p].elements
    /\ producer' = [producer EXCEPT ![p] = Resting]
    /\ UNCHANGED <<shared, m_buffer, m_outPos, m_inPos_mp, m_concurrent_mp, consumer,
                   fits>>

--------------------------------------------------------------------------------
(* Several producers: circular_queue_mp::push on an ESP32.                  *)

Goes(p, local) == producer' = [producer EXCEPT ![p] = local]

Enter(p) ==
    /\ producer[p] = Resting
    /\ m_concurrent_mp' = m_concurrent_mp + 1
    /\ \E e \in Elements : Goes(p, [pc |-> "claim", e |-> e])
    /\ UNCHANGED <<m_buffer, m_inPos, m_inPos_mp, held>>
LoadIn(p) ==
    /\ producer[p].pc = "claim"
    /\ Goes(p, [pc |-> "check", e |-> producer[p].e, in |-> m_inPos_mp])
    /\ UNCHANGED <<m_buffer, m_inPos, m_inPos_mp, m_concurrent_mp, held>>
CheckOut(p) ==
    /\ producer[p].pc = "check"
    /\ Goes(p, IF PushRoom(producer[p].in, m_outPos) = 0
               THEN [pc |-> "leave"] ELSE [producer[p] EXCEPT !.pc = "claim slot"])
    /\ UNCHANGED <<m_buffer, m_inPos, m_inPos_mp, m_concurrent_mp, held>>
(* compare_exchange_weak, which may also fail for no reason.                *)
ClaimSlot(p) ==
    /\ producer[p].pc = "claim slot"
    /\ \/ /\ m_inPos_mp = producer[p].in
          /\ m_inPos_mp' = (m_inPos_mp + 1) % Size
          /\ held' = Append(held, producer[p].e)
          /\ Goes(p, [pc |-> "write", e |-> producer[p].e, in |-> producer[p].in])
       \/ /\ Goes(p, [pc |-> "claim", e |-> producer[p].e])
          /\ UNCHANGED <<m_inPos_mp, held>>
    /\ UNCHANGED <<m_buffer, m_inPos, m_concurrent_mp>>
WriteSlot(p) ==
    /\ producer[p].pc = "write"
    /\ m_buffer' = [m_buffer EXCEPT ![producer[p].in] = producer[p].e]
    /\ Goes(p, [pc |-> "leave"])
    /\ UNCHANGED <<m_inPos, m_inPos_mp, m_concurrent_mp, held>>

LeaveLoadIn(p) ==
    /\ producer[p].pc = "leave"
    /\ Goes(p, [pc |-> "count", in |-> m_inPos_mp])
    /\ UNCHANGED <<m_buffer, m_inPos, m_inPos_mp, m_concurrent_mp, held>>
(* Slip: whoever leaves publishes.                                          *)
LastOneAny(concurrent) == concurrent > 0
LastOne(concurrent) == concurrent = 1
LeaveLoadCount(p) ==
    /\ producer[p].pc = "count"
    /\ Goes(p, [pc |-> IF LastOne(m_concurrent_mp) THEN "publish" ELSE "decrement",
                in |-> producer[p].in, concurrent |-> m_concurrent_mp])
    /\ UNCHANGED <<m_buffer, m_inPos, m_inPos_mp, m_concurrent_mp, held>>
Publish(p) ==
    /\ producer[p].pc = "publish"
    /\ m_inPos' = producer[p].in
    /\ Goes(p, [producer[p] EXCEPT !.pc = "decrement"])
    /\ UNCHANGED <<m_buffer, m_inPos_mp, m_concurrent_mp, held>>
Decrement(p) ==
    /\ producer[p].pc = "decrement"
    /\ \/ /\ m_concurrent_mp = producer[p].concurrent
          /\ m_concurrent_mp' = m_concurrent_mp - 1 /\ Goes(p, Resting)
       \/ Goes(p, [pc |-> "leave"]) /\ UNCHANGED m_concurrent_mp
    /\ UNCHANGED <<m_buffer, m_inPos, m_inPos_mp, held>>

SharedPush(p) ==
    /\ shared
    /\ \/ Enter(p) \/ LoadIn(p) \/ CheckOut(p) \/ ClaimSlot(p) \/ WriteSlot(p)
       \/ LeaveLoadIn(p) \/ LeaveLoadCount(p) \/ Publish(p) \/ Decrement(p)
    /\ UNCHANGED <<shared, m_outPos, consumer, fits>>

--------------------------------------------------------------------------------
(* The consumer, of either queue. *)

(* How many elements an operation sees: one for pop, as many as it is asked *)
(* for and there are for pop_n, all for the others.                         *)
Sees(op) ==
    CASE op.name = "pop" -> Smaller(1, available)
      [] op.name = "pop_n" -> Smaller(op.size, available)
      [] OTHER -> available

Operations ==
    [name : {"pop", "for_each", "for_each_rev_requeue", "flush"}]
        \cup [name : {"pop_n"}, size : 1..MaxBlock]

ConsumerLooks ==
    /\ consumer = Resting
    /\ \E op \in Operations :
        /\ Sees(op) > 0
        /\ consumer' = [pc |-> IF op.name = "flush" THEN "store" ELSE "read",
                        name |-> op.name, n |-> Sees(op),
                        got |-> <<>>, keep |-> {}]
    /\ UNCHANGED <<shared, m_buffer, m_inPos, m_outPos, m_inPos_mp, m_concurrent_mp,
                   producer, held, fits>>

(* pop and pop_n read and take all they saw; for_each one at a time.        *)
Taken == IF consumer.name = "for_each" THEN 1 ELSE consumer.n

ConsumerReads ==
    /\ consumer.pc = "read" /\ consumer.name # "for_each_rev_requeue"
    /\ consumer' = [consumer EXCEPT !.pc = "store",
            !.got = [i \in 1..Taken |-> At(i - 1)]]
    /\ UNCHANGED <<shared, m_buffer, m_inPos, m_outPos, m_inPos_mp, m_concurrent_mp,
                   producer, held, fits>>

(* From the newest to the oldest: the callback sees each element and says   *)
(* whether it stays, and those that do are moved up to the end.             *)
Unlooked(n) == [out |-> (m_outPos + n) % Size, buffer |-> m_buffer, got |-> <<>>]
Looked(last, pos, stays) ==
    LET to == (last.out + Size - 1) % Size
    IN [out |-> IF stays THEN to ELSE last.out,
        buffer |-> IF stays THEN [last.buffer EXCEPT ![to] = last.buffer[pos]]
                   ELSE last.buffer,
        got |-> <<last.buffer[pos]>> \o last.got]
Requeued(n, keep) ==
    LET after[k \in 0..n] ==  \* when k elements have been looked at
          IF k = 0 THEN Unlooked(n)
          ELSE Looked(after[k - 1], (m_outPos + n - k) % Size, n + 1 - k \in keep)
    IN after[n]

ConsumerRequeues ==
    /\ consumer.pc = "read" /\ consumer.name = "for_each_rev_requeue"
    /\ \E keep \in SUBSET (1..consumer.n) :
        /\ m_buffer' = Requeued(consumer.n, keep).buffer
        /\ consumer' = [consumer EXCEPT !.pc = "store", !.keep = keep,
                                        !.got = Requeued(consumer.n, keep).got]
    /\ UNCHANGED <<shared, m_inPos, m_outPos, m_inPos_mp, m_concurrent_mp, producer,
                   held, fits>>

ConsumerStores ==
    /\ consumer.pc = "store"
    /\ m_outPos' = (m_outPos + Taken - Cardinality(consumer.keep)) % Size
    /\ held' = Those(held, consumer.keep) \o SubSeq(held, Taken + 1, Len(held))
    /\ fits' = (consumer.name = "flush" \/ consumer.got = SubSeq(held, 1, Taken))
    /\ consumer' = IF Taken = consumer.n THEN Resting
                   ELSE [consumer EXCEPT !.pc = "read", !.n = @ - Taken]
    /\ UNCHANGED <<shared, m_buffer, m_inPos, m_inPos_mp, m_concurrent_mp, producer>>

QueueNext ==
    \/ \E p \in Producers : SharedPush(p)
    \/ /\ ~shared
       /\ \/ PushCheck(Owner) \/ PushWrite(Owner) \/ PushPeek(Owner)
          \/ PushPeeked(Owner) \/ PushStore(Owner)
    \/ ConsumerLooks \/ ConsumerReads \/ ConsumerRequeues \/ ConsumerStores

QueueSpec == QueueInit /\ [][QueueNext]_queueVars

--------------------------------------------------------------------------------
(* However many producers push while the consumer pops, takes or requeues:  *)
(* what is handed out is the oldest that was accepted and is left, no slot  *)
(* is read before it is written or written before it is read, nothing is    *)
(* accepted beyond the capacity, and with one producer what is accepted can *)
(* be popped at once.  (With several, it waits for a producer that leaves   *)
(* while no other is there, which may be the one of the next push.)         *)
QueueIsFifo ==
    /\ fits
    /\ Len(held) < Size
    /\ consumer.pc # "store" =>
        /\ available <= Len(held) /\ Published = SubSeq(held, 1, available)
        /\ ~shared => Published = held /\ available + available_for_push = Size - 1
        /\ available > 0 => peek = Head(held)
================================================================================
