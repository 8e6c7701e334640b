------------------------------ MODULE MCLibraries ------------------------------
(***************************************************************************)
(* The parts of the libraries that hold the most logic, each checked by    *)
(* itself: the part is chosen in the first state, and the variables of the *)
(* others stand still.                                                     *)
(***************************************************************************)
EXTENDS CircularQueue, SoftSerial, ClockChips, BusRegister

VARIABLE part

vars == <<part, queueVars, serialVars, chipVars, busVars>>

(* A byte without edges, and one with an edge at every bit.                 *)
MCWords == {<<1, 1, 1>>, <<0, 1, 0>>}

(* A leap day at the end of the day, a Sunday, a day that repeats the time. *)
MCDates == {DateOf(2024, 2, 29, 23, 59, 58), DateOf(2023, 11, 5, 10, 9, 58),
            DateOf(2024, 3, 5, 23, 59, 0)}
MCSquareWaves == [ds1307 |-> {0, 128, 16, 19}, ds3231 |-> {28, 24},
                  pcf8523 |-> {7, 6}, pcf8563 |-> {0, 131}]
MCCountdowns == {<<2, 255, 0>>, <<4, 1, 7>>}
MCOffsets == {<<128, -64>>, <<0, 63>>}

(* An address of one byte, and one of two that may be an opcode; a value    *)
(* with a bit in each byte, and a slice that ends where a byte does.        *)
MCAddresses == {{0, 1, 3}, {0, 1, 3, 9, 14}}
MCValues == {{0, 3, 9, 15, 20, 31}}
MCSlices == {<<3, 5>>}
MCFillings == {{0, 2, 5}}
MCFirstBus == [interface |-> "i2c", mode |-> 0, msbFirst |-> TRUE, type |-> 0,
               address |-> {0, 1, 3}, addresswidth |-> 1, width |-> 1, lsbFirst |-> TRUE]

MCInit ==
    /\ part \in {"queue", "serial", "chip", "bus"}
    /\ QueueInit /\ (part # "queue" => ~shared)
    /\ SerialInit /\ (part # "serial" => parity = "even")
    /\ ChipInit /\ (part # "chip" => device = "ds1307")
    /\ BusInit /\ (part # "bus" => bus = MCFirstBus)

MCNext ==
    /\ UNCHANGED part
    /\ \/ part = "queue" /\ QueueNext /\ UNCHANGED <<serialVars, chipVars, busVars>>
       \/ part = "serial" /\ SerialNext /\ UNCHANGED <<queueVars, chipVars, busVars>>
       \/ part = "chip" /\ ChipNext /\ UNCHANGED <<queueVars, serialVars, busVars>>
       \/ part = "bus" /\ BusNext /\ UNCHANGED <<queueVars, serialVars, chipVars>>

MCSpec == MCInit /\ [][MCNext]_vars

(* The queue never looks at its elements. *)
Symmetry == Permutations(Elements)
================================================================================
