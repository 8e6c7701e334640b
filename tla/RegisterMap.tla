------------------------------ MODULE RegisterMap ------------------------------
(***************************************************************************)
(* What the registers of the Modbus library promise their application: a   *)
(* partial map from addresses to values, and for each address two lists of *)
(* handlers, one that a written value passes through and one that a value  *)
(* passes through on its way out.                                          *)
(***************************************************************************)
EXTENDS Naturals, Sequences, FiniteSets

CONSTANTS Address,   \* the addresses, of any kind
          Value,     \* what a register may hold
          Handler,   \* functions from values to values
          Room       \* how many registers there may be


VARIABLES map,       \* the registers that exist, and their values
          handlers,  \* [Kind -> [Address -> Seq(Handler)]]
          answer     \* what the last call has answered

(* The answers: a yes or no, or a word. *)
Says(b) == [bool |-> b]
Reads(v) == [word |-> v]

mapVars == <<map, handlers, answer>>
Kind == {"set", "get"}

InitMap ==
    /\ map = [a \in {} |-> 0]
    /\ handlers = [k \in Kind |-> [a \in Address |-> <<>>]]
    /\ answer = Says(TRUE)

(* What becomes of a value that passes through handlers, first to last. *)
Through(list, v) ==
    LET after[n \in 0..Len(list)] == IF n = 0 THEN v ELSE list[n][after[n - 1]]
    IN  after[Len(list)]

(* New registers appear; those that exist keep their values. *)
Register ==
    /\ answer' = Says(TRUE)
    /\ DOMAIN map \subseteq DOMAIN map' /\ DOMAIN map' \subseteq Address
    /\ map' \in [DOMAIN map' -> Value]
    /\ Cardinality(DOMAIN map') <= Room
    /\ \A a \in DOMAIN map : map'[a] = map[a]
    /\ UNCHANGED handlers

(* Registers disappear, and all their handlers with them. *)
Withdraw ==
    /\ DOMAIN map' \subseteq DOMAIN map
    /\ \A a \in DOMAIN map' : map'[a] = map[a]
    /\ answer' = Says(map' # map)
    /\ handlers' = [k \in Kind |-> [a \in Address |->
                      IF a \in DOMAIN map \ DOMAIN map' THEN <<>> ELSE handlers[k][a]]]

(* One register is written, or read, through its handlers or past them. *)
Store ==
    /\ answer' = Says(TRUE)
    /\ \E a \in DOMAIN map, v \in Value :
        /\ map' \in {[map EXCEPT ![a] = v],
                     [map EXCEPT ![a] = Through(handlers["set"][a], v)]}
        /\ UNCHANGED handlers

Fetch ==
    /\ \E a \in DOMAIN map : answer' \in {Reads(map[a]), Reads(Through(handlers["get"][a], map[a]))}
    /\ UNCHANGED <<map, handlers>>

(* A handler is put behind the others of some registers. *)
Attach ==
    /\ answer' = Says(TRUE)
    /\ \E k \in Kind, h \in Handler : \E S \in (SUBSET DOMAIN map) \ {{}} :
        /\ handlers' = [handlers EXCEPT ![k] =
             [a \in Address |-> IF a \in S THEN Append(@[a], h) ELSE @[a]]]
        /\ UNCHANGED map

(* Some addresses lose all their handlers of one kind; the answer is no. *)
Detach ==
    \E k \in Kind :
        /\ handlers' = [handlers EXCEPT ![k] = [a \in Address |->
             IF handlers'[k][a] = <<>> THEN <<>> ELSE @[a]]]
        /\ answer' = Says(handlers' = handlers)
        /\ UNCHANGED map

(* A call that finds nothing to do, or no room, says so. *)
Refuse ==
    answer' \in {Says(FALSE), Reads(0)} /\ UNCHANGED <<map, handlers>>

NextMap == Register \/ Withdraw \/ Store \/ Fetch \/ Attach \/ Detach \/ Refuse
MapSpec == InitMap /\ [][NextMap]_mapVars

(* No handler outlives its register: a register that is added anew starts  *)
(* without those of its predecessor.                                       *)
NoOrphanHandler ==
    \A k \in Kind, a \in Address : handlers[k][a] # <<>> => a \in DOMAIN map
================================================================================
