-------------------------------- MODULE Registry --------------------------------
(***************************************************************************)
(* The registers of the Modbus library and their callbacks, Modbus.cpp as  *)
(* it is built here (MODBUS_USE_STL, MODBUS_GLOBAL_REGS): two vectors that  *)
(* are searched from the front, and the calls of ModbusAPI.h on them.  Each *)
(* call runs to its end; callbacks are functions of the value they are     *)
(* given (one that itself adds or removes registers or callbacks would     *)
(* invalidate the iterator that callback() goes on with).                  *)
(***************************************************************************)
EXTENDS Naturals, Sequences, FiniteSets, Positions

CONSTANTS Types,     \* of TAddress::RegType
          BitTypes,  \* those of them that hold a bit
          Top,       \* the highest register address: 0xFFFF
          MaxRegs,   \* MODBUS_MAX_REGS: 4000
          Words,     \* values of a register of words; 0 is one
          On,        \* the value of a bit that is on: 0xFF00
          Callbacks, \* functions that an application may register
          MaxCount,      \* the largest numregs of a call, at most 0xFFFF
          MaxCallbacks   \* bound: callbacks registered at a time

Values == Words \cup {On}
Addresses == [type : Types, address : 0..Top]
None == [v \in {} |-> v]  \* an empty function: nullptr

ASSUME RegistryAssumption ==
    /\ BitTypes \subseteq Types /\ Top \in Nat /\ MaxRegs \in Nat
    /\ 0 \in Words /\ Callbacks \subseteq [Values -> Values]
    /\ MaxCount \in Nat /\ MaxCount <= Top /\ MaxCallbacks \in Nat

VARIABLES regs,       \* _regs: registers in the order they were added
          callbacks,  \* _callbacks, in the order they were added
          cbEnabled,  \* whether Reg() asks them
          result      \* what the last call has returned

(* What a call returns: a bool, or a uint16_t. *)
Says(b) == [bool |-> b]
Reads(v) == [word |-> v]

vars == <<regs, callbacks, cbEnabled, result>>

Init == regs = <<>> /\ callbacks = <<>> /\ cbEnabled = TRUE /\ result = Says(TRUE)

--------------------------------------------------------------------------------
(* TAddress: an address counts up modulo 2^16 and keeps its type. *)

Plus(a, i) == [a EXCEPT !.address = (@ + i) % (Top + 1)]

(* addReg and removeReg clip numregs so that the address does not wrap;    *)
(* the highest address is never among those that are left.                 *)
Clipped(a, n) == IF Top - a.address < n THEN Top - a.address ELSE n

(* searchRegister: the first register of that address, 0 if there is none. *)
SearchRegister(a) ==
    IF \E i \in DOMAIN regs : regs[i].address = a
    THEN CHOOSE i \in DOMAIN regs :
           /\ regs[i].address = a
           /\ \A j \in 1..i - 1 : regs[j].address # a
    ELSE 0
Exists(a) == SearchRegister(a) # 0

(* The registers of a call that are not there yet, in order. *)
MissingUnchecked(new) == new
Missing(new) == Those(new, {i \in DOMAIN new : ~ Exists(new[i].address)})

(* callback(): the value passes through those that find_if comes upon.      *)
Found(t, a) == {i \in DOMAIN callbacks : callbacks[i].type = t /\ callbacks[i].address = a}
CbsAt(P) == [k \in 1..Cardinality(P) |-> Those(callbacks, P)[k].cb]
CallbackOfAnyType(a, v, t) == Passed(CbsAt({i \in DOMAIN callbacks : callbacks[i].address = a}), v)
Callback(a, v, t) == Passed(CbsAt(Found(t, a)), v)

--------------------------------------------------------------------------------
(* addReg, both forms: the first refuses all when there is no room for     *)
(* numregs more, the second adds while there is room and returns true.     *)

AddReg(a, v, n) ==
    LET new == [i \in 1..Clipped(a, n) |-> [address |-> Plus(a, i - 1), value |-> v]]
    IN  /\ IF Len(regs) + n > MaxRegs
           THEN result' = Says(FALSE) /\ UNCHANGED regs
           ELSE result' = Says(TRUE) /\ regs' = regs \o Missing(new)
        /\ UNCHANGED <<callbacks, cbEnabled>>

AddRegs(a, values) ==
    LET new == [i \in 1..Clipped(a, Len(values)) |->
                  [address |-> Plus(a, i - 1), value |-> values[i]]]
        missing == Missing(new)
        room == IF MaxRegs > Len(regs) THEN MaxRegs - Len(regs) ELSE 0
    IN  /\ regs' = regs \o SubSeq(missing, 1, IF room < Len(missing) THEN room ELSE Len(missing))
        /\ result' = Says(TRUE)
        /\ UNCHANGED <<callbacks, cbEnabled>>

(* Reg(address, value) and Reg(address). *)
SetReg(a, v) ==
    LET r == SearchRegister(a)
    IN  /\ IF Exists(a)
           THEN /\ regs' = [regs EXCEPT ![r].value =
                               IF cbEnabled THEN Callback(a, v, "set") ELSE v]
                /\ result' = Says(TRUE)
           ELSE result' = Says(FALSE) /\ UNCHANGED regs
        /\ UNCHANGED <<callbacks, cbEnabled>>

GetReg(a) ==
    LET held == regs[SearchRegister(a)].value
    IN  /\ result' = Reads(IF ~ Exists(a) THEN 0
                           ELSE IF cbEnabled THEN Callback(a, held, "get") ELSE held)
        /\ UNCHANGED <<regs, callbacks, cbEnabled>>

--------------------------------------------------------------------------------
(* removeOn: with a callback given, entries are compared by where two      *)
(* copies of it lie, which is never the same place, and none is removed.   *)
(* It returns whether nothing was removed.                                 *)

Named(a, n) == {Plus(a, i) : i \in 0..n - 1}

Without(t, S, cb) ==
    Those(callbacks, {i \in DOMAIN callbacks :
        ~ (callbacks[i].type = t /\ callbacks[i].address \in S /\ cb = None)})

RemoveOn(t, a, cb, n) ==
    /\ callbacks' = Without(t, Named(a, n), cb)
    /\ result' = Says(Len(callbacks') = Len(callbacks))
    /\ UNCHANGED <<regs, cbEnabled>>

(* removeReg: the callbacks of a register go before it does. *)
RemoveReg(a, n) ==
    LET gone == {x \in Named(a, Clipped(a, n)) : Exists(x)}
    IN  /\ regs' = Those(regs, {i \in DOMAIN regs : regs[i].address \notin gone})
        /\ callbacks' = Those(callbacks, {i \in DOMAIN callbacks :
                                            callbacks[i].address \notin gone})
        /\ result' = Says(gone # {})
        /\ UNCHANGED cbEnabled

(* onGet and onSet: an empty callback removes the getters of one address,  *)
(* and onSet does so too.                                                  *)
Attach(t, a, cb, n) ==
    LET new == Those([i \in 1..n |-> [type |-> t, address |-> Plus(a, i - 1), cb |-> cb]],
                     {i \in 1..n : Exists(Plus(a, i - 1))})
    IN  /\ Len(callbacks) + Len(new) <= MaxCallbacks
        /\ callbacks' = callbacks \o new
        /\ result' = Says(new # <<>>)
        /\ UNCHANGED <<regs, cbEnabled>>

OnGet(a, cb, n) == IF cb = None THEN RemoveOn("get", a, None, 1) ELSE Attach("get", a, cb, n)
OnSet(a, cb, n) == IF cb = None THEN RemoveOn("get", a, None, 1) ELSE Attach("set", a, cb, n)

CbEnable(state) ==
    cbEnabled' = state /\ UNCHANGED <<regs, callbacks, result>>

--------------------------------------------------------------------------------
(* The calls of ModbusAPI.h: one of each kind for each type of register; a *)
(* bit is stored as 0 or On.                                               *)

Held(t) == IF t \in BitTypes THEN {0, On} ELSE Words
Count == 1..MaxCount
Optional == Callbacks \cup {None}

Add == \E a \in Addresses, n \in Count : \E v \in Held(a.type) : AddReg(a, v, n)
AddArray == \E a \in Addresses, n \in Count :
                \E values \in [1..n -> Held(a.type)] : AddRegs(a, values)
Write == \E a \in Addresses : \E v \in Held(a.type) : SetReg(a, v)
ReadOne == \E a \in Addresses : GetReg(a)
Withdraw == \E a \in Addresses, n \in Count : RemoveReg(a, n)
Getter == \E a \in Addresses, cb \in Optional, n \in Count : OnGet(a, cb, n)
Setter == \E a \in Addresses, cb \in Optional, n \in Count : OnSet(a, cb, n)
RemoveGetter == \E a \in Addresses, cb \in Optional, n \in Count : RemoveOn("get", a, cb, n)
RemoveSetter == \E a \in Addresses, cb \in Optional, n \in Count : RemoveOn("set", a, cb, n)
Enable == \E state \in BOOLEAN : CbEnable(state)

Next == \/ Add \/ AddArray \/ Write \/ ReadOne \/ Withdraw \/ Getter \/ Setter
        \/ RemoveGetter \/ RemoveSetter \/ Enable
Spec == Init /\ [][Next]_vars

--------------------------------------------------------------------------------
(* The two vectors, seen as the map and the lists of handlers they stand for. *)

Registered == {regs[i].address : i \in DOMAIN regs}
MapOfRegs == [a \in Registered |-> regs[SearchRegister(a)].value]
ListsOfCallbacks == [k \in {"set", "get"} |-> [a \in Addresses |-> CbsAt(Found(k, a))]]

M == INSTANCE RegisterMap WITH
       Address <- Addresses, Value <- Values, Handler <- Callbacks, Room <- MaxRegs,
       map <- MapOfRegs, answer <- result, handlers <- ListsOfCallbacks

(* Every call does to the vectors what one step of RegisterMap does to the *)
(* map: adding keeps the registers and the values that are there, a write  *)
(* changes one register through its own handlers in their order, removing  *)
(* takes registers with their handlers, and handlers are added behind the  *)
(* others and removed a whole list at a time.                              *)
ImplementsRegisterMap == M!MapSpec

(* addReg, removeReg, removeOn: no register is there twice (a second would *)
(* be found only after the first is removed), none at the highest address, *)
(* and no callback waits for a register that is added later.               *)
NoDoubleNoOrphan ==
    /\ \A i, j \in DOMAIN regs : regs[i].address = regs[j].address => i = j
    /\ \A i \in DOMAIN regs : regs[i].address.address < Top
    /\ \A i \in DOMAIN callbacks : callbacks[i].address \in Registered
================================================================================
