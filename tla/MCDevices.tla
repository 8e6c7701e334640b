------------------------------- MODULE MCDevices -------------------------------
(***************************************************************************)
(* The parts of the station around the Modbus slave, each checked by       *)
(* itself: the part is chosen in the first state, and the variables of the *)
(* others stand still.                                                     *)
(***************************************************************************)
EXTENDS Peripherals, Modem, Publishing, LengthSensor, TLC

VARIABLE part

allVars == <<part, vars, modemVars, publishingVars, lengthVars>>

(* What the sensor, the clock, the modem and the ping say in three passes.  *)
MCPass(float, time, status, get, ping) ==
    [sensor |-> float, md_time |-> [i \in 1..7 |-> <<time, i>>], status |-> status,
     get |-> get, ping |-> ping, phone |-> [i \in 1..10 |-> <<float, i>>]]
MCPasses == {MCPass("0.0", 1, 0, 1, 0), MCPass("7.5", 2, 1, 1, 1), MCPass("7.5", 2, 1, 0, 0)}
MCMessages == {<<7>>}

(* A whole frame of registers from the first one, the last block, and one   *)
(* across the blocks of the button, its change and the ping status.         *)
MCReads == {<<0, 70>>, <<102, 226>>, <<40, 48>>}

MCInit ==
    /\ part \in {"peripherals", "modem", "publishing", "sensor"}
    /\ Init /\ (part # "peripherals" => ~rtcThere /\ \A b \in Buttons : pin[b] = 1)
    /\ ModemInit
    /\ PublishingInit /\ (part # "publishing" => pass = MCPass("0.0", 1, 0, 1, 0))
    /\ LengthInit /\ (part # "sensor" => variant = "test")

MCNext ==
    /\ UNCHANGED part
    /\ \/ part = "peripherals" /\ Next /\ UNCHANGED <<modemVars, publishingVars, lengthVars>>
       \/ part = "modem" /\ ModemNext /\ UNCHANGED <<vars, publishingVars, lengthVars>>
       \/ part = "publishing" /\ PublishingNext /\ UNCHANGED <<vars, modemVars, lengthVars>>
       \/ part = "sensor" /\ LengthNext /\ UNCHANGED <<vars, modemVars, publishingVars>>

MCSpec == MCInit /\ [][MCNext]_allVars

(* The model of the modem never looks which report is which.                *)
Symmetry == Permutations(Reports)
================================================================================
