--------------------------- MODULE PingMailbox ---------------------------
(***************************************************************************)
(* What the station promises about ping messages: a mailbox of one slot    *)
(* between the phone network and the Modbus master.  A ping is taken out   *)
(* at most once; it may be lost, but only while the slot is being emptied. *)
(***************************************************************************)
EXTENDS Naturals

VARIABLES
    slot,      \* 1 while a ping waits for the master
    accepted,  \* pings that the station has accepted
    answered   \* pings that a reply has carried to the master

vars == <<slot, accepted, answered>>

Init == slot = 0 /\ accepted = 0 /\ answered = 0

\* A ping comes in; a second one is not kept beside the first.
Put == slot' = 1 /\ accepted' = accepted + 1 /\ UNCHANGED answered

\* A ping comes in between a read and its consumption: the read takes it too.
PutTooLate ==
    slot = 0 /\ accepted' = accepted + 1 /\ UNCHANGED <<slot, answered>>

\* The master reads the ping.
Take == slot = 1 /\ slot' = 0 /\ answered' = answered + 1 /\ UNCHANGED accepted

\* The ping is given up: by a read without a reply, or by a restart.
Drop == slot = 1 /\ slot' = 0 /\ UNCHANGED <<accepted, answered>>

Next == Put \/ PutTooLate \/ Take \/ Drop

Spec == Init /\ [][Next]_vars

\* The master is never told of more pings than came in.
AtMostOnce == answered + slot <= accepted
==========================================================================
