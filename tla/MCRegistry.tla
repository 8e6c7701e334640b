------------------------------- MODULE MCRegistry -------------------------------
(* Two kinds of registers, and callbacks whose order can be told: one that *)
(* inverts the value and one that fixes it.                                *)
EXTENDS Registry

MCWords == {0, 1}
Inverts == [v \in MCWords |-> 1 - v]
Fixes == [v \in MCWords |-> 1]
MCCallbacks == {Inverts, Fixes}
================================================================================
