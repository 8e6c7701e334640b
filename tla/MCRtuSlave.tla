---------------------------- MODULE MCRtuSlave ----------------------------
(* Frames of three bytes on a line of 1 byte per tick and less.            *)
EXTENDS RtuSlave

AllKinds == [to : {"own", "other", "all"}, intact : BOOLEAN]
==========================================================================
