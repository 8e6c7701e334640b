------------------------ MODULE MCMasterMessages ------------------------
(* Frames with every byte count that a frame can name, and with those of a  *)
(* master that fills its messages.                                          *)
EXTENDS MasterMessages

AnyCount == 0..255
WholeCounts == {6, 70, 4, 58, 8, 102}
==========================================================================
