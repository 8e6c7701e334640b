--------------------------- MODULE MCSlavePdu ---------------------------
(* A bank with holding registers at both ends of the addresses, one coil and *)
(* one input register, and a hole that requests can reach into: ranges run   *)
(* into the hole, and over the last address to the first.                    *)
EXTENDS SlavePdu, TLC

\* None, one, two that differ, and one too many.
MCLists == {<<>>, <<On>>, <<On, Zero>>, <<Zero, On>>, <<Zero, Zero, Zero>>}

\* No request tells one bit of a word from another.
AnyBit == Permutations(Bits)

Bank == {<<"HREG", 0>>, <<"HREG", 1>>, <<"HREG", 3>>, <<"COIL", 1>>, <<"IREG", 0>>}
==========================================================================
