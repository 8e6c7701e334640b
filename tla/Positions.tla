------------------------------- MODULE Positions -------------------------------
(***************************************************************************)
(* What std::find_if and std::remove_if leave of a vector: the elements at *)
(* some positions, in the order they were in.                              *)
(***************************************************************************)
EXTENDS Naturals, Sequences, FiniteSets

(* The elements of s at the positions P, the k-th being the one with k      *)
(* positions of P up to its own.                                            *)
Place(P, k) == CHOOSE i \in P : Cardinality({j \in P : j <= i}) = k
Those(s, P) == [k \in 1..Cardinality(P) |-> s[Place(P, k)]]

(* A value that passes through functions, first to last. *)
Passed(functions, v) ==
    LET after[n \in 0..Len(functions)] == IF n = 0 THEN v ELSE functions[n][after[n - 1]]
    IN  after[Len(functions)]
================================================================================
