--------------------------- MODULE MCAccountErasure --------------------------
(* A small instance of AccountErasure for TLC.                             *)
EXTENDS AccountErasure

CONSTANTS c1, i1

MCInstanceOf == [c \in Calls |-> i1]
=============================================================================
