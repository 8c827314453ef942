---------------------------- MODULE MCProcessTurn ----------------------------
(* Small instances of ProcessTurn for TLC.                                 *)
EXTENDS ProcessTurn, TLC

CONSTANTS c1, c2, c3, i1, i2

\* The first call alone on an instance, the others together on the second.
MCInstanceOf == [c \in Calls |-> IF c = c1 THEN i1 ELSE i2]

\* Request ids and operation ids are interchangeable.
MCSymmetryPrivacy == Permutations(RequestIds) \cup Permutations(OpIds)
=============================================================================
