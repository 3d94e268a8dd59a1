------------------------------ MODULE AccessMC ------------------------------
(* A small instance of Access for TLC: an administrator and a second member *)
(* of staff who can become one too, on two interchangeable connections.     *)
EXTENDS Access, TLC

SlotSymmetry == Permutations(Slots)
=============================================================================
