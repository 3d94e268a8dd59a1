----------------------------- MODULE AddressesMC -----------------------------
(* A small instance of Addresses for TLC.                                   *)
EXTENDS Addresses, TLC

(* One body takes a default and gives the other back, one takes both.       *)
MCBodies == {<<{"shipping"}, {"billing"}>>, <<{"shipping", "billing"}, {}>>}

Symmetry == Permutations(Slots) \cup Permutations(Customers) \cup Permutations(AddressIds)
=============================================================================
