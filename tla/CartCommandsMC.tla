--------------------------- MODULE CartCommandsMC ---------------------------
(* Small instances of CartCommands for TLC.  The scopes k1, k2, ... are     *)
(* given owners and operations here, one set of them per configuration.     *)
EXTENDS CartCommands, TLC

CONSTANTS guest, ann, bob, pen, ink, fog

Edit(cart, variant, quantity, expected) ==
    [cart |-> cart, source |-> None, variant |-> variant, quantity |-> quantity,
     expected |-> expected, sourceVersion |-> 0]

Merge(source, target, sourceVersion, expected) ==
    [cart |-> target, source |-> source, variant |-> None, quantity |-> 0,
     expected |-> expected, sourceVersion |-> sourceVersion]

MCSuccesses == {Done(v): v \in 1..MaxVersion}
MCRefusals == {Refusal(code): code \in Codes}
MCCapability == [k \in Keys |-> guest]
SlotSymmetry == Permutations(Slots)

ForSale == {[eligible |-> TRUE, most |-> MaxQuantity]}
Withdrawn == {[eligible |-> FALSE, most |-> 1]}
AnyFacts == ForSale \cup Withdrawn

(* "merge" and "fill" are ann's, "claim" is bob's merge, the other scopes   *)
(* are the guest's; "fill" adds, as "add" does, and "edit" is any edit.     *)
MCOwner == [k \in Keys |-> CASE k \in {"merge", "fill"} -> ann [] k = "claim" -> bob [] OTHER -> guest]
MCOperations ==
    [k \in Keys |-> CASE k \in {"merge", "claim"} -> {"merge"}
                      [] k \in {"add", "fill"} -> {"add"}
                      [] k = "edit" -> {"add", "change", "remove", "clear"}]

(* A full cart has one line; the catalog has no fog.                        *)
EditInputs == {Edit(1, pen, 1, 1), Edit(1, pen, 1, 2), Edit(1, ink, 1, 2), Edit(1, fog, 1, 1)}

(* CartNext with one guest and one cart.  Ink stays for sale; it and fog    *)
(* are named by one of the two clients.                                     *)
EditsNext ==
    \/ \E s \in Slots: CartStep(s)
    \/ \E s \in Slots, k \in Keys, d \in Digests:
        /\ d.variant # pen => k = "edit" /\ operationOf[k] \in {"add", "change"}
        /\ ReceiveCart(s, k, d)
    \/ CreateGuestCart(guest, 1)
    \/ \E fact \in Facts: CatalogChanges(pen, fact)
    \/ Tick

EditsInit == CartInit /\ offer[ink].eligible
EditsSpec == EditsInit /\ [][EditsNext]_allVars

(* A merge takes 1 into 2, as its client saw them before or after a line    *)
(* was added to both.  Together the lines may be more than the limit.       *)
MergeInputs == {Merge(1, 2, v, v): v \in 1..2} \cup {Edit(1, pen, 2, 1), Edit(2, pen, 1, 1)}
Scarce == {[eligible |-> TRUE, most |-> MaxQuantity - 1]}
AnyLimit == ForSale \cup Scarce
=============================================================================
