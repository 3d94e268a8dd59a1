------------------------------- MODULE Ledger -------------------------------
(***************************************************************************)
(* What adjusting stock promises, with no transactions in it.  A position  *)
(* is a balance with a version.  A request names the version its author    *)
(* saw; it is granted in one step, on that very version and no other, it   *)
(* moves the balance within its range and leaves one entry, and the        *)
(* request's operation key is used up.  What a client is told is an entry. *)
(* StockCommands.tla implements this specification.                        *)
(***************************************************************************)
EXTENDS Integers

CONSTANTS Positions,
          Requests,   \* [position, delta, expected, op]; the position may be unknown
          MaxQuantity

VARIABLES balance,    \* per position: sellable and version
          entries,    \* what moved it
          receipts    \* the entries clients were told of

vars == <<balance, entries, receipts>>

Init ==
    /\ balance = [p \in Positions |-> [sellable |-> 0, version |-> 1]]
    /\ entries = {}
    /\ receipts = {}

EntryOf(r) ==
    [position |-> r.position, seen |-> r.expected, version |-> r.expected + 1, delta |-> r.delta,
     after |-> balance[r.position].sellable + r.delta, op |-> r.op]

\* The client whose request is granted may or may not live to be told.
Adjust(r) ==
    /\ r.position \in Positions
    /\ balance[r.position].version = r.expected
    /\ EntryOf(r).after \in 0..MaxQuantity
    /\ \A e \in entries: e.op # r.op
    /\ balance' = [balance EXCEPT ![r.position] =
                      [sellable |-> EntryOf(r).after, version |-> EntryOf(r).version]]
    /\ entries' = entries \cup {EntryOf(r)}
    /\ receipts' \in {receipts, receipts \cup {EntryOf(r)}}

\* A request that was granted before is told the same again.
Repeat(e) ==
    /\ receipts' = receipts \cup {e}
    /\ UNCHANGED <<balance, entries>>

Next ==
    \/ \E r \in Requests: Adjust(r)
    \/ \E e \in entries: Repeat(e)

Spec == Init /\ [][Next]_vars
=============================================================================
