------------------------------- MODULE Office -------------------------------
(***************************************************************************)
(* What access administration promises, with no roles, clocks or           *)
(* transactions in it.  An office is founded once, by one permanent        *)
(* member.  From then on a member in office decides about somebody else,   *)
(* one at a time, so that a permanent member remains, and the decision is  *)
(* on record with the version it made.  Access.tla implements this         *)
(* specification.                                                          *)
(***************************************************************************)
EXTENDS Naturals

CONSTANT Staff

VARIABLES standing,  \* per identity: "permanent", "acting" or "out"
          version,   \* per identity: how many decisions were about it
          decisions  \* who decided about whom

vars == <<standing, version, decisions>>

Init ==
    /\ standing = [a \in Staff |-> "out"]
    /\ version = [a \in Staff |-> 0]
    /\ decisions = {}

Record(actor, a) ==
    /\ version' = [version EXCEPT ![a] = @ + 1]
    /\ decisions' = decisions \cup {[actor |-> actor, target |-> a, version |-> version[a] + 1]}

Found(a) ==
    /\ decisions = {}
    /\ standing' = [standing EXCEPT ![a] = "permanent"]
    /\ Record(a, a)

Decide(actor, a, new) ==
    /\ actor # a
    /\ standing[actor] # "out"
    /\ standing' = [standing EXCEPT ![a] = new]
    /\ \E b \in Staff: standing'[b] = "permanent"
    /\ Record(actor, a)

Next ==
    \/ \E a \in Staff: Found(a)
    \/ \E actor, a \in Staff, new \in {"permanent", "acting", "out"}: Decide(actor, a, new)

Spec == Init /\ [][Next]_vars
=============================================================================
