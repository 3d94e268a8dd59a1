------------------------------ MODULE OnceOnly ------------------------------
(***************************************************************************)
(* What the command engine promises its callers, with no database in it.   *)
(* Every idempotency scope ("key") is resolved at most once.  Resolving it *)
(* fixes, in one step, the digest of the input it was resolved for and the *)
(* outcome every later caller is shown; the effect of the command happens  *)
(* in that same step, and only when the outcome is a success.              *)
(* Commands.tla implements this specification.                             *)
(***************************************************************************)
EXTENDS Naturals

CONSTANTS Keys,       \* idempotency scopes
          Digests,    \* hashes of command inputs
          Successes,  \* outcomes of a command whose effect took place
          Refusals,   \* outcomes of a command that was refused
          None

VARIABLES outcome,    \* per key: None, or the digest and result it resolved to
          effects,    \* per key: how many times the command took effect
          answers     \* per key: the <<digest, result>> pairs callers were shown

vars == <<outcome, effects, answers>>

Outcomes == [digest: Digests, result: Successes \cup Refusals]

Init ==
    /\ outcome = [k \in Keys |-> None]
    /\ effects = [k \in Keys |-> 0]
    /\ answers = [k \in Keys |-> {}]

\* The caller that resolves a key may or may not live to see the answer.
Resolve(k, o) ==
    /\ outcome[k] = None
    /\ outcome' = [outcome EXCEPT ![k] = o]
    /\ effects' = [effects EXCEPT ![k] = IF o.result \in Successes THEN @ + 1 ELSE @]
    /\ \/ UNCHANGED answers
       \/ answers' = [answers EXCEPT ![k] = @ \cup {<<o.digest, o.result>>}]

\* Every other caller with the same input is shown the same outcome.
Answer(k) ==
    /\ outcome[k] # None
    /\ answers' = [answers EXCEPT ![k] = @ \cup {<<outcome[k].digest, outcome[k].result>>}]
    /\ UNCHANGED <<outcome, effects>>

Next ==
    \E k \in Keys:
        \/ \E o \in Outcomes: Resolve(k, o)
        \/ Answer(k)

Spec == Init /\ [][Next]_vars
=============================================================================
