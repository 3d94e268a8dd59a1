-------------------------- MODULE StockCommandsMC --------------------------
(* A small instance of StockCommands for TLC, in three scenarios that share *)
(* their constants.  In "race" two members of staff adjust one position     *)
(* with inputs that share an operation key, race for the same version and   *)
(* overdraw the position.  In "opening" a scope that opens the position     *)
(* meets one that adjusts it, both with records that pass their seven days, *)
(* and one input exceeds the width of the position.  In "refused" some      *)
(* inputs name no position, or one whose location is closed.                *)
EXTENDS StockCommands, TLC

CONSTANTS k1, k2, k3, ann, bob, p1, shut, nowhere, o1, o2

VARIABLE scenario

MCKeyStaff == [k \in Keys |-> IF k = k2 THEN bob ELSE ann]

Input(p, delta, expected, op) == [position |-> p, delta |-> delta, expected |-> expected, op |-> op]

RaceInputs == {Input(p1, 2, 1, o1), Input(p1, 1, 2, o1), Input(p1, -1, 1, o2), Input(p1, -1, 2, o2)}
OpeningInputs == {Input(p1, 2, 1, o1), Input(p1, 2, 2, o1), Input(p1, -1, 2, o2)}
RefusedInputs == {Input(p1, 2, 1, o1), Input(nowhere, 1, 1, o2), Input(shut, 1, 1, o1)}
Inputs == RaceInputs \cup OpeningInputs \cup RefusedInputs

AllCreated == {Created(v, n): v \in 1..MaxVersion, n \in 0..MaxQuantity}
AllRefusals == {Refusal(code): code \in {"NOT_FOUND", "PRECONDITION_FAILED", "CONFLICT"}}
SlotSymmetry == Permutations(Slots)

(* What happens in a scenario: its scopes and inputs, whose grant changes,  *)
(* and whether records are followed past their seven days.                  *)
Plays ==
    LET scopes == IF scenario = "race" THEN {k1, k2} ELSE {k1, k3}
        inputs == CASE scenario = "race" -> RaceInputs
                    [] scenario = "opening" -> OpeningInputs
                    [] scenario = "refused" -> RefusedInputs
    IN  /\ \A s \in Slots: session[s].key \in scopes \cup {None} /\ session[s].digest \in inputs \cup {None}
        /\ scenario # "race" => grants[bob] = "held"
        /\ scenario # "opening" => expired = {}

MCInit == StockInit /\ scenario \in {"race", "opening", "refused"}
MCNext == StockNext /\ scenario' = scenario /\ Plays'
MCSpec == MCInit /\ [][MCNext]_<<allVars, scenario>>
=============================================================================
