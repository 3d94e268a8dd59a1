---------------------------- MODULE CartMergeMC ----------------------------
(* One instance of CartCommands that plays three scenarios.  "edits": ann   *)
(* merges cart 1 of the guest into her cart 2 while lines are added to      *)
(* either and both may expire.  "claims": ann and bob merge the same guest  *)
(* cart, all having theirs, in any order of ids, and no time passes.        *)
(* "visits": ann asks for a cart over two connections at once, and adds to  *)
(* it and merges into it over others, while it expires; in the other two    *)
(* get() runs before and between the commands.                              *)
EXTENDS CartCommandsMC

VARIABLE scenario

MergeSymmetry == SlotSymmetry \cup Permutations(Visitors)

ClaimInputs == {Merge(i, j, 1, 1): <<i, j>> \in {p \in CartIds \X CartIds: p[1] # p[2]}}
MergingInputs == MergeInputs \cup ClaimInputs

Scopes == CASE scenario = "edits" -> {"merge", "add", "fill"}
            [] scenario = "claims" -> {"merge", "claim"}
            [] scenario = "visits" -> {"merge", "fill"}
Inputs == IF scenario = "claims" THEN ClaimInputs ELSE MergeInputs
Buyers == IF scenario = "claims" THEN Customers ELSE {ann}

Guesting == \E c \in (IF scenario = "claims" THEN CartIds ELSE {1}): CreateGuestCart(guest, c)

GetCalls(w) ==
    \/ /\ scenario = "visits" \/ \A x \in Visitors: visits[x] = None
       /\ scenario = "visits" \/ \A s \in Slots: session[s].at = "idle"
       /\ \E o \in Buyers \cup (IF scenario = "visits" THEN {guest} ELSE {}): BeginGet(w, o)
    \/ \E c \in (IF scenario = "edits" THEN {2} ELSE CartIds): GetOrCreate(w, c)
    \/ EndGet(w)
    \/ scenario = "visits" /\ GetFails(w)

(* CartNext, with the scopes, inputs and carts of the scenario.             *)
MergingNext ==
    /\ \/ \E s \in Slots: CartStep(s)
       \/ /\ scenario = "visits" \/ \A w \in Visitors: visits[w] = None
          /\ scenario = "claims" => Unused = {}
          /\ \E s \in Slots, k \in Scopes, d \in Inputs: ReceiveCart(s, k, d)
       \/ Guesting
       \/ \E w \in Visitors: GetCalls(w)
       \/ scenario # "claims" /\ Tick
    /\ scenario' = scenario

MergingInit ==
    /\ CartInit
    /\ scenario \in {"edits", "claims", "visits"}
    /\ scenario # "visits" => offer[pen] \in ForSale
MergingSpec == MergingInit /\ [][MergingNext]_<<allVars, scenario>>
=============================================================================
