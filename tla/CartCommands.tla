---------------------------- MODULE CartCommands ----------------------------
(***************************************************************************)
(* Customer and guest carts: CartService of                                *)
(* apps/commerce-api/src/cart/service.ts run by the command engine, over   *)
(* sales.carts and sales.cart_lines with the triggers of                   *)
(* database/migrations/0003_stock_cart.sql.  Every action of a command is  *)
(* an action of Commands with its domain part conjoined; get-or-create,    *)
(* get and guest creation are transactions of their own.                   *)
(*                                                                         *)
(* A digest is the validated input: [cart, source, variant, quantity,      *)
(* expected, sourceVersion]; only a merge has a source.  Prices and the    *)
(* projection of a cart are left out: they decide nothing.                 *)
(***************************************************************************)
EXTENDS Commands, FiniteSets

CONSTANTS
    Customers,      \* customer accounts
    Guests,         \* guest capabilities (their hashes)
    CartIds,        \* cart ids in UUID order: a set of numbers
    Variants,       \* variants of the catalog
    Unknown,        \* variant ids the catalog has no row of
    Visitors,       \* connections of get()
    KeyOwner,       \* per idempotency scope: the customer or guest it belongs to
    KeyOperations,  \* per idempotency scope: "add", "change", "remove", "clear", "merge", or
                    \* the several of them the checker tries in turn
    Capability,     \* the guest capability a merge presents
    AgeingKeys,     \* bound: the scopes whose records are followed past their seven days
    Facts,          \* bound: what the catalog may say of a variant
    MaxQuantity,    \* 20: units of a line
    MaxLines,       \* 50: lines of a cart
    Lifetime,       \* 30 days of inactivity
    Horizon,        \* bound: the database clock runs from 0 to Horizon
    MaxVersion      \* bound on cart versions

Owners == Customers \cup Guests

Done(v) == [code |-> "OK", version |-> v]
Refusal(code) == [code |-> code, version |-> 0]
Codes == {"NOT_FOUND", "PRECONDITION_FAILED", "CONFLICT", "UNPROCESSABLE"}

(* The validated input: mutate() and merge() refuse any other with a 400.  *)
CartInputs == [cart: CartIds, source: CartIds \cup {None}, variant: Variants \cup Unknown \cup {None},
               quantity: 0..MaxQuantity, expected: Nat, sourceVersion: Nat]

ASSUME CartConstants ==
    /\ IsFiniteSet(Slots)
    /\ CartIds \subseteq Nat
    /\ Digests \subseteq CartInputs
    /\ \A d \in Digests: d.source # d.cart /\ (d.source = None => d.variant # None)
    /\ Variants \cap Unknown = {} /\ IsFiniteSet(Variants)
    /\ Customers \cap Guests = {}
    /\ KeyOwner \in [Keys -> Owners]
    /\ KeyOperations \in [Keys -> SUBSET {"add", "change", "remove", "clear", "merge"}]
    /\ \A k \in Keys: "merge" \in KeyOperations[k] => KeyOwner[k] \in Customers
    /\ Capability \in [Keys -> Guests]
    /\ AgeingKeys \subseteq Keys
    /\ Facts \subseteq [eligible: BOOLEAN, most: 1..MaxQuantity]
    /\ MaxQuantity \in Nat /\ MaxLines \in Nat /\ Lifetime \in Nat \ {0} /\ Horizon \in Nat
    /\ MaxVersion \in Nat \ {0}
    /\ \A v \in 1..MaxVersion: Done(v) \in Successes
    /\ \A code \in Codes: Refusal(code) \in Refusals

VARIABLES
    carts,      \* committed carts with their lines, None where there is no row
    clock,      \* clock_timestamp() of the database
    visits,     \* per connection of get(): its owner and the carts it has locked, or None
    operationOf,\* per idempotency scope: its operation, fixed with the scope
    offer,      \* what the catalog says of a variant: eligible, and its quantity limit
    rows,       \* per connection: the carts the guard's SELECT finds in its snapshot
    seen,       \* per connection: the cart rows it has locked, as they were read
    draft       \* per connection: the carts its transaction has written

cartVars == <<carts, visits, clock, operationOf, offer>>
work == <<rows, seen, draft>>
allVars == <<vars, cartVars, work>>

LinesOf(lines) == {v \in Variants: lines[v] > 0}

(* A quantity for each variant, 0 if there is no line, within the cap.      *)
Contents == {lines \in [Variants -> 0..MaxQuantity]: Cardinality(LinesOf(lines)) <= MaxLines}

Carts == [owner: Owners, state: {"active", "merged", "expired"}, version: 1..MaxVersion,
          expires: 0..(Horizon + Lifetime), lines: Contents, into: CartIds \cup {None}]

Visiting == [owner: Owners, found: SUBSET CartIds]

ASSUME NoneIsNoCart == None \notin Carts /\ None \notin CartIds /\ None \notin Codes

Nothing == [c \in {} |-> None]

CartTypeOK ==
    /\ carts \in [CartIds -> Carts \cup {None}]
    /\ visits \in [Visitors -> Visiting \cup {None}]
    /\ clock \in 0..Horizon
    /\ \A k \in Keys: operationOf[k] \in KeyOperations[k]
    /\ offer \in [Variants -> Facts]
    /\ rows \in [Slots -> SUBSET CartIds]
    /\ DOMAIN seen = Slots /\ DOMAIN draft = Slots
    /\ \A s \in Slots: \A c \in DOMAIN seen[s]: c \in CartIds /\ seen[s][c] \in Carts
    /\ \A s \in Slots: \A c \in DOMAIN draft[s]: c \in CartIds /\ draft[s][c] \in Carts

CartInit ==
    /\ Init
    /\ carts = [c \in CartIds |-> None]
    /\ visits = [w \in Visitors |-> None]
    /\ clock = 0
    /\ operationOf \in [Keys -> {"add", "change", "remove", "clear", "merge"}]
    /\ \A k \in Keys: operationOf[k] \in KeyOperations[k]
    /\ offer \in [Variants -> Facts]
    /\ rows = [s \in Slots |-> {}]
    /\ seen = [s \in Slots |-> Nothing]
    /\ draft = [s \in Slots |-> Nothing]
-----------------------------------------------------------------------------
(* Row locks.  A connection keeps the customer row from authorize to the    *)
(* end, and the cart rows its guard has read.                               *)
HoldsCustomer(s, o) ==
    /\ session[s].at \in LockedStages \ {"locked"}
    /\ KeyOwner[session[s].key] = o
    /\ o \in Customers

HoldsCart(s, c) == c \in DOMAIN seen[s]

Visits(w, o) == visits[w] # None /\ visits[w].owner = o
Found(w) == IF visits[w] = None THEN {} ELSE visits[w].found

CustomerFree(o) ==
    o \in Customers => (\A s \in Slots: ~HoldsCustomer(s, o)) /\ (\A w \in Visitors: ~Visits(w, o))

CartFree(c) == (\A s \in Slots: ~HoldsCart(s, c)) /\ (\A w \in Visitors: c \notin Found(w))

Operation(s) == operationOf[session[s].key]
Input(s) == session[s].digest
Named(s) == IF Operation(s) = "merge" THEN {Input(s).source, Input(s).cart} ELSE {Input(s).cart}

(* ORDER BY id FOR UPDATE: the rows are locked in the order of their ids.   *)
ToLock(s) == rows[s] \ DOMAIN seen[s]

(* Mutant of NextToLock: the target of a merge is locked before its source. *)
TargetFirst(s) == IF Input(s).cart \in ToLock(s) THEN Input(s).cart ELSE Input(s).source

NextToLock(s) == CHOOSE c \in ToLock(s): \A e \in ToLock(s): c <= e

Past(row) == row.expires <= clock
-----------------------------------------------------------------------------
EngineOnly(s) ==
    /\ TakeCommandLock(s) \/ CommitLost(s)
    /\ UNCHANGED <<cartVars, work>>

ReceiveCart(s, k, d) ==
    /\ Receive(s, k, d)
    /\ (operationOf[k] = "merge") <=> (d.source # None)
    /\ UNCHANGED <<cartVars, work>>

(* authorizeCustomer locks the customer row; a guest is its capability.     *)
AuthorizeOwner(s) ==
    /\ Authorize(s)
    /\ CustomerFree(KeyOwner[session[s].key])
    /\ UNCHANGED <<cartVars, work>>

(* The record is read, and the guard's SELECT ... FOR UPDATE starts: a cart *)
(* that is created later is not in its snapshot.                            *)
SelectCarts(s) ==
    /\ ReadRecord(s)
    /\ rows' = [rows EXCEPT ![s] = {c \in Named(s): carts[c] # None}]
    /\ UNCHANGED <<cartVars, seen, draft>>

(* Mutant of LockCart: the rows are read without FOR UPDATE.                *)
ReadCart(s) ==
    /\ session[s].at = "read"
    /\ ToLock(s) # {}
    /\ seen' = [seen EXCEPT ![s] = [c \in DOMAIN @ \cup {NextToLock(s)} |->
                    IF c \in DOMAIN @ THEN @[c] ELSE carts[c]]]
    /\ UNCHANGED <<vars, cartVars, rows, draft>>

(* One row of it after the other: what it returns is the row as it is when  *)
(* its lock is granted.                                                     *)
LockCart(s) ==
    /\ session[s].at = "read"
    /\ ToLock(s) # {}
    /\ CartFree(NextToLock(s))
    /\ seen' = [seen EXCEPT ![s] = [c \in DOMAIN @ \cup {NextToLock(s)} |->
                    IF c \in DOMAIN @ THEN @[c] ELSE carts[c]]]
    /\ UNCHANGED <<vars, cartVars, rows, draft>>

GuardReady(s) == session[s].at = "read" /\ ToLock(s) = {}

AllFound(s) == Named(s) \subseteq DOMAIN seen[s]

Owned(s) ==
    /\ AllFound(s)
    /\ seen[s][Input(s).cart].owner = KeyOwner[session[s].key]
    /\ Operation(s) = "merge" => seen[s][Input(s).source].owner = Capability[session[s].key]

(* A source already merged into this target passes, for the replay.         *)
Open(s) ==
    /\ \A c \in Named(s): ~Past(seen[s][c])
    /\ seen[s][Input(s).cart].state = "active"
    /\ Operation(s) = "merge" =>
           LET source == seen[s][Input(s).source]
           IN  \/ source.state = "active"
               \/ source.state = "merged" /\ source.into = Input(s).cart

Admitted(s) == Owned(s) /\ Open(s)

(* The cart expire() finds past its deadline first, the source of a merge   *)
(* before its target, becomes terminal if it was active.                    *)
FirstPast(s) ==
    IF ~Owned(s) THEN {}
    ELSE IF Operation(s) = "merge" /\ Past(seen[s][Input(s).source]) THEN {Input(s).source}
    ELSE {c \in {Input(s).cart}: Past(seen[s][c])}

(* Mutant of Expiring: expire() does not look at the state of the cart.     *)
ExpireAnyState(s) == FirstPast(s)

Expiring(s) == {c \in FirstPast(s): seen[s][c].state = "active"}

(* Mutant of AsExpired: the lines of an expired cart are thrown away.       *)
AsEmptied(row) ==
    [row EXCEPT !.state = "expired", !.version = @ + 1, !.lines = [v \in Variants |-> 0]]

AsExpired(row) == [row EXCEPT !.state = "expired", !.version = @ + 1]

(* The denial answers 404 and the expiry it found is committed.             *)
DenyCart(s) ==
    /\ Deny(s)
    /\ GuardReady(s)
    /\ ~Admitted(s)
    /\ \A c \in Expiring(s): seen[s][c].version < MaxVersion
    /\ draft' = [draft EXCEPT ![s] = [c \in Expiring(s) |-> AsExpired(seen[s][c])]]
    /\ UNCHANGED <<cartVars, rows, seen>>

AdmitCart(s) ==
    /\ AnswerFromRecord(s) \/ Start(s)
    /\ GuardReady(s)
    /\ Admitted(s)
    /\ UNCHANGED <<cartVars, work>>
-----------------------------------------------------------------------------
Lesser(m, n) == IF m <= n THEN m ELSE n
Limit(v) == Lesser(MaxQuantity, offer[v].most)

(* Mutant of NewLines: a line that the target of a merge already has wins   *)
(* over the line of the source.                                             *)
TargetWins(s) ==
    LET lines == seen[s][Input(s).cart].lines
        v == Input(s).variant
        n == Input(s).quantity
    IN  CASE Operation(s) = "add" -> [lines EXCEPT ![v] = @ + n]
          [] Operation(s) = "merge" ->
                 [w \in Variants |-> IF lines[w] > 0 THEN lines[w] ELSE seen[s][Input(s).source].lines[w]]

(* The lines of the cart after the command.  A merge sums the lines of both *)
(* carts and clamps them.                                                   *)
NewLines(s) ==
    LET lines == seen[s][Input(s).cart].lines
        v == Input(s).variant
        n == Input(s).quantity
    IN  CASE Operation(s) = "add" -> [lines EXCEPT ![v] = @ + n]
          [] Operation(s) = "change" -> [lines EXCEPT ![v] = n]
          [] Operation(s) = "remove" -> [lines EXCEPT ![v] = 0]
          [] Operation(s) = "clear" -> [w \in Variants |-> 0]
          [] Operation(s) = "merge" ->
                 [w \in Variants |-> Lesser(Limit(w), lines[w] + seen[s][Input(s).source].lines[w])]

(* guard_cart_line runs for every line that is written or deleted, and      *)
(* looks at the clock again; an empty clear writes none.                    *)
WritesLines(s) ==
    IF Operation(s) \in {"clear", "merge"}
    THEN LinesOf(seen[s][Input(s).cart].lines) \cup LinesOf(NewLines(s)) # {}
    ELSE TRUE

StaleVersion(s) ==
    \/ seen[s][Input(s).cart].version # Input(s).expected
    \/ Operation(s) = "merge" /\ seen[s][Input(s).source].version # Input(s).sourceVersion

MissingLine(s) ==
    /\ Operation(s) \in {"change", "remove"}
    /\ Input(s).variant \notin LinesOf(seen[s][Input(s).cart].lines)

(* Mutant of OverLimit: only what is asked for is compared with the limit.  *)
AsksOverLimit(s) ==
    /\ Operation(s) \in {"add", "change"}
    /\ Input(s).variant \notin Variants \/ Input(s).quantity > Limit(Input(s).variant)

(* What the catalog does not know has no line and is not given one.         *)
OverLimit(s) ==
    /\ Operation(s) \in {"add", "change"}
    /\ Input(s).variant \notin Variants \/ NewLines(s)[Input(s).variant] > Limit(Input(s).variant)

NotForSale(s) ==
    /\ Operation(s) \in {"add", "change"}
    /\ NewLines(s)[Input(s).variant] > seen[s][Input(s).cart].lines[Input(s).variant]
    /\ ~offer[Input(s).variant].eligible

(* Mutant of TooManyLines: a cart that is full takes one more.              *)
OneMoreLine(s) == Cardinality(LinesOf(NewLines(s))) > MaxLines + 1

TooManyLines(s) == Cardinality(LinesOf(NewLines(s))) > MaxLines

(* The error of execute() or of a trigger, None if there is none.           *)
Rejection(s) ==
    IF Operation(s) = "merge" /\ seen[s][Input(s).source].state # "active" THEN "CONFLICT"
    ELSE IF StaleVersion(s) THEN "PRECONDITION_FAILED"
    ELSE IF MissingLine(s) THEN "NOT_FOUND"
    ELSE IF OverLimit(s) THEN "CONFLICT"
    ELSE IF NotForSale(s) THEN "UNPROCESSABLE"
    ELSE IF TooManyLines(s) \/ (WritesLines(s) /\ Past(seen[s][Input(s).cart])) THEN "CONFLICT"
    ELSE None

(* Every mutation that succeeds also moves the deadline, from a clock that  *)
(* is read after the lines are written.                                     *)
Refreshed(row, lines, later) ==
    [row EXCEPT !.lines = lines, !.version = @ + 1, !.expires = later + Lifetime]

(* The source of a merge keeps its lines as history.                        *)
AsMerged(row, target) == [row EXCEPT !.state = "merged", !.into = target, !.version = @ + 1]

Effect(s, later) ==
    [c \in Named(s) |-> IF c = Input(s).cart THEN Refreshed(seen[s][c], NewLines(s), later)
                        ELSE AsMerged(seen[s][c], Input(s).cart)]

(* The deadline is checked with each line; it may pass before the UPDATE of *)
(* the cart that moves it.                                                  *)
WriteCart(s) ==
    /\ Write(s)
    /\ Rejection(s) = None
    /\ \A c \in Named(s): seen[s][c].version < MaxVersion
    /\ \E later \in clock..Horizon:
        /\ clock' = later
        /\ draft' = [draft EXCEPT ![s] = Effect(s, later)]
    /\ UNCHANGED <<carts, visits, operationOf, offer, rows, seen>>

FinishCart(s) ==
    /\ session[s].at = "wrote"
    /\ Succeed(s, Done(draft[s][Input(s).cart].version))
    /\ UNCHANGED <<cartVars, work>>

RefuseCart(s) ==
    /\ session[s].at = "started"
    /\ Rejection(s) # None
    /\ Refuse(s, Refusal(Rejection(s)))
    /\ UNCHANGED <<cartVars, work>>

(* The end of a transaction frees its rows; what it wrote stays or goes.    *)
Release(s) ==
    /\ rows' = [rows EXCEPT ![s] = {}]
    /\ seen' = [seen EXCEPT ![s] = Nothing]
    /\ draft' = [draft EXCEPT ![s] = Nothing]

Discard(s) ==
    /\ Fail(s) \/ CommitRefused(s) \/ OrphanAborts(s)
    /\ Release(s)
    /\ UNCHANGED cartVars

CommitCart(s) ==
    /\ Commit(s) \/ OrphanCommits(s)
    /\ carts' = [c \in CartIds |-> IF c \in DOMAIN draft[s] THEN draft[s][c] ELSE carts[c]]
    /\ Release(s)
    /\ UNCHANGED <<visits, clock, operationOf, offer>>
-----------------------------------------------------------------------------
NewCart(o) == [owner |-> o, state |-> "active", version |-> 1, expires |-> clock + Lifetime,
               lines |-> [v \in Variants |-> 0], into |-> None]

(* A random UUID may sort anywhere among the others.                        *)
Unused == {c \in CartIds: carts[c] = None}
ActiveOf(o) == {c \in CartIds: carts[c] # None /\ carts[c].owner = o /\ carts[c].state = "active"}

(* guestCreate: a new capability with a cart of its own.                    *)
CreateGuestCart(g, c) ==
    /\ c \in Unused
    /\ \A e \in CartIds: carts[e] # None => carts[e].owner # g
    /\ carts' = [carts EXCEPT ![c] = NewCart(g)]
    /\ UNCHANGED <<vars, visits, clock, operationOf, offer, work>>

(* get() of a customer reads the active cart, that of a guest the only one. *)
CartsOf(o) == {c \in CartIds: carts[c] # None /\ carts[c].owner = o /\ (o \in Customers => carts[c].state = "active")}

(* Mutant of BeginGet: it does not take the customer row.                   *)
BeginGetUnlocked(w, o) ==
    /\ visits[w] = None
    /\ o \in Customers \/ CartsOf(o) # {}
    /\ \A c \in CartsOf(o): CartFree(c)
    /\ visits' = [visits EXCEPT ![w] = [owner |-> o, found |-> CartsOf(o)]]
    /\ UNCHANGED <<vars, carts, clock, operationOf, offer, work>>

(* A transaction of its own: the customer row, and the cart FOR UPDATE.     *)
BeginGet(w, o) ==
    /\ visits[w] = None
    /\ o \in Customers \/ CartsOf(o) # {}
    /\ CustomerFree(o) /\ \A c \in CartsOf(o): CartFree(c)
    /\ visits' = [visits EXCEPT ![w] = [owner |-> o, found |-> CartsOf(o)]]
    /\ UNCHANGED <<vars, carts, clock, operationOf, offer, work>>

(* The deadline is compared with the clock under the lock.                  *)
Ending(w) == {c \in Found(w): carts[c].state = "active" /\ Past(carts[c])}
Remaining(w) == {c \in Found(w): carts[c].state = "active" /\ ~Past(carts[c])}

(* Mutant of Ended: the cart that ran out is left active.                   *)
LeftActive(w) == carts

Ended(w) == [c \in CartIds |-> IF c \in Ending(w) THEN AsExpired(carts[c]) ELSE carts[c]]

Leave(w) ==
    /\ visits' = [visits EXCEPT ![w] = None]
    /\ UNCHANGED <<vars, clock, operationOf, offer, work>>

(* The cart is answered, or 404 after the expiry that is found is committed. *)
EndGet(w) ==
    /\ visits[w] # None
    /\ \A c \in Ending(w): carts[c].version < MaxVersion
    /\ carts' = Ended(w)
    /\ Leave(w)

(* create = true, for a customer, and no cart is open any more.             *)
GetOrCreate(w, c) ==
    /\ visits[w] # None /\ visits[w].owner \in Customers
    /\ Remaining(w) = {}
    /\ \A e \in Ending(w): carts[e].version < MaxVersion
    /\ c \in Unused
    /\ carts' = [Ended(w) EXCEPT ![c] = NewCart(visits[w].owner)]
    /\ Leave(w)

(* Any failure before or at COMMIT.                                         *)
GetFails(w) ==
    /\ visits[w] # None
    /\ carts' = carts
    /\ Leave(w)

Tick ==
    /\ clock < Horizon
    /\ clock' = clock + 1
    /\ UNCHANGED <<vars, carts, visits, operationOf, offer, work>>

(* The catalog changes under the carts and takes no lock of theirs.         *)
CatalogChanges(v, fact) ==
    /\ offer' = [offer EXCEPT ![v] = fact]
    /\ UNCHANGED <<vars, carts, visits, clock, operationOf, work>>

Ageing(k) ==
    /\ ExpireRecord(k)
    /\ UNCHANGED <<cartVars, work>>

CartStep(s) ==
    \/ EngineOnly(s)
    \/ AuthorizeOwner(s)
    \/ SelectCarts(s)
    \/ LockCart(s)
    \/ DenyCart(s)
    \/ AdmitCart(s)
    \/ WriteCart(s)
    \/ FinishCart(s)
    \/ RefuseCart(s)
    \/ Discard(s)
    \/ CommitCart(s)

CartNext ==
    \/ \E s \in Slots: CartStep(s)
    \/ \E s \in Slots, k \in Keys, d \in Digests: ReceiveCart(s, k, d)
    \/ \E g \in Guests, c \in CartIds: CreateGuestCart(g, c)
    \/ \E w \in Visitors, o \in Owners: BeginGet(w, o)
    \/ \E w \in Visitors: EndGet(w) \/ GetFails(w)
    \/ \E w \in Visitors, c \in CartIds: GetOrCreate(w, c)
    \/ \E v \in Variants, fact \in Facts: CatalogChanges(v, fact)
    \/ Tick
    \/ \E k \in AgeingKeys: Ageing(k)

CartSpec == CartInit /\ [][CartNext]_allVars
-----------------------------------------------------------------------------
(* Two get-or-creates at once, merges and expiries leave a customer with at *)
(* most one active cart: each decides on what the one before it has done    *)
(* (service.ts:68-71), so the unique index cart_active_customer never has   *)
(* to refuse an INSERT.                                                     *)
OneActiveCart == \A o \in Customers: Cardinality(ActiveOf(o)) <= 1

(* A merged or expired cart is history: nothing revives it, edits it or     *)
(* gives its lines to a second target.                                      *)
TerminalCartsStay ==
    [][\A c \in CartIds:
           carts[c] # None => (carts[c].state # "active" => carts'[c] = carts[c])]_carts

(* What both carts hold at the moment a merge commits is what the target    *)
(* gets: no line of either is dropped, every quantity is the sum or the     *)
(* limit of its variant, the source keeps its own lines, and the target is  *)
(* still open.                                                              *)
MergeMovesEveryLine ==
    [][\A c \in CartIds:
           carts[c] # None /\ carts[c] # carts'[c] /\ carts'[c].state = "merged" =>
               LET t == carts'[c].into
               IN  /\ carts'[c].lines = carts[c].lines
                   /\ carts[t].state = "active" /\ carts'[t].state = "active"
                   /\ LinesOf(carts'[t].lines) = LinesOf(carts[t].lines) \cup LinesOf(carts[c].lines)
                   /\ \A v \in Variants:
                          LET sum == carts[t].lines[v] + carts[c].lines[v]
                          IN  carts'[t].lines[v] \in
                                  {Lesser(sum, Lesser(MaxQuantity, fact.most)): fact \in Facts}]_carts

(* The commands that took effect on a cart, by their stored outcomes.       *)
Succeeded(c) ==
    {k \in Keys: records[k] # None /\ records[k].result \in Successes /\ records[k].digest.cart = c}

Replayed(lines, k) ==
    LET d == records[k].digest
    IN  CASE operationOf[k] = "add" -> [lines EXCEPT ![d.variant] = @ + d.quantity]
          [] operationOf[k] = "change" -> [lines EXCEPT ![d.variant] = d.quantity]
          [] operationOf[k] = "remove" -> [lines EXCEPT ![d.variant] = 0]
          [] operationOf[k] = "clear" -> [v \in Variants |-> 0]

History(c) ==
    LET lines[n \in 1..MaxVersion] ==
            IF n = 1 THEN [v \in Variants |-> 0]
            ELSE IF \E k \in Succeeded(c): records[k].result.version = n
                 THEN Replayed(lines[n - 1],
                               CHOOSE k \in Succeeded(c): records[k].result.version = n)
                 ELSE lines[n - 1]
    IN  lines

VersionsAreTold(c) ==
    \A k \in Succeeded(c):
        /\ records[k].result.version = records[k].digest.expected + 1
        /\ carts[c] # None /\ records[k].result.version <= carts[c].version
        /\ \A l \in Succeeded(c): records[l].result.version = records[k].result.version => k = l

LinesFollow(c) ==
    carts[c] # None /\ (\A k \in Succeeded(c): operationOf[k] # "merge") =>
        carts[c].lines = History(c)[carts[c].version]

(* No lost update and no effect without a trace: two commands never make    *)
(* the same version of a cart, each makes the one after the version its     *)
(* client had seen, none is undone, and a cart that was never the target of *)
(* a merge is what its commands made of it, in the order of the versions.   *)
CartIsItsHistory == \A c \in CartIds: VersionsAreTold(c) /\ LinesFollow(c)

(* The locks of the commands cannot close a circle: command lock, customer  *)
(* row and cart rows are always requested in an order that lets someone go. *)
WaitsFor(s, t) ==
    \/ session[s].at = "begun" /\ HoldsKey(t, session[s].key)
    \/ session[s].at = "locked" /\ HoldsCustomer(t, KeyOwner[session[s].key])
    \/ session[s].at = "read" /\ ToLock(s) # {} /\ HoldsCart(t, NextToLock(s))

NoLockCycle ==
    \A circle \in (SUBSET Slots) \ {{}}:
        \E s \in circle: \A t \in circle: ~WaitsFor(s, t)
-----------------------------------------------------------------------------
(* The inductive invariant behind the properties above.                     *)

(* The guard's rows: locked one by one in the order of their ids, and a row *)
(* that is locked is the committed one until its transaction ends.          *)
RowsOK(s) ==
    /\ session[s].at \notin {"read", "started", "wrote", "committing", "orphan"} => rows[s] = {}
    /\ \A c \in rows[s]: carts[c] # None
    /\ DOMAIN seen[s] \subseteq rows[s]
    /\ \A c \in DOMAIN seen[s]: seen[s][c] = carts[c]
    /\ \A c \in DOMAIN seen[s], e \in ToLock(s): c < e

(* A merge, and nothing else, names a source.                               *)
Served(s) == session[s].at # "idle" => (Operation(s) = "merge" <=> Input(s).source # None)

RowLocks == \A s, t \in Slots: s # t => DOMAIN seen[s] \cap DOMAIN seen[t] = {}

(* What the guard admitted stays so, but for the deadline.                  *)
StillOpen(s) == Owned(s) /\ seen[s][Input(s).cart].state = "active"

(* The source of a merge in the draft, and the lines its target gets by     *)
(* what the catalog said when they were written.                            *)
MergeDrafted(s) ==
    LET target == seen[s][Input(s).cart]
        source == seen[s][Input(s).source]
    IN  /\ source.state = "active" /\ source.version < MaxVersion
        /\ draft[s][Input(s).source] = AsMerged(source, Input(s).cart)
        /\ \A v \in Variants: \E fact \in Facts:
               draft[s][Input(s).cart].lines[v] =
                   Lesser(Lesser(MaxQuantity, fact.most), target.lines[v] + source.lines[v])

(* execute() followed the version its client had seen.                      *)
EffectDrafted(s) ==
    LET old == seen[s][Input(s).cart]
        new == draft[s][Input(s).cart]
    IN  /\ StillOpen(s)
        /\ DOMAIN draft[s] = Named(s)
        /\ old.version = Input(s).expected
        /\ new \in Carts
        /\ new = [old EXCEPT !.lines = new.lines, !.version = @ + 1, !.expires = new.expires]
        /\ IF Operation(s) = "merge" THEN MergeDrafted(s) ELSE new.lines = NewLines(s)

(* expire() ended a cart of a request that it then denied.                  *)
EndDrafted(s) ==
    \A c \in DOMAIN draft[s]:
        /\ c \in DOMAIN seen[s]
        /\ seen[s][c].state = "active" /\ seen[s][c].version < MaxVersion
        /\ draft[s][c] = AsExpired(seen[s][c])

DraftOK(s) ==
    /\ session[s].at \notin {"wrote", "committing", "orphan"} => DOMAIN draft[s] = {}
    /\ session[s].at = "started" => StillOpen(s)
    /\ IF session[s].effect THEN EffectDrafted(s) ELSE EndDrafted(s)
    /\ session[s].effect /\ session[s].at \in {"committing", "orphan"} =>
           session[s].reply = Done(draft[s][Input(s).cart].version)

(* What get() has read stands until it ends: it holds the rows, nobody else *)
(* visits its customer, and only get() gives a customer a cart.             *)
VisitsOK ==
    /\ \A w \in Visitors: Found(w) \subseteq CartIds /\ \A c \in Found(w): carts[c] # None
    /\ \A w \in Visitors, o \in Customers: Visits(w, o) => Found(w) = CartsOf(o)
    /\ \A w \in Visitors, s \in Slots: Found(w) \cap DOMAIN seen[s] = {}
    /\ \A w, x \in Visitors: w # x =>
        /\ Found(w) \cap Found(x) = {}
        /\ \A o \in Customers: ~(Visits(w, o) /\ Visits(x, o))

OneOpenCart == \A o \in Customers: \A c, e \in ActiveOf(o): c = e

(* Row locks exclude, what a command read and wrote fits the committed      *)
(* carts, and the committed carts are their history (service.ts,            *)
(* CartService).                                                            *)
CommandsInv ==
    /\ EngineInv
    /\ CartTypeOK
    /\ \A s \in Slots: Served(s) /\ RowsOK(s) /\ DraftOK(s)
    /\ RowLocks
    /\ OneOpenCart
    /\ CartIsItsHistory

(* The strengthening, with the visits of get().                             *)
CartInv == CommandsInv /\ VisitsOK
=============================================================================
