------------------------------ MODULE Addresses ------------------------------
(***************************************************************************)
(* The profile and the address book of a customer: IdentityService.profile *)
(* and .addresses of apps/commerce-api/src/identity/service.ts, statement  *)
(* by statement, over iam.customers and iam.customer_addresses.            *)
(*                                                                         *)
(* The partial unique indexes on the defaults are left out on purpose: the *)
(* invariant says that they never have anything to refuse.  Texts are left *)
(* out: a change of a row shows as its version.                            *)
(***************************************************************************)
EXTENDS Integers, FiniteSets

CONSTANTS
    Slots,          \* connections of the pool
    Customers,      \* verified customer identities
    AddressIds,
    Bodies,         \* bound: the flags a request sets and resets: pairs of sets
    MaxLive,        \* 10: addresses of a customer that are not archived
    MaxVersion,     \* bound on versions
    None            \* no row, no target

Kinds == {"shipping", "billing"}

ASSUME AddressConstants ==
    /\ \A b \in Bodies: b[1] \subseteq Kinds /\ b[2] \subseteq Kinds /\ b[1] \cap b[2] = {}
    /\ MaxLive \in Nat /\ MaxVersion \in Nat \ {0}
    /\ None \notin AddressIds \cup Customers

VARIABLES
    customers,  \* committed customer rows: status and version, None before the first request
    addresses,  \* committed address rows, None where there is none
    session,    \* per connection: its stage, customer and request
    profile,    \* per connection: the customer row as it has read or written it
    draft       \* per connection: the address rows its transaction has written

vars == <<customers, addresses, session, profile, draft>>

Rows == [owner: Customers, live: BOOLEAN, version: 1..MaxVersion, defaults: SUBSET Kinds]
CustomerRows == [status: {"active", "blocked"}, version: 1..MaxVersion]

(* A PATCH may set and reset default flags, a POST may set them.            *)
Requests ==
    LET Sent(method, target, expected, body) ==
            [method |-> method, target |-> target, expected |-> expected,
             takes |-> body[1], drops |-> body[2]]
    IN  {Sent("read", None, 0, <<{}, {}>>)}
        \cup {Sent("profile", None, v, <<{}, {}>>): v \in 1..MaxVersion}
        \cup {Sent("create", None, 0, <<b[1], {}>>): b \in Bodies}
        \cup {Sent("patch", a, v, b): a \in AddressIds, v \in 1..MaxVersion, b \in Bodies}
        \cup {Sent("delete", a, v, <<{}, {}>>): a \in AddressIds, v \in 1..MaxVersion}

Nothing == [a \in {} |-> None]
Idle == [at |-> "idle", owner |-> None, request |-> None, left |-> {}]
Sessions == [at: {"idle", "begun", "locked", "checked", "wrote"}, owner: Customers \cup {None},
             request: Requests \cup {None}, left: SUBSET Kinds]
Drafts == UNION {[ids -> Rows]: ids \in SUBSET AddressIds}

ASSUME NoneIsNoRow == None \notin Rows /\ None \notin CustomerRows

AddressTypeOK ==
    /\ customers \in [Customers -> CustomerRows \cup {None}]
    /\ addresses \in [AddressIds -> Rows \cup {None}]
    /\ session \in [Slots -> Sessions]
    /\ profile \in [Slots -> CustomerRows \cup {None}]
    /\ draft \in [Slots -> Drafts]

Init ==
    /\ customers = [o \in Customers |-> None]
    /\ addresses = [a \in AddressIds |-> None]
    /\ session = [s \in Slots |-> Idle]
    /\ profile = [s \in Slots |-> None]
    /\ draft = [s \in Slots |-> Nothing]
-----------------------------------------------------------------------------
Request(s) == session[s].request
Owner(s) == session[s].owner

(* What a statement of the transaction sees: READ COMMITTED and its own.    *)
Sees(s) == [a \in AddressIds |-> IF a \in DOMAIN draft[s] THEN draft[s][a] ELSE addresses[a]]
Book(rows, o) == {a \in AddressIds: rows[a] # None /\ rows[a].owner = o /\ rows[a].live}
LiveOf(s) == Book(Sees(s), Owner(s))

HoldsCustomer(s, o) == session[s].at \in {"locked", "checked", "wrote"} /\ session[s].owner = o
HoldsRow(s, a) ==
    \/ a \in DOMAIN draft[s]
    \/ session[s].at \in {"checked", "wrote"} /\ session[s].request.target = a

Free(s, rows) == \A t \in Slots \ {s}: \A a \in rows: ~HoldsRow(t, a)

Move(s, stage) == session' = [session EXCEPT ![s].at = stage]
Writing(s, rows) == draft' = [draft EXCEPT ![s] = [a \in DOMAIN @ \cup DOMAIN rows |->
                        IF a \in DOMAIN rows THEN rows[a] ELSE @[a]]]

Begin(s, o, r) ==
    /\ session[s] = Idle
    /\ session' = [session EXCEPT ![s] = [at |-> "begun", owner |-> o, request |-> r, left |-> r.takes]]
    /\ UNCHANGED <<customers, addresses, profile, draft>>

(* customer(): the first request inserts the row.                           *)
RowOf(o) == IF customers[o] = None THEN [status |-> "active", version |-> 1] ELSE customers[o]

(* Mutant of TakeCustomer: the row is read without FOR UPDATE.              *)
ReadCustomer(s) ==
    /\ session[s].at = "begun"
    /\ customers[Owner(s)] = None => \A t \in Slots: ~HoldsCustomer(t, Owner(s))
    /\ RowOf(Owner(s)).status = "active"
    /\ profile' = [profile EXCEPT ![s] = RowOf(Owner(s))]
    /\ Move(s, "locked")
    /\ UNCHANGED <<customers, addresses, draft>>

(* An insert waits for another one under way, the row that is there is      *)
(* locked, and an account that is not active is refused.                    *)
TakeCustomer(s) ==
    /\ session[s].at = "begun"
    /\ \A t \in Slots: ~HoldsCustomer(t, Owner(s))
    /\ RowOf(Owner(s)).status = "active"
    /\ profile' = [profile EXCEPT ![s] = RowOf(Owner(s))]
    /\ Move(s, "locked")
    /\ UNCHANGED <<customers, addresses, draft>>

(* GET of the profile or of the list: nothing more is written.              *)
Read(s) ==
    /\ session[s].at = "locked"
    /\ Request(s).method = "read"
    /\ Move(s, "wrote")
    /\ UNCHANGED <<customers, addresses, profile, draft>>

EditProfile(s) ==
    /\ session[s].at = "locked"
    /\ Request(s).method = "profile"
    /\ profile[s].version = Request(s).expected
    /\ profile[s].version < MaxVersion
    /\ profile' = [profile EXCEPT ![s].version = @ + 1]
    /\ Move(s, "wrote")
    /\ UNCHANGED <<customers, addresses, draft>>

(* PATCH and DELETE lock their row: another customer's, an archived one and *)
(* one that has moved on are refused.                                       *)
CheckTarget(s) ==
    /\ session[s].at = "locked"
    /\ Request(s).target \in LiveOf(s)
    /\ Free(s, {Request(s).target})
    /\ addresses[Request(s).target].version = Request(s).expected
    /\ Move(s, "checked")
    /\ UNCHANGED <<customers, addresses, profile, draft>>

CheckCap(s) ==
    /\ session[s].at = "locked"
    /\ Request(s).method = "create"
    /\ Cardinality(LiveOf(s)) < MaxLive
    /\ Move(s, "checked")
    /\ UNCHANGED <<customers, addresses, profile, draft>>

(* Mutant of Released: the address that loses a default keeps its version.  *)
ReleasedQuietly(row, kind) == [row EXCEPT !.defaults = @ \ {kind}]

Released(row, kind) == [row EXCEPT !.defaults = @ \ {kind}, !.version = @ + 1]

(* One UPDATE per default the request takes, shipping before billing, over  *)
(* the customer's other addresses.                                          *)
Release(s) ==
    /\ session[s].at = "checked"
    /\ session[s].left # {}
    /\ LET kind == IF "shipping" \in session[s].left THEN "shipping" ELSE "billing"
           others == {a \in LiveOf(s) \ {Request(s).target}: kind \in Sees(s)[a].defaults}
       IN  /\ Free(s, others)
           /\ \A a \in others: Sees(s)[a].version < MaxVersion
           /\ Writing(s, [a \in others |-> Released(Sees(s)[a], kind)])
           /\ session' = [session EXCEPT ![s].left = @ \ {kind}]
    /\ UNCHANGED <<customers, addresses, profile>>

Ready(s) == session[s].at = "checked" /\ session[s].left = {}

(* A random UUID: any id that no transaction has used.                      *)
Create(s, a) ==
    /\ Ready(s)
    /\ Request(s).method = "create"
    /\ addresses[a] = None
    /\ \A t \in Slots: a \notin DOMAIN draft[t]
    /\ Writing(s, [b \in {a} |-> [owner |-> Owner(s), live |-> TRUE, version |-> 1,
                                  defaults |-> Request(s).takes]])
    /\ Move(s, "wrote")
    /\ UNCHANGED <<customers, addresses, profile>>

(* Mutant of Changed: an archived address stays a default.                  *)
ArchivedAsItIs(row, r) ==
    IF r.method = "delete" THEN [row EXCEPT !.live = FALSE, !.version = @ + 1]
    ELSE [row EXCEPT !.version = @ + 1, !.defaults = (@ \cup r.takes) \ r.drops]

Changed(row, r) ==
    IF r.method = "delete" THEN [row EXCEPT !.live = FALSE, !.version = @ + 1, !.defaults = {}]
    ELSE [row EXCEPT !.version = @ + 1, !.defaults = (@ \cup r.takes) \ r.drops]

Change(s) ==
    /\ Ready(s)
    /\ Request(s).method \in {"patch", "delete"}
    /\ Sees(s)[Request(s).target].version < MaxVersion
    /\ Writing(s, [a \in {Request(s).target} |-> Changed(Sees(s)[a], Request(s))])
    /\ Move(s, "wrote")
    /\ UNCHANGED <<customers, addresses, profile>>

End(s) ==
    /\ session' = [session EXCEPT ![s] = Idle]
    /\ profile' = [profile EXCEPT ![s] = None]
    /\ draft' = [draft EXCEPT ![s] = Nothing]

Commit(s) ==
    /\ session[s].at = "wrote"
    /\ customers' = [customers EXCEPT ![Owner(s)] = profile[s]]
    /\ addresses' = Sees(s)
    /\ End(s)

(* A refusal, any error, a timeout or a lost connection before COMMIT.      *)
Rollback(s) ==
    /\ session[s] # Idle
    /\ End(s)
    /\ UNCHANGED <<customers, addresses>>

(* An account is blocked outside this program, under the lock of its row.   *)
Block(o) ==
    /\ customers[o] # None /\ customers[o].status = "active"
    /\ \A s \in Slots: ~HoldsCustomer(s, o)
    /\ customers' = [customers EXCEPT ![o].status = "blocked"]
    /\ UNCHANGED <<addresses, session, profile, draft>>

Next ==
    \/ \E s \in Slots:
        \/ \E o \in Customers, r \in Requests: Begin(s, o, r)
        \/ TakeCustomer(s)
        \/ Read(s)
        \/ EditProfile(s)
        \/ CheckTarget(s)
        \/ CheckCap(s)
        \/ Release(s)
        \/ \E a \in AddressIds: Create(s, a)
        \/ Change(s)
        \/ Commit(s)
        \/ Rollback(s)
    \/ \E o \in Customers: Block(o)

Spec == Init /\ [][Next]_vars
-----------------------------------------------------------------------------
(* However the requests of a customer race, the book never holds more live  *)
(* addresses than allowed, nor two defaults of a kind.                      *)
BookInOrder ==
    \A o \in Customers:
        LET live == Book(addresses, o)
        IN  /\ Cardinality(live) <= MaxLive
            /\ \A k \in Kinds: Cardinality({a \in live: k \in addresses[a].defaults}) <= 1

(* If-Match means what it says, also for the rows a request changes on the  *)
(* side: a row that changes gets a later version, an archived one never     *)
(* changes, a blocked customer's neither, and a PATCH or DELETE replaces    *)
(* the very version its client had seen.                                    *)
EditsReplaceWhatWasSeen ==
    [][/\ \A a \in AddressIds:
              addresses[a] # None /\ addresses'[a] # addresses[a] =>
                  /\ addresses[a].live
                  /\ addresses'[a].version > addresses[a].version
                  /\ customers[addresses[a].owner].status = "active"
       /\ \A s \in Slots:
              session[s].at = "wrote" /\ addresses' # addresses /\ session'[s] = Idle
              /\ Request(s).method \in {"patch", "delete"} =>
                  addresses[Request(s).target].version = Request(s).expected]_<<customers, addresses>>
-----------------------------------------------------------------------------
(* The inductive invariant behind the properties above.                     *)
Orderly(rows, o) ==
    /\ IsFiniteSet(Book(rows, o)) /\ Cardinality(Book(rows, o)) <= MaxLive
    /\ \A k \in Kinds: \A a, b \in Book(rows, o): k \in rows[a].defaults \cap rows[b].defaults => a = b

Held(s) == session[s].at \in {"locked", "checked", "wrote"}

(* What a transaction has written are later versions of its own customer's  *)
(* rows, or new ones, and nobody else writes those.                         *)
DraftOK(s) ==
    /\ session[s].at \in {"idle", "begun", "locked"} => DOMAIN draft[s] = {}
    /\ \A t \in Slots \ {s}: DOMAIN draft[s] \cap DOMAIN draft[t] = {}
    /\ \A a \in DOMAIN draft[s]:
        /\ draft[s][a].owner = Owner(s)
        /\ ~draft[s][a].live => draft[s][a].defaults = {}
        /\ addresses[a] # None =>
            addresses[a].owner = Owner(s) /\ addresses[a].live /\ draft[s][a].version > addresses[a].version

(* What it has read, its customer, its target and the place for an address, *)
(* is still so.                                                             *)
ChecksHold(s) ==
    LET target == Request(s).target
    IN  /\ session[s].at # "idle" => Request(s) \in Requests /\ Owner(s) \in Customers
        /\ session[s].at \in {"begun", "locked"} => session[s].left = Request(s).takes
        /\ Held(s) =>
            /\ profile[s] # None /\ profile[s].status = "active"
            /\ customers[Owner(s)] # None => customers[Owner(s)].status = "active"
        /\ session[s].at \in {"checked", "wrote"} =>
            /\ Orderly(Sees(s), Owner(s))
            /\ Request(s).method \in {"patch", "delete"} =>
                target \in Book(addresses, Owner(s)) /\ addresses[target].version = Request(s).expected
        /\ session[s].at = "checked" =>
            /\ Request(s).method \in {"create", "patch", "delete"}
            /\ Request(s).method = "create" => Cardinality(LiveOf(s)) < MaxLive
            /\ target \notin DOMAIN draft[s]
            /\ \A k \in Request(s).takes \ session[s].left: \A a \in LiveOf(s) \ {target}:
                   k \notin Sees(s)[a].defaults

(* The lock of the customer row admits one transaction per customer: what   *)
(* it has counted, checked and released stays so until it commits           *)
(* (identity/service.ts:39-47, 73-93).                                     *)
AddressInv ==
    /\ AddressTypeOK
    /\ \A a \in AddressIds: addresses[a] # None =>
        /\ customers[addresses[a].owner] # None
        /\ ~addresses[a].live => addresses[a].defaults = {}
    /\ \A o \in Customers: Orderly(addresses, o)
    /\ \A s, t \in Slots: Held(s) /\ Held(t) /\ Owner(s) = Owner(t) => s = t
    /\ \A s \in Slots: DraftOK(s) /\ ChecksHold(s)
=============================================================================
