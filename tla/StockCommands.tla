---------------------------- MODULE StockCommands ----------------------------
(***************************************************************************)
(* Manual stock adjustments: InventoryService.adjust run by the command    *)
(* engine (apps/commerce-api/src/inventory/service.ts), with the movement  *)
(* trigger of database/migrations/0003_stock_cart.sql and the staff        *)
(* authorization port of identity/service.ts.  Every action of this module *)
(* is an action of Commands with its domain part conjoined.                *)
(*                                                                         *)
(* A digest is the validated input itself: [position, delta, expected, op].*)
(* reserved_quantity is left out: no code writes it (delta_reserved is     *)
(* constrained to 0), so it keeps the 0 every position is created with.    *)
(***************************************************************************)
EXTENDS Commands, Integers

CONSTANTS
    Staff,          \* staff accounts
    Positions,      \* seeded stock positions
    Closed,         \* those of them whose location is not active and sellable
    OperationKeys,  \* values of operationKey
    KeyStaff,       \* per idempotency scope: the staff account it belongs to
    Openings,       \* the scopes of operation 'inventory.opening'
    AgeingKeys,     \* bound: the scopes whose records are followed past their seven days
    MaxQuantity,    \* largest sellable_on_hand (bigint)
    MaxVersion      \* largest position version (bigint)

Created(v, n) == [code |-> "CREATED", version |-> v, sellable |-> n]
Refusal(code) == [code |-> code, version |-> 0, sellable |-> 0]

ASSUME StockConstants ==
    /\ Closed \subseteq Positions
    /\ MaxQuantity \in Nat
    /\ MaxVersion \in Nat \ {0}
    /\ KeyStaff \in [Keys -> Staff]
    /\ AgeingKeys \subseteq Keys
    /\ \A d \in Digests: d.delta \in Int /\ d.expected \in Nat /\ d.op \in OperationKeys
    /\ \A v \in 1..MaxVersion, n \in 0..MaxQuantity: Created(v, n) \in Successes
    /\ \A code \in {"NOT_FOUND", "PRECONDITION_FAILED", "CONFLICT"}:
        code # None /\ Refusal(code) \in Refusals

VARIABLES
    stock,      \* committed stock_positions: sellable_on_hand and version
    movements,  \* committed stock_movements, with the command that wrote each
    outbox,     \* committed 'stock.position.changed' events, each with its delivery
    audit,      \* committed 'inventory.adjust' audit rows
    grants,     \* per staff account: its inventory.adjust permission
    work        \* per connection: the movement its transaction inserted, or None

stockVars == <<stock, movements, outbox, audit>>
allVars == <<vars, stockVars, grants, work>>

Movements == [position: Positions, version: 2..MaxVersion, delta: Int, after: 0..MaxQuantity,
              op: OperationKeys, actor: Staff, key: Keys]

ASSUME NoneIsNoMovement == None \notin Movements

StockTypeOK ==
    /\ stock \in [Positions -> [sellable: 0..MaxQuantity, version: 1..MaxVersion]]
    /\ movements \subseteq Movements
    /\ outbox \subseteq Positions \X (2..MaxVersion)
    /\ audit \subseteq Staff \X Positions \X (2..MaxVersion)
    /\ grants \in [Staff -> {"held", "revoked", "lapsed"}]
    /\ work \in [Slots -> Movements \cup {None}]

StockInit ==
    /\ Init
    /\ stock = [p \in Positions |-> [sellable |-> 0, version |-> 1]]
    /\ movements = {}
    /\ outbox = {}
    /\ audit = {}
    /\ grants = [a \in Staff |-> "held"]
    /\ work = [s \in Slots |-> None]
-----------------------------------------------------------------------------
(* Mutant of AccessStages: the lock is given back after the grants are read. *)
ReleasedAfterCheck == {"authorized"}

(* The access lock (2002,1) is taken by authorizeStaff and kept to the end. *)
AccessStages == LockedStages \ {"locked"}
AccessLocked == \E s \in Slots: session[s].at \in AccessStages

(* The steps of the engine in which the inventory has no part.              *)
EngineOnly(s) ==
    /\ \/ TakeCommandLock(s)
       \/ ReadRecord(s)
       \/ AnswerFromRecord(s)
       \/ Start(s)
       \/ CommitLost(s)
    /\ UNCHANGED <<stockVars, grants, work>>

ReceiveAdjust(s, k, d) ==
    /\ Receive(s, k, d)
    /\ UNCHANGED <<stockVars, grants, work>>

(* authorizeStaff: the access lock first, then the grants as they are now.  *)
AuthorizeStaff(s) ==
    /\ Authorize(s)
    /\ ~AccessLocked
    /\ grants[KeyStaff[session[s].key]] = "held"
    /\ UNCHANGED <<stockVars, grants, work>>

(* SELECT ... FOR UPDATE and the unique indexes wait for the movements that *)
(* other transactions have inserted and not yet committed.                  *)
NothingPending(s) == \A t \in Slots \ {s}: work[t] = None

Target(s) == stock[session[s].digest.position]
After(s) == Target(s).sellable + session[s].digest.delta

(* Mutant of OpeningAllowed: an opening may come at any time.               *)
AnyOpening(s) == TRUE

(* apply_movement rejects an opening of a position that ever moved.         *)
OpeningAllowed(s) ==
    session[s].key \in Openings => Target(s).version = 1 /\ session[s].digest.delta >= 0

(* Mutant of StaleVersion: only a version from the future is refused.       *)
FutureVersion(s) == Target(s).version < session[s].digest.expected

StaleVersion(s) == Target(s).version # session[s].digest.expected

(* Mutant of OutOfRange: the floor is forgotten.                            *)
OverCeiling(s) == After(s) > MaxQuantity

OutOfRange(s) == After(s) \notin 0..MaxQuantity

(* apply_movement rejects it; no code changes a location.                   *)
LocationUnavailable(s) == session[s].digest.position \in Closed

(* Mutant of OperationUsed: an operation key is unique per idempotency key. *)
OperationUsedWithKey(s) == \E m \in movements: m.op = session[s].digest.op /\ m.key = session[s].key

OperationUsed(s) == \E m \in movements: m.op = session[s].digest.op

(* The error execute() or the database raises for this input, None if none. *)
Rejection(s) ==
    IF session[s].digest.position \notin Positions THEN "NOT_FOUND"
    ELSE IF StaleVersion(s) THEN "PRECONDITION_FAILED"
    ELSE IF OutOfRange(s) \/ LocationUnavailable(s) \/ ~OpeningAllowed(s) \/ OperationUsed(s) THEN "CONFLICT"
    ELSE None

(* The movement is inserted; its trigger sets the position to the balance   *)
(* and the version the movement states.                                     *)
MovementOf(s) ==
    LET d == session[s].digest
    IN  [position |-> d.position, version |-> Target(s).version + 1, delta |-> d.delta,
         after |-> After(s), op |-> d.op,
         actor |-> KeyStaff[session[s].key], key |-> session[s].key]

(* Mutant of Apply: the trigger leaves the position as it is.               *)
ApplyWithoutPosition(m) ==
    /\ movements' = movements \cup {m}
    /\ outbox' = outbox \cup {<<m.position, m.version>>}
    /\ audit' = audit \cup {<<m.actor, m.position, m.version>>}
    /\ UNCHANGED stock

(* What COMMIT makes durable of one adjustment.                             *)
Apply(m) ==
    /\ stock' = [stock EXCEPT ![m.position] = [sellable |-> m.after, version |-> m.version]]
    /\ movements' = movements \cup {m}
    /\ outbox' = outbox \cup {<<m.position, m.version>>}
    /\ audit' = audit \cup {<<m.actor, m.position, m.version>>}

(* Mutant of InsertMovement: the movement is inserted on a connection of    *)
(* its own, outside the transaction of the command.                         *)
InsertOutside(s) ==
    /\ Write(s)
    /\ NothingPending(s)
    /\ Rejection(s) = None
    /\ Target(s).version < MaxVersion
    /\ Apply(MovementOf(s))
    /\ work' = [work EXCEPT ![s] = MovementOf(s)]
    /\ UNCHANGED grants

InsertMovement(s) ==
    /\ Write(s)
    /\ NothingPending(s)
    /\ Rejection(s) = None
    /\ Target(s).version < MaxVersion
    /\ work' = [work EXCEPT ![s] = MovementOf(s)]
    /\ UNCHANGED <<stockVars, grants>>

(* Mutant of FinishAdjust: the audit row and the event are written on a     *)
(* connection of their own, outside the transaction of the command.         *)
FinishOutside(s) ==
    /\ Succeed(s, Created(work[s].version, work[s].after))
    /\ outbox' = outbox \cup {<<work[s].position, work[s].version>>}
    /\ audit' = audit \cup {<<work[s].actor, work[s].position, work[s].version>>}
    /\ UNCHANGED <<stock, movements, grants, work>>

(* Audit row, outbox event and delivery follow; then the result is built.   *)
FinishAdjust(s) ==
    /\ Succeed(s, Created(work[s].version, work[s].after))
    /\ UNCHANGED <<stockVars, grants, work>>

RefuseAdjust(s) ==
    /\ session[s].at = "started"
    /\ NothingPending(s)
    /\ Rejection(s) # None
    /\ Refuse(s, Refusal(Rejection(s)))
    /\ UNCHANGED <<stockVars, grants, work>>

(* ROLLBACK, asked for or done by the server.                               *)
Discard(s) ==
    /\ Fail(s) \/ CommitRefused(s) \/ OrphanAborts(s)
    /\ work' = [work EXCEPT ![s] = None]
    /\ UNCHANGED <<stockVars, grants>>

CommitAdjust(s) ==
    /\ Commit(s) \/ OrphanCommits(s)
    /\ IF work[s] = None THEN UNCHANGED stockVars ELSE Apply(work[s])
    /\ work' = [work EXCEPT ![s] = None]
    /\ UNCHANGED grants

(* IdentityService.access revokes the grant or disables the account, under  *)
(* the access lock; a grant may be given again the same way.                *)
Revoke(a) ==
    /\ ~AccessLocked
    /\ grants[a] = "held"
    /\ grants' = [grants EXCEPT ![a] = "revoked"]
    /\ UNCHANGED <<vars, stockVars, work>>

Grant(a) ==
    /\ ~AccessLocked
    /\ grants[a] # "held"
    /\ grants' = [grants EXCEPT ![a] = "held"]
    /\ UNCHANGED <<vars, stockVars, work>>

(* A timed grant passes its ends_at: the clock takes no lock.               *)
Lapse(a) ==
    /\ grants[a] = "held"
    /\ grants' = [grants EXCEPT ![a] = "lapsed"]
    /\ UNCHANGED <<vars, stockVars, work>>

Ageing(k) ==
    /\ ExpireRecord(k)
    /\ UNCHANGED <<stockVars, grants, work>>

StockStep(s) ==
    \/ EngineOnly(s)
    \/ AuthorizeStaff(s)
    \/ InsertMovement(s)
    \/ FinishAdjust(s)
    \/ RefuseAdjust(s)
    \/ Discard(s)
    \/ CommitAdjust(s)

StockNext ==
    \/ \E s \in Slots: StockStep(s)
    \/ \E s \in Slots, k \in Keys, d \in Digests: ReceiveAdjust(s, k, d)
    \/ \E a \in Staff: Revoke(a) \/ Grant(a) \/ Lapse(a)
    \/ \E k \in AgeingKeys: Ageing(k)

StockSpec == StockInit /\ [][StockNext]_allVars
-----------------------------------------------------------------------------
(* The balance of a position is the ledger's: its movements carry the       *)
(* versions 2 up to the current one, once each, every balance is the one    *)
(* before it plus the delta, and the last is the balance shown.  However    *)
(* openings and adjustments race, an opening is the first of them.          *)
MovementsOf(p) == {m \in movements: m.position = p}

LedgerExplainsStock ==
    \A p \in Positions:
        /\ \A m, n \in MovementsOf(p): m.version = n.version => m = n
        /\ \A m \in MovementsOf(p): m.version <= stock[p].version
        /\ \A m \in MovementsOf(p):
               IF m.version = 2 THEN m.after = m.delta
               ELSE \E n \in MovementsOf(p): n.version + 1 = m.version /\ m.after = n.after + m.delta
        /\ IF stock[p].version = 1 THEN stock[p].sellable = 0
           ELSE \E m \in MovementsOf(p): m.version = stock[p].version /\ m.after = stock[p].sellable
        /\ \A m \in MovementsOf(p): m.key \in Openings => m.version = 2 /\ m.after >= 0

(* An operationKey moves stock once, even when it arrives again under       *)
(* another idempotency key, from another member of staff; and a command's   *)
(* committed effect is its movement: none is lost when COMMIT is not        *)
(* answered, none appears twice when the command is sent again.             *)
OneMovementPerOperation ==
    /\ \A m, n \in movements: m.op = n.op => m = n
    /\ \A k \in Keys:
        /\ applied[k] = 1 <=> \E m \in movements: m.key = k
        /\ \A m, n \in movements: m.key = k /\ n.key = k => m = n

(* What a client was told it created is in the ledger as it was told, for   *)
(* the input it sent and the version it had seen, replays included.         *)
InTheLedger(k, input, result) ==
    result.code = "CREATED" =>
        \E m \in movements:
            /\ m.key = k
            /\ m.position = input.position
            /\ m.delta = input.delta
            /\ m.op = input.op
            /\ m.version = input.expected + 1
            /\ m.version = result.version
            /\ m.after = result.sellable

ReceiptsAreInTheLedger == \A k \in Keys: \A a \in answers[k]: InTheLedger(k, a[1], a[2])

(* A consumer of the outbox misses no version of a position and sees none   *)
(* that was rolled back; each version was made by one audited actor.        *)
EvidenceMatchesVersions ==
    /\ outbox = {e \in Positions \X (2..MaxVersion): e[2] <= stock[e[1]].version}
    /\ {<<a[2], a[3]>>: a \in audit} = outbox
    /\ \A a, b \in audit: a[2] = b[2] /\ a[3] = b[3] => a = b

(* Revocation cannot be overtaken: no movement is committed by a member of  *)
(* staff whose grant was revoked before (a grant that merely lapses may be  *)
(* outlived by a command already authorized).                               *)
RevokedStaffMoveNothing ==
    [][\A m \in movements' \ movements: grants[m.actor] # "revoked"]_movements

(* The statements of a command, spread over its transaction, amount to one  *)
(* step at its COMMIT: the version, the range and the operation key were    *)
(* checked before, and hold there (Ledger).  A client that is told of an    *)
(* entry had seen the version before it.                                    *)
Entry(m) ==
    [position |-> m.position, seen |-> m.version - 1, version |-> m.version, delta |-> m.delta,
     after |-> m.after, op |-> m.op]

Receipt(input, result) ==
    [position |-> input.position, seen |-> input.expected, version |-> result.version,
     delta |-> input.delta, after |-> result.sellable, op |-> input.op]

Receipts == {Receipt(a[1], a[2]): a \in {b \in UNION {answers[k]: k \in Keys}: b[2].code = "CREATED"}}

Book == INSTANCE Ledger WITH
            balance <- stock, entries <- {Entry(m): m \in movements}, receipts <- Receipts, Requests <- Digests

BookSpec == Book!Spec
-----------------------------------------------------------------------------
(* The inductive invariant behind the properties above.                     *)
AccessExcludes ==
    \A s, t \in Slots: session[s].at \in AccessStages /\ session[t].at \in AccessStages => s = t

(* What a transaction has inserted is what it would insert now, it may      *)
(* still, and what it is about to answer says so.                           *)
WorkOK(s) ==
    /\ session[s].effect <=> work[s] # None
    /\ work[s] # None => work[s] = MovementOf(s) /\ Rejection(s) = None
    /\ session[s].at \in AccessStages => grants[KeyStaff[session[s].key]] # "revoked"
    /\ session[s].at \in {"committing", "orphan"} /\ session[s].row # None =>
        IF work[s] = None THEN session[s].reply.code # "CREATED"
        ELSE session[s].reply = Created(work[s].version, work[s].after)

RecordsInTheLedger ==
    \A k \in Keys: records[k] # None => InTheLedger(k, records[k].digest, records[k].result)

(* The access lock admits one command at a time, so nothing a transaction   *)
(* has read is stale when it commits: the ledger, the evidence, the stored  *)
(* outcomes and the effects of the engine stay in step (service.ts:62-76,   *)
(* 0003_stock_cart.sql:37-47).                                             *)
StockInv ==
    /\ EngineInv
    /\ StockTypeOK
    /\ AccessExcludes
    /\ \A s \in Slots: WorkOK(s)
    /\ RecordsInTheLedger
    /\ LedgerExplainsStock
    /\ OneMovementPerOperation
    /\ EvidenceMatchesVersions
=============================================================================
