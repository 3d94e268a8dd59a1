# TLA+ models of the commerce platform

Specifications of the state machines behind the commerce API of this
repository, checked with TLC on small instances, and proofs, checked with
TLAPS, that hold for every instance: of the command engine, of stock, staff
access, carts, the catalog and its readers, address book, shutdown and
migrations.

The program is an HTTP API (`apps/commerce-api`) over one PostgreSQL database,
on a small platform library (`packages/platform`). It keeps almost no state of
its own: what can go wrong goes wrong between transactions, at COMMIT, at the
clock of the database, and at shutdown. The models therefore follow the
*statements of transactions*: a variable holds what is committed, a session
holds what a transaction has written and not committed, and an action is a
statement, or several that no other transaction can come between.

## 1. Inventory

| Part | Code | State | Operations | What is hard | What makes it correct |
| --- | --- | --- | --- | --- | --- |
| Command engine | `platform/src/commands.ts`, `database.ts`, `idempotency_records` in `0002_catalog.sql` | one record per idempotency scope | `Commands.run`: lock, authorize, read record, guard, savepoint, execute, complete, COMMIT | equal keys at once, lost COMMIT, ROLLBACK in answer to COMMIT, failure inside `execute`, expired records | one effect per key; an answer is what is stored; a refusal keeps nothing |
| Transaction boundary | `database.ts` | pool, `stopping` flag | `transaction`, `ready`, `stop`, `close` | unknown commits, pool limits, closing | never retried inside; client released or destroyed |
| Stock | `inventory/service.ts`, `0003_stock_cart.sql` | positions, movements | `adjust`, opening | races on a version, reuse of an operation key, revocation | ledger explains balance; evidence complete |
| Staff access | `identity/service.ts`, `bootstrap.ts`, `0001_identity.sql` | accounts, assignments, audit | create, grant, revoke, status, bootstrap | concurrent revocation, timed grants | somebody can always manage access; nobody acts after revocation |
| Carts | `cart/service.ts`, `0003_stock_cart.sql` | carts, lines | create, get-or-create, add, change, remove, clear, merge | expiry at any statement, two carts in one lock order, changing catalog | no lost lines, one active cart, ended carts stay |
| Catalog | `catalog/service.ts`, `0002_catalog.sql` | products, variants, prices, media, outbox | draft edits, variants, prices, media, publish, unpublish, archive; reads | clock of a check against COMMIT, long command sequences | variants follow product, public products complete, price facts kept |
| Profile, addresses | `identity/service.ts` | customers, addresses | profile, create, patch, delete | defaults and cap under races | one default, at most ten |
| Outbox, audit | written by stock, catalog, access | events, deliveries, audit rows | insert only: there is no dispatcher | completeness and order | one event per version |
| Shutdown, work | `lifecycle.ts`, `foundation.ts`, `work.ts`, `http.ts`, `database.ts` | three flags, pending jobs, pool, request records | signal, hooks, drain, closing of telemetry, deadline | work under way, work that hangs, a connection that closes first | always ends; a clean exit cuts nothing off; one record per request |
| Migrations, readiness | `migrations.ts`, `scripts/migrate.cjs`, `database.ts` | migration history, schema | `applyMigrations`, `ready` | two runs at once, a crash or a lost COMMIT, processes of another revision | each migration once and whole, readiness exact |
| HTTP edge, validation, authentication, telemetry, configuration | controllers, `http.ts`, `validation.ts`, ... | none but what shutdown has | parsing, formatting | none of the kind modelled here | |

The parts meet in four places. Every staff command of catalog and stock and
every cart command runs inside the engine, which runs inside `transaction`.
Staff commands and access changes exclude each other with the advisory lock
(2002,1). A cart reads the catalog (`observe`) without a lock in common with
its writers, and its owner's row lock is the one profile writers take. Shutdown
sets a flag that `transaction`, the HTTP middleware and `WorkTracker` read, then
waits for what they admitted before.

The hazards of each part, at their lines, are listed in `PROJECT.json` with the
properties that cover them.

## 2. Modules

| Module | Models | Composition |
| --- | --- | --- |
| `OnceOnly` | abstract: a key is resolved once, then only repeated | |
| `Commands` | the engine, statement by statement | refines `OnceOnly` (`OnceSpec`) |
| `CommandsRetry` | the engine with clients that repeat until answered, with fairness | extends `Commands` |
| `Ledger` | abstract: a position is moved in one step, on the version its client had seen | |
| `StockCommands` | stock adjustments with staff authorization | extends `Commands`; each action conjoins an engine action with its domain part; refines `Ledger` (`BookSpec`) |
| `Office` | abstract: members in office decide about others, one decision at a time | |
| `Access` | access administration and bootstrap | on its own: no idempotency keys; refines `Office` (`OfficeSpec`) |
| `CartCommands` | carts, expiry, merge | extends `Commands`, as `StockCommands` |
| `Catalog` | products, variants, prices, publication | on its own; see below |
| `CatalogReads` | the public page, the view of a cart, the list of products | extends `Catalog`: each of its steps is one of the catalog or one of a reader |
| `Addresses` | profile and address book of a customer | on its own |
| `Shutdown` | stopping a process | on its own |
| `Migrations` | migration runs and readiness | on its own |
| `StockCommandsMC`, `AccessMC`, `CartCommandsMC`, `CartMergeMC`, `CatalogMC`, `CatalogReadsMC`, `AddressesMC`, `MigrationsMC` | constant values, scenarios and symmetry for TLC | extend their model |
| `CommandsProofs`, `StockProofs`, `AccessProofs`, `CartProofs`, `CatalogProofs`, `AddressesProofs`, `ShutdownProofs`, `MigrationsProofs` | TLAPS proofs | extend their model and `TLAPS`; `StockProofs` and `CartProofs` extend `CommandsProofs`; `CatalogProofs` is about `Catalog` and `CatalogReads` |

**Commands.** A slot is a pooled connection; `session[s]` is the transaction it
serves: its stage, the key and digest of the request, the record it read, the
record and the effect it wrote, the reply it will give. `records`, `expired`
are the committed table; `applied` and `answers` are history, of committed
effects and of results handed to callers. `Receive` to `Start` follow
commands.ts 26-44; `Write`, `Succeed`, `Refuse` are `execute` under its
savepoint; `Fail` is any failure before COMMIT. COMMIT has four ends:
`Commit`, `CommitRefused` (answered by ROLLBACK), and `CommitLost` followed by
`OrphanCommits` or `OrphanAborts`. A retry is another `Receive`. Digests do not
collide. The 64-bit hash in `commandLock` is taken as exact: a collision makes
two scopes wait for each other, which only removes behaviours.

**StockCommands.** `work[s]` is the movement inserted and not committed;
`stock`, `movements`, `outbox`, `audit` are committed. The trigger's check and
its update of the position belong to the insertion (`Rejection`, `Apply`);
`Closed` are the positions whose location is not active or not sellable. Audit
row, event and delivery are written by later statements (`FinishAdjust`) and
come to stand with the movement by COMMIT alone; the mutant `FinishOutside`
writes them on a connection of their own.
`grants` follows revocation (under the access lock) and the lapse of a timed
grant (under none). `Book` maps a movement to an entry of `Ledger` and an
answer to a receipt; the engine, the locks and the staff are not seen there.

**Access.** A session drafts one account and its assignments; audit rows carry
actor, target and version, are written by a statement of the same transaction
and come to stand with it (the mutant `AuditOutside` writes them on a connection
of their own). `now` decides which timed grants count. The rule at
the heart is line 153: after a change some *permanent, active* manager remains.
`Administration` maps an account to its standing (permanent, acting, out) and
the audit rows to decisions.

**CartCommands.** Guards lock carts in id order (`LockCart`), observe expiry at
their own instant (`Past`), and a denial commits that expiry (`Deny`). Line
writes look at the deadline and at the cap of lines, as the trigger
`guard_cart_line` does, and the UPDATE that moves the deadline reads the clock
once more (`WriteCart`). `CatalogChanges` lets a variant's cap and eligibility
change at any time; `Unknown` are variant ids the catalog has no row of. `get`
and get-or-create are transactions of their own on further connections
(`Visitors`), in two steps: `BeginGet` takes the customer row and the cart,
`EndGet`, `GetOrCreate` or `GetFails` ends, expires or creates. Between
the two other connections run and time passes. The unique index
`cart_active_customer` is left out, to show that the row lock alone is enough:
the mutant `BeginGetUnlocked` goes without it and leaves two active carts.
`BeginGet` takes both rows at once. The code holds the first while it waits for
the second, but nobody can change a customer's cart meanwhile, and whoever holds
the cart is past its own customer row and waits for no other customer row: such
a wait loses no behaviour and closes no circle, and `NoLockCycle` speaks of
commands.

**Catalog.** The access lock admits one catalog command at a time and every
command reads the clock at most once, so a command is one action up to its
COMMIT: `tx` holds the row it will install, and `Tick`, `ReferencesChange` may
come before `Commit` or `Abort`. That two products never share a slug is
the UNIQUE constraint, `SlugFree`; the run has one product. `seen` is the
If-Match version. The engine is not conjoined: a replay, a mismatch or a
refusal changes no product. `supported` stands for the reference data
(categories, brand, attribute values, approved image), which only the migrator
role writes and which no lock protects; `filed` says that a product names a
category and a brand.

**CatalogReads.** A reader's statement is an action, and the catalog's commands
come between them. The public page reads what its first query saw (REPEATABLE
READ): `View` is that snapshot. The view of a cart, whose lines may be of any
products, reads its clock, the rows of all lines, and then for each product, in
the order of ids (`todo`), its row and the statements of `eligible` one after
the other in READ COMMITTED: `View` is what is committed, and `Judged` takes out
the lines of a product that is denied. The list fetches one row more than a page
holds, under the access lock, and its cursor carries the last identifier and the
filter. `truths`, `since` and `steady` are history: what was so at some moment
of the read. The properties say what the code gives and no more: a cart may miss
a line that was sold again while it was read, and its lines are those of one
moment, which need not be that of the answer.

**Addresses.** The customer row is locked by the first statement and held to the
end (`TakeCustomer`); the checks, the UPDATE per default flag and the write
follow one by one on what the transaction sees (`Sees`: committed rows and its
own). The unique indexes on the defaults are left out, to show that the lock
alone is enough. An operator may block an account at any time.

**Shutdown.** `phase` follows `app.close()`: signal, destroy hooks, closing of
the server, `drain`, `pool.end`, the closing of telemetry, and `process.exit(1)`
of the deadline at any of them. `app.close()` may be resolved or rejected
("closed", "failed", `CloseSettles`): either way the deadline is cleared, and
the process ends of itself (`Exit`), with code 0 or 1. A client of the pool that
is still being opened (`Connect`) is given to its waiter even while the pool is
ending, and `pool.end()` waits for it. Requests move from admission through the
pool to their end; `answer` is what the handler made of a request, `log` the
records http.ts writes of it, at its response or when its connection closes
before. A client may hang up, and then the server does not wait for its handler.
Nest and `pg` are modelled from how they are used.

**Migrations.** A migration stands for its hash and its timestamp. `run[r]` is
where a run of `scripts/migrate.cjs` is, `pending[r]` what its transaction has
applied; `table`, `history`, `objects` are committed. The lock (2001,2) is one
of the session and outlives a lost client (`Holds` counts orphans). Drizzle's
`migrate` is external: it creates its table outside any transaction
(`Prepare`) and compares timestamps with the newest row only (`Apply`), which
is why `applyMigrations` compares every hash first (`Mismatch`). A process
asks for readiness in two queries (`ReadHistory`, `CountSchemas`) that another
revision's run may come between.

## 3. Runs

| Run | Question | Bounds, and why they suffice |
| --- | --- | --- |
| `commands` | one effect per key; `OnceOnly` implemented (which says that outcomes never change); `EngineInv` (of which `TypeOK` is the first conjunct) true | 2 connections, 2 keys, 2 inputs, 2 successes and a refusal: a conflict, a mismatch and a race need two of each, a third connection adds no new kind of wait |
| `commands_retry` | does a persistent client get its result | 2 keys on 2 connections, 2 faults: a lost COMMIT and one more failure; after the last, fairness must lead to an answer |
| `stock` | balance, ledger, receipts, evidence, revocation, openings; `Ledger` implemented | 2 staff, 1 position (and a closed one), quantities 0..3, versions to 4, in three scenarios. "race": overdraft, version race, an operation key reused under another idempotency key. "opening": an opening scope against an adjustment scope, both with records that pass their seven days; one input exceeds the width of the quantity. "refused": inputs that name no position, or one whose location is closed |
| `access` | lock-out, audit; `Office` implemented (which says that nobody acts after revocation, or on themselves) | 2 identities, one managing role, times 0..1, versions to 3: a grant can be in force, ended or permanent, and each can revoke or disable the other |
| `cart_edits` | lost updates, limits, deadline and catalog changes at any statement; `CartInv` true | one guest cart, a scope that adds and one that adds, changes, removes or clears (each in turn: `operationOf`), 2 variants and one the catalog does not know; lines of one unit and carts of one line, so that a second add exceeds the one limit or the other, times 0..1 with a lifetime of 1, so that the deadline may pass at any statement; one variant is withdrawn and sold again at will |
| `cart_merge` | merge against edits and expiry, double claims, one active cart, lock cycles | three scenarios. "edits": a guest cart and a customer cart, a line added to either, merged as seen before or after those adds, and both may expire; lines of 2 and of 1 unit meet a limit of 3 or of 2, so that sums are cut. "claims": two customers merge one guest cart, three carts in any id order, so that two merges can want the same carts in opposite orders. "visits": one customer asks for a cart over two connections at once while it expires, and adds to it or merges into it over others |
| `catalog` | variants, publication, events, public links, prices | 1 product, 2 variants, 2 slugs, times 0..2, 7 versions: the shortest way to publish takes 5, which leaves taking back and renaming; prices leave gaps, touch and nest |
| `catalog_history` | a *violation*: see below | 1 variant, times 0..3 |
| `catalog_reads` | is a page whole, a cart's view true, a list complete | three scenarios. "reads": a product published at version 8 with two variants, up to three commands while it is read, times 0..1, a price that ends and one that does not. "baskets": two published products of one variant each and a cart with a line of both, one command on either while it is read. "lists": three products created and archived while they are listed one per page (`Limit` 1), so that every page boundary is crossed |
| `migrations` | one reviewed history, exact readiness, runs that end | runs of three revisions (one ahead of the other, one from a branch that renamed the first migration), processes of two, 2 faults: a death or a lost COMMIT in one attempt and in the next |
| `addresses` | cap, defaults, If-Match, blocked accounts | 1 customer (rows of different customers share neither lock nor statement), 3 addresses of which 2 may be live, versions to 3, bodies that take one default and give back the other, or take both |
| `shutdown` | ends always; clean exit cuts nothing off; one record per request | 2 requests, 2 jobs, a pool of 1, so that one request waits for the other |

Deadlock checking is off where the system may rest: bounded clocks, versions
and retries end, and a stopped process does nothing.

Each property of a passing run has a *mutant* in its module, marked `Mutant
of`: a plausible bug in one definition (a dropped guard, a lost lock, a swapped
argument) under which TLC finds the property violated. They show that the
bounds are large enough for the property to fail.

**What `catalog_history` shows.** `guard_price_history` compares the new
`valid_to` with `clock_timestamp()` at the UPDATE. If `valid_to` passes before
COMMIT, the closure removes the price of instants that are already past and may
have been read. `context/aidlc/bolts/B004-catalog.md:40` promises "no
retroactive rewrite". The window is short, but nothing closes it; re-checking
as the last statement narrows it only.

**Bounds as constants.** `Horizon` bounds clocks, `MaxVersion` versions,
`MaxQuantity` stands for the width of bigint, `PoolSize` for
`config.database.max`, `AgeingKeys` limits whose records expire.

## 4. Fairness

`CommandsRetry` assumes weak fairness of a session's own steps and of the end
of an orphaned transaction: every statement has a timeout (database.ts 30-31),
and the server decides a transaction whose connection was destroyed. It assumes
strong fairness of a client that keeps asking, because the pool queues requests
in order and a free connection comes up again and again. Faults are finite.
`Shutdown` assumes weak fairness of running handlers, of the wait for a client
(connectionTimeoutMillis), of transactions (statement, query and idle timeouts),
of the deadline timer, and of `Exit`: Node ends a process whose event loop is
empty, and by then server, pool and timers are closed. It assumes nothing of
jobs, of clients, of `app.close()`, or that a waiting request is ever given a
client.
`Migrations` assumes weak fairness of the start of a run, of its statements
(each ends, by its timeout if by nothing else) and of the end of an orphaned
session (the server notices): whoever deploys starts a failed run again, and
faults are finite. It assumes nothing of processes and their probes.
All other specifications are safety only and have no fairness.

## 5. Proofs

Every theorem holds for any sets of connections, keys, staff, products,
addresses, requests, runs and so on; the bounds of the models (versions,
clocks, quantities, faults) are arbitrary numbers. In every module the
properties of the runs are not inductive, so each proof goes through an
invariant that is, which the run of that module checks too (that of the readers,
`ReadInv`, was checked on its own). Each has a lemma
per action, or per kind of action where several change the same thing.

| Module | Theorems | Assumptions on constants |
| --- | --- | --- |
| `CommandsProofs` | `EngineInvariant`, `EngineTyped`, `AtMostOnce`, `AllOrNothing`, `AnswersHold`, `OutcomesFixed`, `EngineRefinesOnceOnly` | `ResultsAreDisjoint` (a success is no refusal: statuses differ), `NoneIsNoValue` |
| `StockProofs` | `StockInvariant`, `StockImplementsEngine`, `StockImplementsLedger`, `LedgerExplains`, `OneMovementEach`, `EvidenceMatches`, `ReceiptsHold`, `RevokedMoveNothing` | those, `StockConstants` (types; outcomes are the codes of the code), `NoneIsNoMovement` |
| `AccessProofs` | `AccessInvariant`, `ManagerRemains`, `TrailComplete`, `ActorsInOffice`, `AccessImplementsOffice` | `AccessConstants` (manager roles are roles, bounds are numbers) |
| `CartProofs` | `CartInvariant`, `CartTyped`, `CartImplementsEngine`, `CartsAreTheirHistory`, `OneActive`, `TerminalStay`, `MergeMoves`, `NoCycle` | those of the engine, `CartConstants` (types; the pool is finite, ids are ordered, a merge names two carts) and `NoneIsNoCart` |
| `CatalogProofs` | `CatalogInvariant`, `VariantsFollow`, `PublishedComplete`, `EventsTell`, `LinksStand`, `DraftsSpare`; of readers `ReadersOnlyRead`, `ReadInvariant`, `PagesAreWhole`, `CartViewsAreTrue`, `WalksAreComplete` | `CatalogConstants`; for readers `ReadConstants` too (ids are ordered, there are finitely many, a page holds one at least) |
| `AddressesProofs` | `AddressInvariant`, `BooksInOrder`, `EditsReplace` | `AddressConstants` (a body does not set and reset the same flag), `NoneIsNoRow` |
| `ShutdownProofs` | `StopInvariant`, `ExitsClean` | `PoolSizeIsPositive` |
| `MigrationsProofs` | `MigrationsInvariant`, `ReadyMeansExact` | `MigrationConstants` (types), `TimestampsIncrease` (a journal is written in the order of time) |

**Engine.** Nothing in `EffectAtMostOnce` says why a session about to commit
is the only one for its key. `EngineInv` adds `KeyMutex` (past `commandLock`,
sessions have different keys), `SessionsOK` (what each stage knows: the record
read is still the committed one; a started session's key has no record; a
session at COMMIT either resolves an open key, with an effect exactly if the
reply is a success, or repeats the stored outcome), and `DurableOK` (a
committed record is completed, `applied` is 1 exactly for a success, answers
repeat the record). `KeyMutex` carries `SessionsOK` across other sessions'
commits; `SessionsOK` carries `DurableOK` across a session's own. The
refinement follows: `Commit` and `OrphanCommits` are a resolution when they
install a row, an answer otherwise or a stutter, and everything else stutters.

**Stock.** `StockImplementsEngine`: each step of a behaviour of adjustments is
one of the engine or leaves it alone, so the engine's theorems hold of stock.
`StockInv` adds to `EngineInv` that the access lock excludes
(`AccessExcludes`), and that what a transaction inserted is what it would
insert now, and its reply says so (`WorkOK`): nothing commits between the
trigger's check and COMMIT. From that a commit extends the ledger by the
movement its balance asks for. `StockImplementsLedger` says it without the
engine: a COMMIT that installs a movement is one step of `Ledger` on the version
its client named (`GrantIsAdjust`), one that answers a repeated command tells of
an entry that is there (`ReplayIsRepeat`), and nothing else is visible, whatever
happened to the connections.

**Carts.** `CartInv` adds to `EngineInv` that row locks exclude (`RowLocks`),
that a transaction locks its carts in the order of their ids and what it read of
them is what is committed (`RowsOK`), that a draft is what the command, or the
expiry that precedes a denial, makes of those rows (`DraftOK`), that a customer
has one open cart, and `CartIsItsHistory` (`CommandsInv`), and that what `get`
has locked stays as it was read until it ends (`VisitsOK`). The history is a
statement about a recursion over versions; it is carried over a commit by the
least version at which two histories would differ (`HistoryAgrees`,
`HistoryGrows`). A merge may drop no line because its draft is, line by line,
the sum cut at the limit that was read (`MergeDrafted`). `NoCycle`: in a circle
somebody would wait for a cart, for whoever holds a command lock or a customer
row is past them; of those, one waits for the greatest, and who holds that cart
waits for a greater one still. This takes a finite pool. `CartInv` was checked
with TLC on the instances of both cart runs.

**Access.** `AccessInv` adds that one session is past the lock and what each
stage of it knows is so at COMMIT (`SessionKnows`), and that before the
bootstrap there is no account and no audit row (`NobodyBefore`). The last check
of a change reads what the transaction drafted; exclusion carries it to COMMIT.
`AccessImplementsOffice` follows: a COMMIT is one decision (`CommitDecides`), by
an actor whose standing is not "out" about another account.

**Catalog.** `CatalogInv` says of the row about to be installed what it says of
the installed ones (`RowOK`): its guards were evaluated before, and the clock
may have gone on since. Time only adds prices that have begun, which is why
`PublishedIsComplete` asks for prices that have begun and not for current ones.
Slugs and public addresses are kept apart by `SlugsDiffer` and `LinksBind`.
`DraftsSpareThePast` bounds the finding of section 3: no command drafts a row
without the price of an instant that has come, so the wait for COMMIT alone
takes past prices away. It holds on the instance of `catalog`, too.

**Readers.** Each step with readers is one of the catalog (`ReadersOnlyRead`),
so `CatalogInv` holds while they read. `ReadInv` adds three parts. `PageInv`: the
version a page shows was public with exactly its live variants, all published,
when the snapshot was taken, so the last query finds them all, with the prices
that the one before asked for. `CartViewInv`: what a cart found on offer was on
sale in the state its statement read, at the instant of its clock, and what it
did not find, or refuses later, was missing in the state that said so; these
states are in `truths`. `ListInv`: the walk is sorted, ends at its cursor, and
has met every product of `steady` up to it. A page of the list is the smallest
identifiers of what follows; `PageAdds` proves that of `First` and `InOrder` for
any finite set, by its least element that was not fetched. `ReadInv` was checked
with TLC on the instance of `catalog_reads`, whose run checks the three
properties it implies.

**Address book.** `AddressInv` says what a transaction has read is still so
(`ChecksHold`: its customer's row, its target and version, the room it
counted, the defaults it has released) and that nobody else writes the rows it
wrote (`DraftOK`). The row lock of the customer is all it rests on: two
transactions past it have different customers, and a row's owner never changes.
The unique indexes are not assumed.

**Shutdown.** `StopInv` adds what the closing has waited for: with the flags
set a refused request is never admitted again and no job starts, so what was
awaited stays settled. `StopsInTheEnd` is liveness and only model-checked.

**Migrations.** `MigrationInv` adds the exclusion of the lock, counting sessions
whose client is gone, what a run holds after its comparison (`RunKnows`: the
history is still a prefix of its folder, and with what is pending exactly its
folder) and what a process has read (`ProbeKnows`). Since a history that was
extended never shrinks, a process whose first query found exactly its own
migrations can say so of that moment.

Every safety property that a passing run checks is proved. Only model-checked
is liveness (`EveryClientLearns`, `StopsInTheEnd`, `MigrationsGoThrough`), which
the provers at hand do not treat. The induction theorems of the libraries take an
operator as a parameter, which is out of their reach too; where a proof needs
induction over data it takes a least or a greatest counterexample
(`LeastMember`, `GreatestMember`), which rests on the well-foundedness of the
naturals, or of the subsets of a finite set.

## 6. Not modelled

- Reads other than those of `CatalogReads`: `detail`, stock reads, roles and
  `me` change nothing and read one state under the access lock;
  `availability` is one statement. In `CartCommands` the catalog that a line is
  checked against is arbitrary (`Facts`), which covers every interleaving with
  `observe`.
- Parsing, validation, OpenAPI, token verification, configuration, spans:
  stateless, or pure formatting.
- Amounts of money, titles, attribute values, the caps of 50 variants and 20
  images: no modelled guard combines them with other state.
- The dispatcher of the outbox and purging of records: not in the repository.
- A deadline that passes between the last line that is written and the UPDATE of
  the cart (cart/service.ts:108, 150), or, where a clear or a merge of empty carts
  writes no line, anywhere after the guard, is extended all the same. The model
  follows the code, and no document forbids it, so no property speaks of it.
- Prices that end by the clock leave a product public and its variants not for
  sale: that is meant, and `PublishedIsComplete` asks for a price that has begun.

## 7. Plan

Done: the modules of section 2 and the proofs of section 5, in the order
`Commands`, `StockCommands`, `Access`, `CartCommands`, `Shutdown`, `Catalog`,
`Addresses`, `Migrations`, `CatalogReads`; every safety property is proved.

Next: more abstract specifications as targets of refinements, as `OnceOnly`,
`Ledger` and `Office` are: a consumer that rebuilds the status of products from the outbox,
for `Catalog`; an address book changed in single steps, for `Addresses`; carts
changed in single steps, for `CartCommands`.
