------------------------------- MODULE Catalog -------------------------------
(***************************************************************************)
(* Products, variants and prices: CatalogService                           *)
(* (apps/commerce-api/src/catalog/service.ts) over the tables and triggers *)
(* of database/migrations/0002_catalog.sql.                                *)
(*                                                                         *)
(* Every catalog command runs in the engine of module Commands, which      *)
(* repeats no effect, and holds the access lock (2002,1) from its          *)
(* authorization to its end, as in modules Access and StockCommands; so one *)
(* catalog transaction writes at a time, tx.  A request refused by a guard *)
(* changes nothing here.  A lost COMMIT is a Commit or an Abort.           *)
(*                                                                         *)
(* Amounts, titles and the other facts that no guard looks at are left out. *)
(***************************************************************************)
EXTENDS Naturals

CONSTANTS
    Products,
    Variants,   \* the variants a product may be given
    Slugs,
    Horizon,    \* bound: the database clock runs from 0 to Horizon
    MaxVersion, \* bound on the version of a product
    None

ASSUME CatalogConstants ==
    /\ Horizon \in Nat
    /\ MaxVersion \in Nat \ {0}
    /\ None \notin Slugs

VARIABLES
    products,   \* committed products with their variants and price records
    outbox,     \* committed product events, with the version the client had seen
    links,      \* history: every <<slug, product>> that was ever public
    supported,  \* the assigned categories, brand, attributes and image are in order
    now,        \* the database clock
    tx          \* the transaction that holds the access lock, or None

vars == <<products, outbox, links, supported, now, tx>>

(* A price is in effect from `from' until before `to'; Forever is NULL.     *)
Forever == Horizon + 1
Prices == {i \in [from: 0..Horizon, to: 1..Forever]: i.from < i.to}

(* described: a description that is not blank.  filed: in a category.       *)
(* pictured: a primary image with a text.  launched: published_at is set.   *)
Rows == [status: {"absent", "draft", "published", "archived"}, version: 0..MaxVersion,
         slug: Slugs \cup {None}, described: BOOLEAN, filed: BOOLEAN, pictured: BOOLEAN,
         launched: BOOLEAN,
         variants: [Variants -> {"absent", "draft", "published", "archived"}],
         prices: [Variants -> SUBSET Prices]]

Absent == [status |-> "absent", version |-> 0, slug |-> None, described |-> FALSE,
           filed |-> FALSE, pictured |-> FALSE, launched |-> FALSE,
           variants |-> [v \in Variants |-> "absent"], prices |-> [v \in Variants |-> {}]]

Exists(p) == products[p].status # "absent"
Live(row) == {v \in Variants: row.variants[v] \in {"draft", "published"}}
Priced(row, v, at) == \E i \in row.prices[v]: i.from <= at /\ at < i.to

CatalogTypeOK ==
    /\ products \in [Products -> Rows]
    /\ outbox \subseteq [product: Products, version: 1..MaxVersion, seen: 0..MaxVersion,
                         status: {"draft", "published", "archived"}]
    /\ links \subseteq Slugs \X Products
    /\ supported \in BOOLEAN
    /\ now \in 0..Horizon
    /\ tx = None \/ tx \in [product: Products, seen: 0..MaxVersion, row: Rows]
    /\ \A p \in Products: products[p].version = 0 <=> ~Exists(p)
    /\ \A p \in Products: Exists(p) => products[p].slug # None

Init ==
    /\ products = [p \in Products |-> Absent]
    /\ outbox = {}
    /\ links = {}
    /\ supported \in BOOLEAN
    /\ now = 0
    /\ tx = None
-----------------------------------------------------------------------------
(* Mutant of Current: only a version from the future is refused.            *)
NotFromTheFuture(p, seen) == products[p].version >= seen

(* If-Match names the version the row has now.                              *)
Current(p, seen) == products[p].version = seen

(* The new row, at the next version.                                        *)
Bump(row) == [row EXCEPT !.version = @ + 1]

(* The access lock is free, the row is as the client saw it: write.         *)
Propose(p, seen, row) ==
    /\ tx = None
    /\ Current(p, seen)
    /\ row.version < MaxVersion
    /\ tx' = [product |-> p, seen |-> seen, row |-> Bump(row)]
    /\ UNCHANGED <<products, outbox, links, supported, now>>

SlugFree(p, slug) == \A q \in Products \ {p}: products[q].slug # slug

Create(p, slug, described, filed) ==
    /\ ~Exists(p)
    /\ SlugFree(p, slug)
    /\ Propose(p, 0, [Absent EXCEPT !.status = "draft", !.slug = slug, !.described = described,
                               !.filed = filed])

(* Mutant of SlugAllowed: a draft may be given any address.                 *)
AnySlug(row, slug) == TRUE

(* The address is fixed by the first publication.                           *)
SlugAllowed(row, slug) == row.launched => slug = row.slug

(* A field that the body of a PATCH leaves out, None, stays as it is.       *)
Given(new, old) == IF new = None THEN old ELSE new

Edit(p, seen, slug, described, filed) ==
    LET row == products[p]
    IN  /\ row.status = "draft"
        /\ slug # None => SlugAllowed(row, slug) /\ SlugFree(p, slug)
        /\ Propose(p, seen, [row EXCEPT !.slug = Given(slug, @), !.described = Given(described, @),
                                        !.filed = Given(filed, @)])

CreateVariant(p, seen, v) ==
    LET row == products[p]
    IN  /\ row.status = "draft"
        /\ row.variants[v] = "absent"
        /\ Propose(p, seen, [row EXCEPT !.variants[v] = "draft"])

EditVariant(p, seen, v) ==
    LET row == products[p]
    IN  /\ row.status = "draft"
        /\ v \in Live(row)
        /\ Propose(p, seen, row)

ArchiveVariant(p, seen, v) ==
    LET row == products[p]
    IN  /\ row.status = "draft"
        /\ v \in Live(row)
        /\ Propose(p, seen, [row EXCEPT !.variants[v] = "archived"])

(* A primary image takes the place of the one before it, with a text or not. *)
AttachMedia(p, seen, pictured) ==
    LET row == products[p]
    IN  /\ row.status = "draft"
        /\ Propose(p, seen, [row EXCEPT !.pictured = pictured])
-----------------------------------------------------------------------------
Overlap(i, j) == i.from < j.to /\ j.from < i.to

(* Mutant of NoOverlap: only among the prices without an end.               *)
AmongOpen(row, v, i) == \A j \in row.prices[v]: j.to = Forever => ~Overlap(i, j)

(* The exclusion constraint on price_records.                               *)
NoOverlap(row, v, i) == \A j \in row.prices[v]: ~Overlap(i, j)

AddPrice(p, seen, v, i) ==
    LET row == products[p]
    IN  /\ row.status \in {"draft", "published"}
        /\ v \in Live(row)
        /\ NoOverlap(row, v, i)
        /\ Propose(p, seen, [row EXCEPT !.prices[v] = @ \cup {i}])

(* guard_price_history: an interval that has ended stays, and one that has  *)
(* not may only end earlier, in the future by the clock of this statement.  *)
MayClose(i, to) == i.to > now /\ to > now /\ to > i.from /\ to <= i.to

ClosePrice(p, seen, v, i, to) ==
    LET row == products[p]
    IN  /\ row.status \in {"draft", "published"}
        /\ v \in Live(row)
        /\ i \in row.prices[v]
        /\ MayClose(i, to)
        /\ Propose(p, seen, [row EXCEPT !.prices[v] = (@ \ {i}) \cup {[i EXCEPT !.to = to]}])
-----------------------------------------------------------------------------
(* Mutant of Eligible: one variant with a price is enough.                  *)
EligibleByOne(row, at) ==
    /\ row.described /\ row.filed /\ row.pictured /\ supported
    /\ \E v \in Live(row): Priced(row, v, at)

(* What publication requires, at one instant of the database clock.         *)
Eligible(row, at) ==
    /\ row.described /\ row.filed /\ row.pictured /\ supported
    /\ Live(row) # {}
    /\ \A v \in Live(row): Priced(row, v, at)

(* Mutant of WithStatus: variants are published, and never taken back.      *)
PromoteOnly(row, status) ==
    [row EXCEPT !.status = status,
                !.launched = @ \/ status = "published",
                !.variants = [v \in Variants |->
                    IF v \in Live(row) /\ status # "draft" THEN status ELSE row.variants[v]]]

(* The product and its live variants change status together.                *)
WithStatus(row, status) ==
    [row EXCEPT !.status = status,
                !.launched = @ \/ status = "published",
                !.variants = [v \in Variants |-> IF v \in Live(row) THEN status ELSE row.variants[v]]]

Publish(p, seen) ==
    /\ products[p].status = "draft"
    /\ Eligible(products[p], now)
    /\ Propose(p, seen, WithStatus(products[p], "published"))

Unpublish(p, seen) ==
    /\ products[p].status = "published"
    /\ Propose(p, seen, WithStatus(products[p], "draft"))

Archive(p, seen) ==
    /\ products[p].status \in {"draft", "published"}
    /\ Propose(p, seen, WithStatus(products[p], "archived"))
-----------------------------------------------------------------------------
(* Mutant of Event: the event tells of the row as it was before.            *)
EventBefore(t) == [product |-> t.product, version |-> t.row.version, seen |-> t.seen,
                   status |-> IF Exists(t.product) THEN products[t.product].status ELSE "draft"]

(* catalogEvidence: the event and the audit row of the version just made.   *)
Event(t) == [product |-> t.product, version |-> t.row.version, seen |-> t.seen, status |-> t.row.status]

Commit ==
    /\ tx # None
    /\ products' = [products EXCEPT ![tx.product] = tx.row]
    /\ outbox' = outbox \cup {Event(tx)}
    /\ links' = links \cup (IF tx.row.status = "published" THEN {<<tx.row.slug, tx.product>>} ELSE {})
    /\ tx' = None
    /\ UNCHANGED <<supported, now>>

(* Any failure before or at COMMIT.                                         *)
Abort ==
    /\ tx # None
    /\ tx' = None
    /\ UNCHANGED <<products, outbox, links, supported, now>>

Tick ==
    /\ now < Horizon
    /\ now' = now + 1
    /\ UNCHANGED <<products, outbox, links, supported, tx>>

(* Reference metadata belongs to the migrator role, outside the program.    *)
ReferencesChange ==
    /\ supported' = ~supported
    /\ UNCHANGED <<products, outbox, links, now, tx>>

Command(p) ==
    \/ \E slug \in Slugs, described, filed \in BOOLEAN: Create(p, slug, described, filed)
    \/ \E seen \in 1..MaxVersion:
        \/ \E slug \in Slugs \cup {None}, described, filed \in BOOLEAN \cup {None}:
               Edit(p, seen, slug, described, filed)
        \/ \E pictured \in BOOLEAN: AttachMedia(p, seen, pictured)
        \/ \E v \in Variants:
            \/ CreateVariant(p, seen, v)
            \/ EditVariant(p, seen, v)
            \/ ArchiveVariant(p, seen, v)
            \/ \E i \in Prices: AddPrice(p, seen, v, i)
            \/ \E i \in Prices, to \in 1..Horizon: ClosePrice(p, seen, v, i, to)
        \/ Publish(p, seen)
        \/ Unpublish(p, seen)
        \/ Archive(p, seen)

Next ==
    \/ \E p \in Products: Command(p)
    \/ Commit
    \/ Abort
    \/ Tick
    \/ ReferencesChange

Spec == Init /\ [][Next]_vars
-----------------------------------------------------------------------------
(* Variants go with their product through every path of commands: what is   *)
(* not archived has the product's status, so nothing stays on sale under a  *)
(* product that was taken back, and nothing under an archived one is left.  *)
VariantsFollowProduct ==
    \A p \in Products: \A v \in Live(products[p]): products[p].variants[v] = products[p].status

(* While a product is public it keeps what its publication was granted for: *)
(* a text, an image and, for each variant on sale, a price that has begun   *)
(* (it may have ended since), though it is edited, priced and republished.  *)
PublishedIsComplete ==
    \A p \in Products:
        products[p].status = "published" =>
            /\ products[p].described /\ products[p].filed /\ products[p].pictured
            /\ Live(products[p]) # {}
            /\ \A v \in Live(products[p]): \E i \in products[p].prices[v]: i.from <= now

(* A consumer that reads the events of a product in version order ends with *)
(* the product's status; no version is missing or told twice, and each was  *)
(* made by a client that had seen the one before it (no lost update).       *)
EventsTellTheProduct ==
    \A p \in Products:
        LET events == {e \in outbox: e.product = p}
        IN  /\ {e.version: e \in events} = 1..products[p].version
            /\ \A e, f \in events: e.version = f.version => e = f
            /\ \A e \in events: e.seen + 1 = e.version
            /\ \A e \in events: e.version = products[p].version => e.status = products[p].status

(* A public address never changes its meaning: it belongs to one product,   *)
(* which never gets another one, archived or not.                           *)
LinksStay ==
    \A a, b \in links:
        /\ a[1] = b[1] <=> a[2] = b[2]
        /\ products[a[2]].slug = a[1]

(* No two products have the same address.                                   *)
SlugsDiffer == \A p \in Products: Exists(p) => SlugFree(p, products[p].slug)

(* A product that was ever public has its address for good.                 *)
LinksBind(p, row) ==
    \A a \in links: a[2] = p => row.status # "absent" /\ row.launched /\ row.slug = a[1]

(* What each row is on its own, committed or not yet.                       *)
RowOK(row) ==
    /\ \A v \in Live(row): row.variants[v] = row.status
    /\ row.status = "published" =>
        /\ row.described /\ row.filed /\ row.pictured /\ row.launched
        /\ Live(row) # {}
        /\ \A v \in Live(row): \E i \in row.prices[v]: i.from <= now
    /\ \A v \in Variants: \A i, j \in row.prices[v]: Overlap(i, j) => i = j

(* The access lock admits one catalog command at a time, so the row that is *)
(* about to be installed is still the next version of the committed one,    *)
(* keeps its public address and takes nobody else's (service.ts:17-24,      *)
(* 47, 174-176).                                                            *)
CatalogInv ==
    /\ CatalogTypeOK
    /\ EventsTellTheProduct
    /\ SlugsDiffer
    /\ \A p \in Products: RowOK(products[p]) /\ LinksBind(p, products[p])
    /\ tx # None =>
        /\ tx.row.status # "absent" /\ tx.row.slug # None
        /\ tx.seen = products[tx.product].version /\ tx.row.version = tx.seen + 1
        /\ RowOK(tx.row) /\ LinksBind(tx.product, tx.row) /\ SlugFree(tx.product, tx.row.slug)

(* No retroactive rewrite: an instant that is past and had a price keeps    *)
(* one, whatever closures are committed afterwards.                         *)
PastPricesStand ==
    [][\A p \in Products, v \in Variants: \A t \in 0..Horizon:
           (t < now /\ Priced(products[p], v, t)) => Priced(products'[p], v, t)]_products

(* What the check of a closure gives, beside that: no command writes a row  *)
(* that takes away the price of an instant that has come, for any product   *)
(* there is.  Only the wait for COMMIT can (0002_catalog.sql:88).           *)
DraftsSpareThePast ==
    [][tx = None /\ tx' # None /\ Exists(tx'.product) =>
           \A v \in Variants, t \in 0..now:
               Priced(products[tx'.product], v, t) => Priced(tx'.row, v, t)]_tx
=============================================================================
