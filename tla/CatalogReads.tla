----------------------------- MODULE CatalogReads -----------------------------
(***************************************************************************)
(* What readers of the catalog see while it is edited (module Catalog):    *)
(* the public product page, CatalogService.published, which reads in one   *)
(* REPEATABLE READ snapshot; the view of a cart, CartService.projection,   *)
(* with the CatalogService.observe of its variants, which reads statement  *)
(* by statement in the READ COMMITTED transaction of the cart; and the     *)
(* list of products that staff page through, CatalogService.list, in a     *)
(* transaction per page.                                                   *)
(*                                                                         *)
(* Identifiers of products are numbers, in the order of the uuids.         *)
(***************************************************************************)
EXTENDS Catalog, FiniteSets, SequencesExt

CONSTANT Limit \* the page size of the list

ASSUME ReadConstants ==
    /\ Products \subseteq Nat \ {0} /\ IsFiniteSet(Products)
    /\ Limit \in Nat \ {0}

VARIABLES
    read,   \* a page or the view of a cart
    truths, \* history: what was true at some moment of that read
    since,  \* history: the instant at which its clock was read
    list,   \* a walk through the list of products
    steady  \* history: the products that matched its filter all along

allVars == <<vars, read, truths, since, list, steady>>

Stages == {"none", "clock", "rows", "product", "references", "brand", "image", "prices",
           "attributes", "page", "refused", "answered"}

(* at: the instant whose prices count.  version: that of the product row    *)
(* whose title and text the page shows.  lines: the <<product, variant>> of *)
(* the lines of the cart.  todo: the products whose eligibility is yet to   *)
(* be asked.  shown: the variants found on offer, with their products.      *)
NotBegun == [kind |-> None, stage |-> "none", slug |-> None, product |-> None, lines |-> {},
             todo |-> {}, at |-> 0, snapshot |-> None, version |-> 0, shown |-> {}]

ReadInit ==
    /\ read = NotBegun
    /\ since = 0
    /\ truths = [sold |-> {}, missing |-> {}, pages |-> {}]
    /\ list = [stage |-> "none", filter |-> None, after |-> 0, items |-> <<>>]
    /\ steady = {}
-----------------------------------------------------------------------------
(* Mutant of View: every statement of the page reads what is committed.     *)
CommittedView == [products |-> products, supported |-> supported]

(* What the statements of the read see.                                     *)
View ==
    IF read.kind = "page" THEN read.snapshot ELSE [products |-> products, supported |-> supported]

Row == View.products[read.product]

BeginPage(slug) ==
    /\ read.stage = "none"
    /\ read' = [read EXCEPT !.kind = "page", !.stage = "product", !.slug = slug, !.at = now]

(* The first query takes the snapshot; transaction_timestamp is of BEGIN.   *)
ReadPageProduct ==
    /\ read.kind = "page" /\ read.stage = "product"
    /\ LET found == {p \in Products: products[p].slug = read.slug /\ products[p].status = "published"}
       IN  IF \E p \in found: products[p].described
           THEN \E p \in found:
                read' = [read EXCEPT !.product = p, !.version = products[p].version, !.stage = "references",
                         !.snapshot = [products |-> products, supported |-> supported]]
           ELSE read' = [read EXCEPT !.stage = "refused"]

(* A cart keeps its lines whatever becomes of their variants.               *)
BeginCart(lines) ==
    /\ read.stage = "none"
    /\ lines # {} /\ \A l \in lines: products[l[1]].variants[l[2]] # "absent"
    /\ read' = [read EXCEPT !.kind = "cart", !.stage = "clock", !.lines = lines, !.at = now]

(* Mutant of ReadClock: the prices of the beginning of the transaction.     *)
KeepTransactionTime ==
    /\ read.stage = "clock"
    /\ read' = [read EXCEPT !.stage = "rows"]

(* clock_timestamp: the cart's locks may have been waited for since BEGIN.  *)
ReadClock ==
    /\ read.stage = "clock"
    /\ read' = [read EXCEPT !.stage = "rows", !.at = now]

OnOffer(row, v, at) == row.variants[v] = "published" /\ Priced(row, v, at)

(* One statement for all lines, of all products.                            *)
ReadRows ==
    /\ read.stage = "rows"
    /\ read' = [read EXCEPT !.stage = "product", !.todo = {l[1]: l \in read.lines},
                            !.shown = {l \in read.lines: OnOffer(View.products[l[1]], l[2], read.at)}]

(* Mutant of Judged: one product that may not be sold takes all lines along. *)
JudgedTogether(p, eligible) ==
    LET todo == read.todo \ {p}
    IN  read' = [read EXCEPT !.todo = todo, !.stage = IF todo = {} THEN "answered" ELSE "product",
                             !.shown = IF eligible THEN @ ELSE {}]

(* What observe() makes of the eligibility of one product of a cart.        *)
Judged(p, eligible) ==
    LET todo == read.todo \ {p}
    IN  read' = [read EXCEPT !.todo = todo, !.stage = IF todo = {} THEN "answered" ELSE "product",
                             !.shown = {l \in @: l[1] = p => eligible}]

(* The row of the least product that has not been asked for.                *)
ReadProduct ==
    /\ read.kind = "cart" /\ read.stage = "product"
    /\ \E p \in read.todo:
        /\ \A q \in read.todo: p <= q
        /\ IF products[p].status = "published" /\ products[p].described
           THEN read' = [read EXCEPT !.product = p, !.stage = "references"]
           ELSE Judged(p, FALSE)

(* The answer of eligible().                                                *)
Answer(eligible) ==
    IF read.kind = "page"
    THEN read' = [read EXCEPT !.stage = IF eligible THEN "page" ELSE "refused"]
    ELSE Judged(read.product, eligible)

(* A statement of eligible() whose result denies it or lets it go on.       *)
Require(stage, holds, next) ==
    /\ read.stage = stage
    /\ IF holds THEN read' = [read EXCEPT !.stage = next] ELSE Answer(FALSE)

(* Its queries, after the text: the categories with their ancestors, the    *)
(* brand, the primary image, the prices of all live variants, and their     *)
(* attributes.                                                              *)
ReadCategories == Require("references", Row.filed /\ View.supported, "brand")
ReadBrand == Require("brand", View.supported, "image")
ReadImage == Require("image", Row.pictured /\ View.supported, "prices")
ReadPrices ==
    Require("prices", Live(Row) # {} /\ \A v \in Live(Row): Priced(Row, v, read.at), "attributes")
ReadAttributes == read.stage = "attributes" /\ Answer(View.supported)

ReadPageVariants ==
    /\ read.stage = "page"
    /\ LET shown == {read.product} \X {v \in Variants: OnOffer(Row, v, read.at)}
       IN  read' = [read EXCEPT !.shown = shown, !.stage = IF shown = {} THEN "refused" ELSE "answered"]

ReadStep ==
    \/ \E slug \in Slugs: BeginPage(slug)
    \/ \E lines \in SUBSET (Products \X Variants): BeginCart(lines)
    \/ ReadPageProduct \/ ReadClock \/ ReadRows \/ ReadProduct \/ ReadCategories
    \/ ReadBrand \/ ReadImage \/ ReadPrices \/ ReadAttributes \/ ReadPageVariants
-----------------------------------------------------------------------------
Matching(filter) == {p \in Products: Exists(p) /\ (filter = None \/ products[p].status = filter)}

Following(filter, after) == {p \in Matching(filter): p > after}

(* ORDER BY id.                                                             *)
InOrder(ids) ==
    CHOOSE s \in [1..Cardinality(ids) -> ids]:
        /\ ToSet(s) = ids
        /\ \A i, j \in 1..Cardinality(ids): i < j => s[i] < s[j]

Before(p, ids) == {q \in ids: q < p}

(* LIMIT n, in that order.                                                  *)
First(n, ids) == {p \in ids: Cardinality(Before(p, ids)) < n}

(* Mutant of Fetch: no row more than the page, so none tells of the next.   *)
FetchPage(filter, after) == First(Limit, Following(filter, after))

Fetch(filter, after) == First(Limit + 1, Following(filter, after))

(* The cursor carries the filter it was made for, and pageInput refuses any *)
(* other with it; the page waits for the access lock.                       *)
NextPage(filter) ==
    /\ list.stage # "done"
    /\ list.stage = "paging" => filter = list.filter
    /\ tx = None
    /\ LET rows == Fetch(filter, list.after)
           page == InOrder(First(Limit, rows))
       IN  list' = [stage |-> IF Cardinality(rows) > Limit THEN "paging" ELSE "done", filter |-> filter,
                    after |-> IF Cardinality(rows) > Limit THEN Last(page) ELSE list.after,
                    items |-> list.items \o page]

ListStep == \E filter \in {None, "draft", "archived"}: NextPage(filter)
-----------------------------------------------------------------------------
(* The history variables look at every state of a read and of a walk.       *)
Observing == read.kind = "cart" /\ read.stage \notin {"clock", "answered"}
Paging == read.kind = "page" /\ read.stage \notin {"refused", "answered"}

OnSale(row, v, at) == row.status = "published" /\ row.variants[v] = "published" /\ Priced(row, v, at)

(* At a price of the instant at which the clock was read.                   *)
Sold == {l \in read.lines: OnSale(products[l[1]], l[2], since)}

(* Not for sale at some instant since then, by the prices committed now.    *)
Missing ==
    {l \in read.lines: \E t \in since..now: ~OnSale(products[l[1]], l[2], t) \/ ~Eligible(products[l[1]], t)}

Shelf(p, row) == {p} \X Live(row)
Public == {<<products[p].version, Shelf(p, products[p])>>: p \in {q \in Products: products[q].status = "published"}}

Watch ==
    /\ since' = IF read.stage = "clock" THEN now ELSE since
    /\ truths' = [sold |-> truths.sold \cup (IF Observing' THEN {Sold'} ELSE {}),
                  missing |-> truths.missing \cup (IF Observing' THEN Missing' ELSE {}),
                  pages |-> truths.pages \cup (IF Paging' THEN Public' ELSE {})]
    /\ steady' = CASE list'.stage = "none" -> {}
                   [] list.stage = "none" /\ list'.stage # "none" -> Matching(list'.filter)
                   [] OTHER -> steady \cap Matching(list.filter)'

ReadNext ==
    /\ \/ Next /\ UNCHANGED <<read, list>>
       \/ ReadStep /\ UNCHANGED <<vars, list>>
       \/ ListStep /\ UNCHANGED <<vars, read>>
    /\ Watch

ReadSpec == Init /\ ReadInit /\ [][ReadNext]_allVars
-----------------------------------------------------------------------------
(* A page is whole: its text and its variants belong to one version of the  *)
(* product that was public while the page was made, and no variant of that  *)
(* version is left out (service.ts:200).                                    *)
PageIsWhole ==
    read.kind = "page" /\ read.stage = "answered" => <<read.version, read.shown>> \in truths.pages

(* What a cart shows of its lines, put together from statements about       *)
(* several products that each see another catalog, is true: the lines it    *)
(* counts, all of them when it gives an estimate, were on sale together at  *)
(* one moment since the clock was read, at prices of that instant, and a    *)
(* line it calls UNAVAILABLE was not for sale at some moment (catalog       *)
(* service.ts:188, cart service.ts:47).                                     *)
CartsTellTheTruth ==
    read.kind = "cart" /\ read.stage = "answered" =>
        /\ \E sold \in truths.sold: read.shown \subseteq sold
        /\ read.lines \ read.shown \subseteq truths.missing

(* A walk through the list meets every product that matched all along, once *)
(* and in order, whatever is created or archived meanwhile (service.ts:57). *)
ListIsComplete ==
    /\ \A i, j \in DOMAIN list.items: i < j => list.items[i] < list.items[j]
    /\ list.stage = "done" => steady \subseteq ToSet(list.items)
-----------------------------------------------------------------------------
(* The inductive invariant behind the three of them.                        *)
Reads == [kind: {None, "page", "cart"}, stage: Stages, slug: Slugs \cup {None},
          product: Products \cup {None}, lines: SUBSET (Products \X Variants),
          todo: SUBSET Products, at: 0..Horizon,
          snapshot: {None} \cup [products: [Products -> Rows], supported: BOOLEAN],
          version: 0..MaxVersion, shown: SUBSET ((Products \cup {None}) \X Variants)]

(* From the row on, a page is about a version that was public while it was  *)
(* made, whose live variants are all published; once their prices are read, *)
(* all have one.                                                            *)
PageInv ==
    read.kind = "page" /\ read.stage # "none" =>
        /\ read.stage \notin {"clock", "rows"}
        /\ read.stage \in {"references", "brand", "image", "prices", "attributes", "page"} =>
            LET row == read.snapshot.products[read.product]
            IN  /\ <<read.version, Shelf(read.product, row)>> \in truths.pages
                /\ \A v \in Live(row): row.variants[v] = "published"
                /\ read.stage \in {"attributes", "page"} => \A v \in Live(row): Priced(row, v, read.at)
        /\ read.stage = "answered" => <<read.version, read.shown>> \in truths.pages

(* A cart's lines were found on sale in one state of the catalog, at the    *)
(* instant of the clock; none is taken in later, and whatever takes one out *)
(* is in the history.                                                       *)
CartViewInv ==
    read.kind = "cart" /\ read.stage # "none" =>
        /\ read.stage \notin {"page", "refused"}
        /\ read.stage # "clock" => read.at = since
        /\ read.stage \in {"references", "brand", "image", "prices", "attributes"} => read.product \in read.todo
        /\ Observing => Missing \subseteq truths.missing
        /\ read.stage \notin {"clock", "rows"} =>
            /\ \E sold \in truths.sold: read.shown \subseteq sold
            /\ read.lines \ read.shown \subseteq truths.missing

(* A walk is in order, ends at its cursor, and has met all that it passed.  *)
ListInv ==
    /\ list \in [stage: {"none", "paging", "done"}, filter: {None, "draft", "archived"},
                 after: Nat, items: Seq(Products)]
    /\ \A i, j \in DOMAIN list.items: i < j => list.items[i] < list.items[j]
    /\ list.stage = "none" => list.items = <<>> /\ list.after = 0 /\ steady = {}
    /\ list.stage # "none" => steady \subseteq Matching(list.filter)
    /\ list.stage = "paging" =>
        /\ \A i \in DOMAIN list.items: list.items[i] <= list.after
        /\ \A p \in steady: p <= list.after => p \in ToSet(list.items)
    /\ list.stage = "done" => steady \subseteq ToSet(list.items)

ReadInv ==
    /\ CatalogInv
    /\ read \in Reads /\ since \in 0..now
    /\ PageInv
    /\ CartViewInv
    /\ ListInv
=============================================================================
