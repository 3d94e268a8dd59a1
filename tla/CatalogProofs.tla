---------------------------- MODULE CatalogProofs ----------------------------
(* Proofs about the catalog, for any products, variants, slugs, prices and  *)
(* any length of its clock; and, below, about those who read it while it    *)
(* changes, for any size of a page.                                         *)
EXTENDS CatalogReads, FiniteSetTheorems, TLAPS

USE CatalogConstants

(* Nothing is in an empty catalog.                                          *)
LEMMA AbsentTyped == Absent \in Rows
  <1>1. [v \in Variants |-> "absent"] \in [Variants -> {"absent", "draft", "published", "archived"}]
    OBVIOUS
  <1>2. [v \in Variants |-> {}] \in [Variants -> SUBSET Prices]
    OBVIOUS
  <1> QED
    BY <1>1, <1>2 DEF Absent, Rows

LEMMA AbsentOK ==
    /\ Absent.status = "absent" /\ Absent.version = 0 /\ Absent.launched = FALSE
    /\ Live(Absent) = {} /\ RowOK(Absent)
  BY DEF Absent, RowOK, Live

LEMMA CatalogInit == Init => CatalogInv
  <1> SUFFICES ASSUME Init PROVE CatalogInv
    OBVIOUS
  <1>1. \A p \in Products: products[p] = Absent
    BY DEF Init
  <1>2. CatalogTypeOK
    <2>1. products \in [Products -> Rows]
      BY AbsentTyped DEF Init
    <2>2. \A p \in Products: products[p].version = 0 /\ ~Exists(p)
      BY <1>1, AbsentOK DEF Exists
    <2> QED
      BY <2>1, <2>2 DEF Init, CatalogTypeOK
  <1>3. EventsTellTheProduct
    <2>1. \A p \in Products: products[p].version = 0
      BY <1>1, AbsentOK
    <2>2. 1..0 = {} /\ \A p \in Products: {e \in outbox: e.product = p} = {}
      BY DEF Init
    <2> QED
      BY <2>1, <2>2 DEF EventsTellTheProduct
  <1>4. SlugsDiffer
    BY <1>1, AbsentOK DEF SlugsDiffer, Exists
  <1>5. \A p \in Products: RowOK(products[p]) /\ LinksBind(p, products[p])
    BY <1>1, AbsentOK DEF Init, LinksBind
  <1> QED
    BY <1>2, <1>3, <1>4, <1>5 DEF CatalogInv, Init

(* A row at its next version is the same row.                               *)
LEMMA BumpKeeps ==
    ASSUME NEW row \in Rows, row.version < MaxVersion
    PROVE  /\ Bump(row) \in Rows /\ Bump(row).version = row.version + 1
           /\ Bump(row).status = row.status /\ Bump(row).slug = row.slug
           /\ Bump(row).launched = row.launched
           /\ RowOK(row) => RowOK(Bump(row))
  <1>1. /\ Bump(row) \in Rows /\ Bump(row).version = row.version + 1
        /\ Bump(row).status = row.status /\ Bump(row).slug = row.slug
        /\ Bump(row).launched = row.launched /\ Bump(row).described = row.described
        /\ Bump(row).filed = row.filed /\ Bump(row).pictured = row.pictured
        /\ Bump(row).variants = row.variants /\ Bump(row).prices = row.prices
    BY DEF Bump, Rows
  <1>2. Live(Bump(row)) = Live(row)
    BY <1>1 DEF Live
  <1> QED
    BY <1>1, <1>2 DEF RowOK

(* A command that writes a sound row keeps the invariant.                   *)
LEMMA ProposeKeeps ==
    ASSUME CatalogInv, NEW p \in Products, NEW v \in 0..MaxVersion, NEW row \in Rows,
           Propose(p, v, row), row.version = products[p].version, row.status # "absent",
           row.slug # None, RowOK(row), LinksBind(p, row), SlugFree(p, row.slug)
    PROVE  CatalogInv'
  <1>1. /\ row.version < MaxVersion /\ v = products[p].version
        /\ tx' = [product |-> p, seen |-> v, row |-> Bump(row)]
        /\ UNCHANGED <<products, outbox, links, supported, now>>
    BY DEF Propose, Current
  <1> DEFINE new == Bump(row)
  <1>2. /\ new \in Rows /\ new.version = v + 1 /\ new.status # "absent" /\ new.slug # None
        /\ RowOK(new) /\ LinksBind(p, new) /\ SlugFree(p, new.slug)
    <2>1. /\ new \in Rows /\ new.version = row.version + 1 /\ new.status = row.status
          /\ new.slug = row.slug /\ new.launched = row.launched /\ RowOK(new)
      BY <1>1, BumpKeeps
    <2> QED
      BY <1>1, <2>1 DEF LinksBind
  <1>3. tx'.product = p /\ tx'.seen = v /\ tx'.row = new
    BY <1>1
  <1>4. tx' \in [product: Products, seen: 0..MaxVersion, row: Rows]
    BY <1>1, <1>2
  <1> HIDE DEF new
  <1>5. RowOK(tx.row)' /\ LinksBind(tx.product, tx.row)' /\ SlugFree(tx.product, tx.row.slug)'
    <2>1. RowOK(tx.row)'
      BY <1>1, <1>2, <1>3 DEF RowOK, Live
    <2>2. LinksBind(tx.product, tx.row)'
      BY <1>1, <1>2, <1>3 DEF LinksBind
    <2>3. SlugFree(tx.product, tx.row.slug)'
      BY <1>1, <1>2, <1>3 DEF SlugFree
    <2> QED
      BY <2>1, <2>2, <2>3
  <1>6. CatalogTypeOK'
    BY <1>1, <1>4 DEF CatalogInv, CatalogTypeOK, Exists
  <1>7. EventsTellTheProduct' /\ SlugsDiffer'
    BY <1>1 DEF CatalogInv, EventsTellTheProduct, SlugsDiffer, SlugFree, Exists
  <1>8. \A q \in Products: RowOK(products[q])' /\ LinksBind(q, products[q])'
    BY <1>1 DEF CatalogInv, RowOK, Live, LinksBind
  <1> QED
    BY <1>1, <1>2, <1>3, <1>5, <1>6, <1>7, <1>8 DEF CatalogInv

(* What is known of the row a command starts from.                          *)
LEMMA RowFacts ==
    ASSUME CatalogInv, NEW p \in Products
    PROVE  /\ products[p] \in Rows /\ RowOK(products[p]) /\ LinksBind(p, products[p])
           /\ Exists(p) => /\ products[p].slug # None
                           /\ SlugFree(p, products[p].slug)
           /\ ~Exists(p) => products[p].version = 0 /\ \A a \in links: a[2] # p
  BY DEF CatalogInv, CatalogTypeOK, SlugsDiffer, LinksBind, Exists

(* A draft that stays one: variants may come and go, prices stay.           *)
LEMMA DraftKept ==
    ASSUME NEW old \in Rows, NEW new \in Rows, RowOK(old), new.status = "draft",
           new.prices = old.prices, \A v \in Live(new): new.variants[v] = "draft"
    PROVE  RowOK(new)
  BY DEF RowOK

LEMMA DraftCommands ==
    ASSUME CatalogInv, NEW p \in Products, NEW seen \in 1..MaxVersion,
           \/ \E slug \in Slugs \cup {None}, described, filed \in BOOLEAN \cup {None}:
                  Edit(p, seen, slug, described, filed)
           \/ \E pictured \in BOOLEAN: AttachMedia(p, seen, pictured)
           \/ \E v \in Variants: CreateVariant(p, seen, v) \/ EditVariant(p, seen, v) \/ ArchiveVariant(p, seen, v)
    PROVE  CatalogInv'
  <1> DEFINE row == products[p]
  <1>1. row \in Rows /\ RowOK(row) /\ LinksBind(p, row)
    BY RowFacts
  <1>2. row.status = "draft"
    BY DEF Edit, AttachMedia, CreateVariant, EditVariant, ArchiveVariant
  <1>3. row.slug # None /\ SlugFree(p, row.slug)
    BY <1>2, RowFacts DEF Exists
  <1>4. \A v \in Live(row): row.variants[v] = "draft"
    BY <1>1, <1>2 DEF RowOK
  <1>5. ASSUME NEW new \in Rows, Propose(p, seen, new), new.version = row.version, new.status = "draft",
               new.prices = row.prices, new.launched = row.launched,
               new.slug = row.slug \/ (new.slug # None /\ SlugAllowed(row, new.slug) /\ SlugFree(p, new.slug)),
               \A v \in Variants: \/ new.variants[v] = row.variants[v]
                                  \/ new.variants[v] \in {"draft", "archived"}
        PROVE  CatalogInv'
    <2>1. \A v \in Live(new): new.variants[v] = "draft"
      BY <1>4, <1>5 DEF Live
    <2>2. RowOK(new)
      BY <1>1, <1>5, <2>1, DraftKept
    <2>3. LinksBind(p, new)
      BY <1>1, <1>5 DEF LinksBind, SlugAllowed
    <2>4. new.slug # None /\ SlugFree(p, new.slug)
      BY <1>3, <1>5
    <2> QED
      BY <1>5, <2>2, <2>3, <2>4, ProposeKeeps
  <1>6. ASSUME NEW slug \in Slugs \cup {None}, NEW described \in BOOLEAN \cup {None},
               NEW filed \in BOOLEAN \cup {None}, Edit(p, seen, slug, described, filed)
        PROVE  CatalogInv'
    <2> DEFINE new == [row EXCEPT !.slug = Given(slug, @), !.described = Given(described, @),
                                  !.filed = Given(filed, @)]
    <2>1. /\ Given(slug, row.slug) \in Slugs \cup {None}
          /\ Given(described, row.described) \in BOOLEAN /\ Given(filed, row.filed) \in BOOLEAN
      BY <1>1 DEF Given, Rows
    <2>2. /\ new \in Rows /\ new.version = row.version /\ new.status = row.status
          /\ new.prices = row.prices /\ new.launched = row.launched /\ new.variants = row.variants
          /\ new.slug = Given(slug, row.slug)
      BY <1>1, <2>1 DEF Rows
    <2>3. new.slug = row.slug \/ (new.slug # None /\ SlugAllowed(row, new.slug) /\ SlugFree(p, new.slug))
      BY <1>6, <2>2 DEF Edit, Given
    <2>4. Propose(p, seen, new)
      BY <1>6 DEF Edit
    <2> HIDE DEF new
    <2> QED
      BY <1>2, <1>5, <2>2, <2>3, <2>4
  <1>7. ASSUME NEW pictured \in BOOLEAN, AttachMedia(p, seen, pictured)
        PROVE  CatalogInv'
    <2> DEFINE new == [row EXCEPT !.pictured = pictured]
    <2>1. /\ new \in Rows /\ new.version = row.version /\ new.status = row.status
          /\ new.prices = row.prices /\ new.launched = row.launched /\ new.variants = row.variants
          /\ new.slug = row.slug
      BY <1>1 DEF Rows
    <2>2. Propose(p, seen, new)
      BY <1>7 DEF AttachMedia
    <2> HIDE DEF new
    <2> QED
      BY <1>2, <1>5, <2>1, <2>2
  <1>8. ASSUME NEW v \in Variants, NEW status \in {"draft", "archived"},
               Propose(p, seen, [row EXCEPT !.variants[v] = status])
        PROVE  CatalogInv'
    <2> DEFINE new == [row EXCEPT !.variants[v] = status]
    <2>1. /\ new \in Rows /\ new.version = row.version /\ new.status = row.status
          /\ new.prices = row.prices /\ new.launched = row.launched
          /\ new.slug = row.slug /\ new.variants = [row.variants EXCEPT ![v] = status]
      BY <1>1 DEF Rows
    <2>2. \A u \in Variants: new.variants[u] = IF u = v THEN status ELSE row.variants[u]
      BY <1>1, <2>1 DEF Rows
    <2>3. Propose(p, seen, new)
      BY <1>8
    <2> HIDE DEF new
    <2> QED
      BY <1>2, <1>5, <2>1, <2>2, <2>3
  <1>9. ASSUME NEW v \in Variants, EditVariant(p, seen, v)
        PROVE  CatalogInv'
    BY <1>1, <1>2, <1>5, <1>9 DEF EditVariant
  <1> QED
    BY <1>6, <1>7, <1>8, <1>9 DEF CreateVariant, ArchiveVariant

LEMMA CreateKeeps ==
    ASSUME CatalogInv, NEW p \in Products, NEW slug \in Slugs, NEW described \in BOOLEAN,
           NEW filed \in BOOLEAN, Create(p, slug, described, filed)
    PROVE  CatalogInv'
  <1> DEFINE new == [Absent EXCEPT !.status = "draft", !.slug = slug, !.described = described, !.filed = filed]
  <1>1. ~Exists(p) /\ SlugFree(p, slug) /\ Propose(p, 0, new)
    BY DEF Create
  <1>2. products[p].version = 0 /\ \A a \in links: a[2] # p
    BY <1>1, RowFacts
  <1>3. /\ new \in Rows /\ new.version = Absent.version /\ new.status = "draft" /\ new.slug = slug
        /\ new.prices = Absent.prices /\ new.variants = Absent.variants
    BY AbsentTyped DEF Rows
  <1> HIDE DEF new
  <1>4. Live(new) = {}
    BY <1>3, AbsentOK DEF Live
  <1>5. RowOK(new)
    BY <1>3, <1>4, AbsentTyped, AbsentOK, DraftKept
  <1> QED
    BY <1>1, <1>2, <1>3, <1>5, AbsentOK, ProposeKeeps DEF LinksBind

(* A price more, or one that ends earlier, for a product that is not        *)
(* archived.                                                                *)
LEMMA PricesKeep ==
    ASSUME CatalogInv, NEW p \in Products, NEW seen \in 1..MaxVersion, NEW v \in Variants,
           \/ \E i \in Prices: AddPrice(p, seen, v, i)
           \/ \E i \in Prices, to \in 1..Horizon: ClosePrice(p, seen, v, i, to)
    PROVE  CatalogInv'
  <1> DEFINE row == products[p]
  <1>1. row \in Rows /\ RowOK(row) /\ LinksBind(p, row)
    BY RowFacts
  <1>2. row.status \in {"draft", "published"}
    BY DEF AddPrice, ClosePrice
  <1>3. row.slug # None /\ SlugFree(p, row.slug)
    BY <1>2, RowFacts DEF Exists
  <1>4. ASSUME NEW prices \in SUBSET Prices, Propose(p, seen, [row EXCEPT !.prices[v] = prices]),
               \A i, j \in prices: Overlap(i, j) => i = j,
               \A i \in row.prices[v]: \E j \in prices: j.from = i.from
        PROVE  CatalogInv'
    <2> DEFINE new == [row EXCEPT !.prices[v] = prices]
    <2>1. /\ new \in Rows /\ new.version = row.version /\ new.status = row.status
          /\ new.described = row.described /\ new.filed = row.filed /\ new.pictured = row.pictured
          /\ new.variants = row.variants /\ new.launched = row.launched /\ new.slug = row.slug
          /\ new.prices = [row.prices EXCEPT ![v] = prices]
      BY <1>1 DEF Rows
    <2>2. \A u \in Variants: new.prices[u] = IF u = v THEN prices ELSE row.prices[u]
      BY <1>1, <2>1 DEF Rows
    <2>3. Propose(p, seen, new)
      BY <1>4
    <2> HIDE DEF new
    <2>4. Live(new) = Live(row) /\ Live(new) \subseteq Variants
      BY <2>1 DEF Live
    <2>5. \A u \in Variants: \A i, j \in new.prices[u]: Overlap(i, j) => i = j
      BY <1>1, <1>4, <2>2 DEF RowOK
    <2>6. ASSUME NEW u \in Variants, NEW i \in row.prices[u], i.from <= now
          PROVE  \E j \in new.prices[u]: j.from <= now
      <3>1. CASE u = v
        <4>1. PICK j \in prices: j.from = i.from
          BY <1>4, <2>6, <3>1
        <4> QED
          BY <2>2, <2>6, <3>1, <4>1
      <3>2. CASE u # v
        BY <2>2, <2>6, <3>2
      <3> QED
        BY <3>1, <3>2
    <2>7. RowOK(new)
      BY <1>1, <2>1, <2>4, <2>5, <2>6 DEF RowOK
    <2>8. LinksBind(p, new)
      BY <1>1, <2>1 DEF LinksBind
    <2> QED
      BY <1>2, <1>3, <2>1, <2>3, <2>7, <2>8, ProposeKeeps
  <1>5. /\ row.prices[v] \in SUBSET Prices
        /\ \A i, j \in row.prices[v]: Overlap(i, j) => i = j
    BY <1>1 DEF Rows, RowOK
  <1>6. ASSUME NEW i \in Prices, AddPrice(p, seen, v, i) PROVE CatalogInv'
    <2> DEFINE prices == row.prices[v] \cup {i}
    <2>1. Propose(p, seen, [row EXCEPT !.prices[v] = prices]) /\ \A j \in row.prices[v]: ~Overlap(i, j)
      BY <1>6 DEF AddPrice, NoOverlap
    <2>2. \A j \in row.prices[v]: ~Overlap(j, i)
      BY <2>1 DEF Overlap
    <2>3. \A j, k \in prices: Overlap(j, k) => j = k
      BY <1>5, <2>1, <2>2
    <2>4. prices \in SUBSET Prices /\ \A j \in row.prices[v]: j \in prices
      BY <1>5
    <2> HIDE DEF prices
    <2> QED
      BY <1>4, <2>1, <2>3, <2>4
  <1>7. ASSUME NEW i \in Prices, NEW to \in 1..Horizon, ClosePrice(p, seen, v, i, to) PROVE CatalogInv'
    <2> DEFINE shut == [i EXCEPT !.to = to]
               prices == (row.prices[v] \ {i}) \cup {shut}
    <2>1. Propose(p, seen, [row EXCEPT !.prices[v] = prices]) /\ i \in row.prices[v]
          /\ to > i.from /\ to <= i.to
      BY <1>7 DEF ClosePrice, MayClose
    <2>2. shut \in Prices /\ shut.from = i.from /\ shut.to = to
      BY <2>1 DEF Prices, Forever
    <2> HIDE DEF shut
    <2>3. \A j \in row.prices[v] \ {i}: ~Overlap(j, shut) /\ ~Overlap(shut, j)
      <3> SUFFICES ASSUME NEW j \in row.prices[v] \ {i} PROVE ~Overlap(j, shut) /\ ~Overlap(shut, j)
        OBVIOUS
      <3>1. ~Overlap(j, i) /\ ~Overlap(i, j)
        BY <1>5, <2>1
      <3>2. /\ j.from \in Nat /\ j.to \in Nat /\ i.from \in Nat /\ i.to \in Nat
        BY <1>5 DEF Prices, Forever
      <3> QED
        BY <2>1, <2>2, <3>1, <3>2 DEF Overlap
    <2>4. \A j, k \in prices: Overlap(j, k) => j = k
      BY <1>5, <2>3
    <2>5. prices \in SUBSET Prices /\ \A j \in row.prices[v]: \E k \in prices: k.from = j.from
      BY <1>5, <2>2
    <2> HIDE DEF prices
    <2> QED
      BY <1>4, <2>1, <2>4, <2>5
  <1> QED
    BY <1>6, <1>7

(* Product and live variants change status together.                        *)
LEMMA StatusKeeps ==
    ASSUME CatalogInv, NEW p \in Products, NEW seen \in 1..MaxVersion,
           Publish(p, seen) \/ Unpublish(p, seen) \/ Archive(p, seen)
    PROVE  CatalogInv'
  <1> DEFINE row == products[p]
  <1>1. row \in Rows /\ RowOK(row) /\ LinksBind(p, row)
    BY RowFacts
  <1>2. row.status \in {"draft", "published"}
    BY DEF Publish, Unpublish, Archive
  <1>3. row.slug # None /\ SlugFree(p, row.slug)
    BY <1>2, RowFacts DEF Exists
  <1>4. PICK status \in {"draft", "published", "archived"}:
            /\ Propose(p, seen, WithStatus(row, status))
            /\ status = "published" => Eligible(row, now)
    BY DEF Publish, Unpublish, Archive
  <1> DEFINE new == WithStatus(row, status)
  <1>5. [v \in Variants |-> IF v \in Live(row) THEN status ELSE row.variants[v]]
            \in [Variants -> {"absent", "draft", "published", "archived"}]
    BY <1>1 DEF Rows
  <1>6. /\ new \in Rows /\ new.version = row.version /\ new.status = status
        /\ new.described = row.described /\ new.filed = row.filed /\ new.pictured = row.pictured
        /\ new.slug = row.slug /\ new.prices = row.prices
        /\ new.launched = (row.launched \/ status = "published")
        /\ new.variants = [v \in Variants |-> IF v \in Live(row) THEN status ELSE row.variants[v]]
        /\ Propose(p, seen, new)
    BY <1>1, <1>4, <1>5 DEF WithStatus, Rows
  <1> HIDE DEF new
  <1>7. \A v \in Live(new): v \in Live(row) /\ new.variants[v] = status
    BY <1>6 DEF Live
  <1>8. RowOK(new)
    <2>1. \A v \in Variants: \A i, j \in new.prices[v]: Overlap(i, j) => i = j
      BY <1>1, <1>6 DEF RowOK
    <2>2. CASE status # "published"
      BY <1>6, <1>7, <2>1, <2>2 DEF RowOK
    <2>3. CASE status = "published"
      <3>1. /\ row.described /\ row.filed /\ row.pictured /\ Live(row) # {}
            /\ \A v \in Live(row): \E i \in row.prices[v]: i.from <= now
        BY <1>4, <2>3 DEF Eligible, Priced
      <3>2. Live(new) = Live(row)
        BY <1>6, <2>3 DEF Live
      <3>3. new.launched
        BY <1>6, <2>3
      <3> QED
        BY <1>6, <1>7, <2>1, <3>1, <3>2, <3>3 DEF RowOK
    <2> QED
      BY <2>2, <2>3
  <1>9. LinksBind(p, new)
    BY <1>1, <1>6 DEF LinksBind
  <1> QED
    BY <1>3, <1>6, <1>8, <1>9, ProposeKeeps

(* COMMIT installs a version and tells of it.                               *)
LEMMA CommitKeeps == CatalogInv /\ Commit => CatalogInv'
  <1> SUFFICES ASSUME CatalogInv, Commit PROVE CatalogInv'
    OBVIOUS
  <1> DEFINE p == tx.product
             row == tx.row
             event == Event(tx)
  <1>1. /\ p \in Products /\ row \in Rows /\ tx.seen = products[p].version /\ row.version = tx.seen + 1
        /\ row.status # "absent" /\ row.slug # None
        /\ RowOK(row) /\ LinksBind(p, row) /\ SlugFree(p, row.slug)
    BY DEF Commit, CatalogInv, CatalogTypeOK
  <1>2. /\ products' = [products EXCEPT ![p] = row]
        /\ outbox' = outbox \cup {event}
        /\ links' = links \cup (IF row.status = "published" THEN {<<row.slug, p>>} ELSE {})
        /\ tx' = None /\ supported' = supported /\ now' = now
    BY DEF Commit
  <1>3. products \in [Products -> Rows] /\ row.version \in 1..MaxVersion
        /\ products[p].version \in Nat /\ row.version = products[p].version + 1
    <2>1. products \in [Products -> Rows]
      BY DEF CatalogInv, CatalogTypeOK
    <2>2. products[p].version \in 0..MaxVersion /\ row.version \in 0..MaxVersion
      BY <1>1, <2>1 DEF Rows
    <2> QED
      BY <1>1, <2>1, <2>2
  <1>4. products'[p] = row /\ \A q \in Products \ {p}: products'[q] = products[q]
    BY <1>1, <1>2, <1>3
  <1>5. /\ event.product = p /\ event.version = row.version /\ event.seen = products[p].version
        /\ event.status = row.status
    BY <1>1 DEF Event
  <1>6. CatalogTypeOK'
    <2>1. products' \in [Products -> Rows]
      BY <1>1, <1>2, <1>3
    <2>2. event \in [product: Products, version: 1..MaxVersion, seen: 0..MaxVersion,
                     status: {"draft", "published", "archived"}]
      BY <1>1, <1>3 DEF Event, Rows
    <2>3. row.slug \in Slugs /\ links' \subseteq Slugs \X Products
      BY <1>1, <1>2 DEF Rows, CatalogInv, CatalogTypeOK
    <2>4. \A q \in Products: products'[q].version = 0 <=> ~Exists(q)'
      BY <1>1, <1>3, <1>4 DEF Exists, CatalogInv, CatalogTypeOK
    <2>5. \A q \in Products: Exists(q)' => products'[q].slug # None
      BY <1>1, <1>4 DEF Exists, CatalogInv, CatalogTypeOK
    <2> HIDE DEF event
    <2> QED
      BY <1>2, <2>1, <2>2, <2>3, <2>4, <2>5 DEF CatalogInv, CatalogTypeOK
  <1> HIDE DEF event, p, row
  <1>7. EventsTellTheProduct'
    <2> DEFINE Told(q) == {e \in outbox: e.product = q}
    <2> SUFFICES ASSUME NEW q \in Products
                 PROVE  /\ {e.version: e \in Told(q)'} = 1..products'[q].version
                        /\ \A e, f \in Told(q)': e.version = f.version => e = f
                        /\ \A e \in Told(q)': e.seen + 1 = e.version
                        /\ \A e \in Told(q)': e.version = products'[q].version => e.status = products'[q].status
      BY DEF EventsTellTheProduct
    <2>1. /\ {e.version: e \in Told(q)} = 1..products[q].version
          /\ \A e, f \in Told(q): e.version = f.version => e = f
          /\ \A e \in Told(q): e.seen + 1 = e.version
          /\ \A e \in Told(q): e.version = products[q].version => e.status = products[q].status
      BY DEF CatalogInv, EventsTellTheProduct
    <2>2. CASE q # p
      <3>1. Told(q)' = Told(q)
        BY <1>2, <1>5, <2>2
      <3> QED
        BY <1>4, <2>1, <2>2, <3>1
    <2>3. CASE q = p
      <3>1. Told(q)' = Told(q) \cup {event}
        BY <1>2, <1>5, <2>3
      <3>2. \A e \in Told(q): e.version \in 1..products[p].version
        BY <2>1, <2>3
      <3> HIDE DEF Told
      <3>3. {e.version: e \in Told(q)'} = {e.version: e \in Told(q)} \cup {row.version}
        BY <1>5, <3>1
      <3>4. 1..row.version = (1..products[p].version) \cup {row.version}
        BY <1>3
      <3>5. {e.version: e \in Told(q)'} = 1..products'[q].version
        BY <1>4, <2>1, <2>3, <3>3, <3>4
      <3>6. \A e \in Told(q): e.version # row.version
        BY <1>3, <3>2
      <3> QED
        BY <1>3, <1>4, <1>5, <2>1, <2>3, <3>1, <3>5, <3>6
    <2> QED
      BY <2>2, <2>3
  <1>8. SlugsDiffer'
    <2> SUFFICES ASSUME NEW q \in Products, Exists(q)' PROVE SlugFree(q, products[q].slug)'
      BY DEF SlugsDiffer
    <2>1. CASE q = p
      BY <1>1, <1>4, <2>1 DEF SlugFree
    <2>2. CASE q # p
      BY <1>1, <1>4, <2>2 DEF SlugFree, SlugsDiffer, CatalogInv, Exists
    <2> QED
      BY <2>1, <2>2
  <1>9. ASSUME NEW q \in Products PROVE RowOK(products[q])' /\ LinksBind(q, products[q])'
    <2>1. RowOK(products[q]) /\ LinksBind(q, products[q])
      BY DEF CatalogInv
    <2>2. CASE q = p
      <3>1. RowOK(products[q])'
        BY <1>1, <1>2, <1>4, <2>2 DEF RowOK, Live
      <3>2. row.status = "published" => row.launched
        BY <1>1 DEF RowOK
      <3>3. LinksBind(q, products[q])'
        BY <1>1, <1>2, <1>4, <2>2, <3>2 DEF LinksBind
      <3> QED
        BY <3>1, <3>3
    <2>3. CASE q # p
      <3>1. RowOK(products[q])'
        BY <1>2, <1>4, <2>1, <2>3 DEF RowOK, Live
      <3>2. LinksBind(q, products[q])'
        BY <1>2, <1>4, <2>1, <2>3 DEF LinksBind
      <3> QED
        BY <3>1, <3>2
    <2> QED
      BY <2>2, <2>3
  <1> QED
    BY <1>2, <1>6, <1>7, <1>8, <1>9 DEF CatalogInv

(* Time and reference data move under a transaction without harm.           *)
LEMMA OthersKeep ==
    ASSUME CatalogInv, Abort \/ Tick \/ ReferencesChange \/ UNCHANGED vars
    PROVE  CatalogInv'
  <1>1. UNCHANGED <<products, outbox, links>> /\ tx' \in {tx, None}
    BY DEF Abort, Tick, ReferencesChange, vars
  <1>2. supported' \in BOOLEAN
    <2>1. supported \in BOOLEAN
      BY DEF CatalogInv, CatalogTypeOK
    <2>2. supported' = supported \/ supported' = ~supported
      BY DEF Abort, Tick, ReferencesChange, vars
    <2> QED
      BY <2>1, <2>2, Zenon
  <1>3. now \in 0..Horizon /\ now' \in 0..Horizon /\ now <= now'
    <2>1. now \in 0..Horizon
      BY DEF CatalogInv, CatalogTypeOK
    <2>2. now' = now \/ (now < Horizon /\ now' = now + 1)
      BY DEF Abort, Tick, ReferencesChange, vars
    <2> QED
      BY <2>1, <2>2
  <1>4. ASSUME NEW row \in Rows, RowOK(row) PROVE RowOK(row)'
    <2>1. \A v \in Variants: \A i \in row.prices[v]: i.from \in Nat
      BY DEF Rows, Prices
    <2>2. ASSUME NEW v \in Live(row), \E i \in row.prices[v]: i.from <= now
          PROVE  \E i \in row.prices[v]: i.from <= now'
      <3>1. v \in Variants
        BY DEF Live
      <3> QED
        BY <1>3, <2>1, <2>2, <3>1
    <2> QED
      BY <1>4, <2>2 DEF RowOK, Live
  <1>5. CatalogTypeOK'
    BY <1>1, <1>2, <1>3 DEF CatalogInv, CatalogTypeOK, Exists
  <1>6. EventsTellTheProduct' /\ SlugsDiffer'
    BY <1>1 DEF CatalogInv, EventsTellTheProduct, SlugsDiffer, SlugFree, Exists
  <1>7. ASSUME NEW p \in Products PROVE RowOK(products[p])' /\ LinksBind(p, products[p])'
    <2>1. products[p] \in Rows /\ RowOK(products[p]) /\ LinksBind(p, products[p])
      BY DEF CatalogInv, CatalogTypeOK
    <2>2. RowOK(products[p])'
      BY <1>1, <1>4, <2>1 DEF RowOK, Live
    <2>3. LinksBind(p, products[p])'
      BY <1>1, <2>1 DEF LinksBind
    <2> QED
      BY <2>2, <2>3
  <1>8. ASSUME tx' # None
        PROVE  /\ tx'.row.status # "absent" /\ tx'.row.slug # None
               /\ tx'.seen = products'[tx'.product].version /\ tx'.row.version = tx'.seen + 1
               /\ RowOK(tx.row)' /\ LinksBind(tx.product, tx.row)' /\ SlugFree(tx.product, tx.row.slug)'
    <2>1. tx' = tx /\ tx # None
      BY <1>1, <1>8
    <2>2. /\ tx.row.status # "absent" /\ tx.row.slug # None /\ tx.row \in Rows
          /\ tx.seen = products[tx.product].version /\ tx.row.version = tx.seen + 1
          /\ RowOK(tx.row) /\ LinksBind(tx.product, tx.row) /\ SlugFree(tx.product, tx.row.slug)
      BY <2>1 DEF CatalogInv, CatalogTypeOK
    <2>3. RowOK(tx.row)'
      BY <1>4, <2>1, <2>2 DEF RowOK, Live
    <2> QED
      BY <1>1, <2>1, <2>2, <2>3 DEF LinksBind, SlugFree
  <1> QED
    BY <1>5, <1>6, <1>7, <1>8 DEF CatalogInv

(* Every step keeps the invariant.                                          *)
LEMMA CatalogStep == CatalogInv /\ [Next]_vars => CatalogInv'
  <1> SUFFICES ASSUME CatalogInv, [Next]_vars PROVE CatalogInv'
    OBVIOUS
  <1>1. ASSUME NEW p \in Products, Command(p) PROVE CatalogInv'
    BY <1>1, CreateKeeps, DraftCommands, PricesKeep, StatusKeeps DEF Command
  <1> QED
    BY <1>1, CommitKeeps, OthersKeep DEF Next

(* Every row is sound, and the next one is the committed one's next         *)
(* version (catalog/service.ts:17-24, 171-186).                             *)
THEOREM CatalogInvariant == Spec => []CatalogInv
  <1> QED
    BY CatalogInit, CatalogStep, PTL DEF Spec

(* What is not archived has the status of its product, in every run.        *)
THEOREM VariantsFollow == Spec => []VariantsFollowProduct
  <1>1. CatalogInv => VariantsFollowProduct
    BY DEF CatalogInv, RowOK, VariantsFollowProduct
  <1> QED
    BY <1>1, CatalogInvariant, PTL

(* A public product keeps what its publication was granted for.             *)
THEOREM PublishedComplete == Spec => []PublishedIsComplete
  <1>1. CatalogInv => PublishedIsComplete
    BY DEF CatalogInv, RowOK, PublishedIsComplete
  <1> QED
    BY <1>1, CatalogInvariant, PTL

(* The events of a product are its history, version by version.             *)
THEOREM EventsTell == Spec => []EventsTellTheProduct
  <1>1. CatalogInv => EventsTellTheProduct
    BY DEF CatalogInv
  <1> QED
    BY <1>1, CatalogInvariant, PTL

(* A public address belongs to one product, which never gets another one.   *)
THEOREM LinksStand == Spec => []LinksStay
  <1>1. CatalogInv => LinksStay
    <2> SUFFICES ASSUME CatalogInv, NEW a \in links, NEW b \in links
                 PROVE  (a[1] = b[1] <=> a[2] = b[2]) /\ products[a[2]].slug = a[1]
      BY DEF LinksStay
    <2>1. /\ a[2] \in Products /\ b[2] \in Products
          /\ products[a[2]].slug = a[1] /\ Exists(a[2])
          /\ products[b[2]].slug = b[1] /\ Exists(b[2])
      BY DEF CatalogInv, CatalogTypeOK, LinksBind, Exists
    <2> QED
      BY <2>1 DEF CatalogInv, SlugsDiffer, SlugFree
  <1> QED
    BY <1>1, CatalogInvariant, PTL

(* What a command writes keeps the prices of instants that have come: only  *)
(* closures take prices away, and only of the future (0002_catalog.sql:88). *)
THEOREM DraftsSpare == Spec => DraftsSpareThePast
  <1> DEFINE Act == tx = None /\ tx' # None /\ Exists(tx'.product) =>
                        \A v \in Variants, t \in 0..now:
                            Priced(products[tx'.product], v, t) => Priced(tx'.row, v, t)
  <1>1. CatalogInv /\ [Next]_vars => [Act]_tx
    <2> SUFFICES ASSUME CatalogInv, [Next]_vars, tx = None, tx' # None, Exists(tx'.product),
                        NEW u \in Variants, NEW t \in 0..now, Priced(products[tx'.product], u, t)
                 PROVE  Priced(tx'.row, u, t)
      OBVIOUS
    <2>1. PICK p \in Products: Command(p)
      BY DEF Next, Commit, Abort, Tick, ReferencesChange, vars
    <2> DEFINE row == products[p]
    <2>2. /\ row \in Rows /\ now \in Nat
          /\ row.prices \in [Variants -> SUBSET Prices]
      BY RowFacts DEF CatalogInv, CatalogTypeOK, Rows
    <2>3. ASSUME NEW seen, NEW new \in Rows, Propose(p, seen, new)
          PROVE  tx'.product = p /\ tx'.row.prices = new.prices
      BY <2>3 DEF Propose, Bump, Rows
    <2>4. ASSUME NEW seen, NEW new \in Rows, Propose(p, seen, new), new.prices = row.prices
          PROVE  Priced(tx'.row, u, t)
      BY <2>3, <2>4 DEF Priced
    <2>5. ASSUME NEW slug \in Slugs, NEW described \in BOOLEAN, NEW filed \in BOOLEAN,
                 Create(p, slug, described, filed)
          PROVE  FALSE
      <3>1. tx'.product = p /\ ~Exists(p)
        BY <2>5 DEF Create, Propose
      <3> QED
        BY <3>1 DEF Exists
    <2>6. ASSUME NEW seen \in 1..MaxVersion, NEW slug \in Slugs \cup {None},
                 NEW described \in BOOLEAN \cup {None}, NEW filed \in BOOLEAN \cup {None},
                 Edit(p, seen, slug, described, filed)
          PROVE  Priced(tx'.row, u, t)
      <3> DEFINE new == [row EXCEPT !.slug = Given(slug, @), !.described = Given(described, @),
                                    !.filed = Given(filed, @)]
      <3>1. /\ Given(slug, row.slug) \in Slugs \cup {None}
            /\ Given(described, row.described) \in BOOLEAN /\ Given(filed, row.filed) \in BOOLEAN
        BY <2>2 DEF Given, Rows
      <3>2. new \in Rows /\ new.prices = row.prices
        BY <2>2, <3>1 DEF Rows
      <3>3. Propose(p, seen, new)
        BY <2>6 DEF Edit
      <3> HIDE DEF new
      <3> QED
        BY <2>4, <3>2, <3>3
    <2>7. ASSUME NEW seen \in 1..MaxVersion, NEW pictured \in BOOLEAN, AttachMedia(p, seen, pictured)
          PROVE  Priced(tx'.row, u, t)
      <3> DEFINE new == [row EXCEPT !.pictured = pictured]
      <3>1. new \in Rows /\ new.prices = row.prices /\ Propose(p, seen, new)
        BY <2>2, <2>7 DEF Rows, AttachMedia
      <3> HIDE DEF new
      <3> QED
        BY <2>4, <3>1
    <2>8. ASSUME NEW seen \in 1..MaxVersion, NEW v \in Variants, NEW status \in {"draft", "archived"},
                 Propose(p, seen, [row EXCEPT !.variants[v] = status])
          PROVE  Priced(tx'.row, u, t)
      <3> DEFINE new == [row EXCEPT !.variants[v] = status]
      <3>1. new \in Rows /\ new.prices = row.prices /\ Propose(p, seen, new)
        BY <2>2, <2>8 DEF Rows
      <3> HIDE DEF new
      <3> QED
        BY <2>4, <3>1
    <2>9. ASSUME NEW seen \in 1..MaxVersion, NEW v \in Variants, EditVariant(p, seen, v)
          PROVE  Priced(tx'.row, u, t)
      BY <2>2, <2>4, <2>9 DEF EditVariant
    <2>10. ASSUME NEW seen, NEW v \in Variants, NEW prices \in SUBSET Prices,
                  Propose(p, seen, [row EXCEPT !.prices[v] = prices]),
                  \A i \in row.prices[v]: i.from <= t /\ t < i.to =>
                      \E j \in prices: j.from <= t /\ t < j.to
           PROVE  Priced(tx'.row, u, t)
      <3> DEFINE new == [row EXCEPT !.prices[v] = prices]
      <3>1. new \in Rows /\ new.prices = [row.prices EXCEPT ![v] = prices] /\ Propose(p, seen, new)
        BY <2>2, <2>10 DEF Rows
      <3> HIDE DEF new
      <3>2. tx'.product = p /\ tx'.row.prices = [row.prices EXCEPT ![v] = prices]
        BY <2>3, <3>1
      <3>3. tx'.row.prices[u] = IF u = v THEN prices ELSE row.prices[u]
        BY <2>2, <3>2
      <3>4. PICK i \in row.prices[u]: i.from <= t /\ t < i.to
        BY <3>2 DEF Priced
      <3>5. \E j \in tx'.row.prices[u]: j.from <= t /\ t < j.to
        BY <2>10, <3>3, <3>4
      <3> QED
        BY <3>5 DEF Priced
    <2>11. ASSUME NEW seen \in 1..MaxVersion, NEW v \in Variants, NEW i \in Prices, AddPrice(p, seen, v, i)
           PROVE  Priced(tx'.row, u, t)
      <3> DEFINE prices == row.prices[v] \cup {i}
      <3>1. /\ prices \in SUBSET Prices /\ Propose(p, seen, [row EXCEPT !.prices[v] = prices])
            /\ \A j \in row.prices[v]: j \in prices
        BY <2>2, <2>11 DEF AddPrice
      <3> HIDE DEF prices
      <3> QED
        BY <2>10, <3>1
    <2>12. ASSUME NEW seen \in 1..MaxVersion, NEW v \in Variants, NEW i \in Prices, NEW to \in 1..Horizon,
                  ClosePrice(p, seen, v, i, to)
           PROVE  Priced(tx'.row, u, t)
      <3> DEFINE shut == [i EXCEPT !.to = to]
                 prices == (row.prices[v] \ {i}) \cup {shut}
      <3>1. Propose(p, seen, [row EXCEPT !.prices[v] = prices]) /\ MayClose(i, to)
        BY <2>12 DEF ClosePrice
      <3>2. shut \in Prices /\ shut.from = i.from /\ shut.to = to
        BY <3>1 DEF Prices, Forever, MayClose
      <3> HIDE DEF shut
      <3>3. prices \in SUBSET Prices /\ shut \in prices /\ \A j \in row.prices[v]: j = i \/ j \in prices
        BY <2>2, <3>2
      <3> HIDE DEF prices
      <3>4. (shut.from <= t /\ t < shut.to) \/ ~(i.from <= t /\ t < i.to)
        <4>1. now < to
          BY <2>2, <3>1 DEF MayClose
        <4> QED
          BY <2>2, <3>2, <4>1
      <3> QED
        BY <2>10, <3>1, <3>3, <3>4
    <2>13. ASSUME NEW seen \in 1..MaxVersion, NEW status \in {"draft", "published", "archived"},
                  Propose(p, seen, WithStatus(row, status))
           PROVE  Priced(tx'.row, u, t)
      <3> DEFINE new == WithStatus(row, status)
      <3>1. [v \in Variants |-> IF v \in Live(row) THEN status ELSE row.variants[v]]
                \in [Variants -> {"absent", "draft", "published", "archived"}]
        BY <2>2 DEF Rows
      <3>2. new \in Rows /\ new.prices = row.prices
        BY <2>2, <3>1 DEF WithStatus, Rows
      <3> HIDE DEF new
      <3>3. Propose(p, seen, new)
        BY <2>13 DEF new
      <3> QED
        BY <2>4, <3>2, <3>3
    <2> QED
      BY <2>1, <2>5, <2>6, <2>7, <2>8, <2>9, <2>11, <2>12, <2>13
         DEF Command, CreateVariant, ArchiveVariant, Publish, Unpublish, Archive
  <1> QED
    BY <1>1, CatalogInvariant, PTL DEF Spec, DraftsSpareThePast

-----------------------------------------------------------------------------
(* A nonempty set of naturals has a least member.                           *)
LEMMA LeastMember ==
    ASSUME NEW T, T \subseteq Nat, T # {}
    PROVE  \E x \in T: \A y \in T: x <= y
  <1>1. \E x \in T: \A y \in T: ~(<<y, x>> \in OpToRel(<, Nat))
    BY WFMin, NatLessThanWellFounded, Zenon
  <1>2. \A x \in T, y \in T: y < x => <<y, x>> \in OpToRel(<, Nat)
    BY DEF OpToRel
  <1>3. \E x \in T: \A y \in T: ~(y < x)
    BY <1>1, <1>2, Zenon
  <1> QED
    BY ONLY <1>3, T \subseteq Nat

(* Every finite set of identifiers has an ordering: a smallest one without  *)
(* would have one from its second member on.                                *)
LEMMA OrderingExists ==
    ASSUME NEW ids \in SUBSET Nat, IsFiniteSet(ids)
    PROVE  \E s \in [1..Cardinality(ids) -> ids]:
              /\ ToSet(s) = ids
              /\ \A i, j \in 1..Cardinality(ids): i < j => s[i] < s[j]
  <1> DEFINE Orders(s, S) == /\ s \in [1..Cardinality(S) -> S] /\ ToSet(s) = S
                             /\ \A i, j \in 1..Cardinality(S): i < j => s[i] < s[j]
             Lacks(S) == IsFiniteSet(S) /\ ~(\E s \in [1..Cardinality(S) -> S]: Orders(s, S))
             Sizes == {n \in Nat: \E S \in SUBSET Nat: Lacks(S) /\ Cardinality(S) = n}
  <1>1. Sizes = {}
    <2> SUFFICES ASSUME Sizes # {} PROVE FALSE
      OBVIOUS
    <2>1. PICK n \in Sizes: \A m \in Sizes: n <= m
      <3>1. Sizes \subseteq Nat
        OBVIOUS
      <3> HIDE DEF Sizes
      <3> QED
        BY <3>1, LeastMember
    <2>2. PICK S \in SUBSET Nat: Lacks(S) /\ Cardinality(S) = n
      OBVIOUS
    <2>3. S # {}
      <3> SUFFICES ASSUME S = {} PROVE FALSE
        OBVIOUS
      <3>1. 1..Cardinality(S) = {}
        BY FS_EmptySet
      <3> DEFINE e == [i \in {} |-> 0]
      <3>2. e \in [{} -> {}] /\ ToSet(e) = {}
        BY DEF ToSet
      <3>3. e \in [1..Cardinality(S) -> S] /\ Orders(e, S)
        BY <3>1, <3>2
      <3> QED
        BY <2>2, <3>3
    <2>4. PICK m \in S: \A p \in S: m <= p
      BY <2>3, LeastMember
    <2> DEFINE T == S \ {m}
    <2>5. IsFiniteSet(T) /\ Cardinality(T) = n - 1 /\ n \in Nat \ {0} /\ T \in SUBSET Nat
      BY <2>2, <2>3, FS_RemoveElement, FS_EmptySet
    <2>6. \A p \in T: m < p
      BY <2>4
    <2>7. PICK s \in [1..(n - 1) -> T]: Orders(s, T)
      <3> HIDE DEF T, Orders
      <3>1. n - 1 \in Nat /\ ~(n <= n - 1)
        BY <2>5
      <3>2. n - 1 \notin Sizes
        BY <2>1, <3>1, Zenon
      <3>3. ~Lacks(T)
        BY <2>5, <3>1, <3>2
      <3> QED
        BY <2>5, <3>3
    <2> DEFINE r == [i \in 1..n |-> IF i = 1 THEN m ELSE s[i - 1]]
    <2>8. /\ \A i, j \in 1..(n - 1): i < j => s[i] < s[j]
          /\ \A i \in 1..(n - 1): s[i] \in T
          /\ \A p \in T: \E i \in 1..(n - 1): s[i] = p
      BY <2>5, <2>7 DEF ToSet
    <2> HIDE DEF T, Orders, Sizes, Lacks
    <2>9. \A i \in 1..n: r[i] = IF i = 1 THEN m ELSE s[i - 1]
      OBVIOUS
    <2>10. \A i \in 1..n: i # 1 => i - 1 \in 1..(n - 1)
      BY <2>5
    <2>11. r \in [1..n -> S]
      BY <2>8, <2>10 DEF T
    <2>12. \A p \in S: \E i \in 1..n: r[i] = p
      <3> TAKE p \in S
      <3>1. CASE p = m
        BY <2>5, <2>9, <3>1
      <3>2. CASE p # m
        <4>1. PICK i \in 1..(n - 1): s[i] = p
          BY <2>8, <3>2 DEF T
        <4>2. i + 1 \in 1..n /\ i + 1 # 1 /\ (i + 1) - 1 = i
          BY <2>5
        <4> QED
          BY <2>9, <4>1, <4>2
      <3> QED
        BY <3>1, <3>2
    <2>13. ToSet(r) = S
      <3>1. ToSet(r) = {r[i]: i \in 1..n}
        BY <2>11 DEF ToSet
      <3>2. \A i \in 1..n: r[i] \in S
        BY <2>11
      <3>3. \A p \in S: p \in ToSet(r)
        BY <2>12, <3>1
      <3>4. \A p \in ToSet(r): p \in S
        BY <3>1, <3>2
      <3> QED
        BY <3>3, <3>4
    <2>14. \A i, j \in 1..n: i < j => r[i] < r[j]
      <3> SUFFICES ASSUME NEW i \in 1..n, NEW j \in 1..n, i < j PROVE r[i] < r[j]
        OBVIOUS
      <3>1. j # 1 /\ j - 1 \in 1..(n - 1) /\ r[j] = s[j - 1]
        BY <2>5, <2>9
      <3>2. CASE i = 1
        BY <2>6, <2>8, <2>9, <3>1, <3>2
      <3>3. CASE i # 1
        <4>1. i - 1 \in 1..(n - 1) /\ i - 1 < j - 1 /\ r[i] = s[i - 1]
          BY <2>5, <2>9, <3>3
        <4> QED
          BY <2>8, <3>1, <4>1
      <3> QED
        BY <3>2, <3>3
    <2> HIDE DEF r
    <2> QED
      BY <2>2, <2>11, <2>13, <2>14 DEF Orders, Lacks
  <1>2. Cardinality(ids) \in Nat
    BY FS_CardinalityType
  <1>3. ~Lacks(ids)
    BY <1>1, <1>2
  <1> QED
    BY <1>3

(* What a page in ascending order is.                                       *)
LEMMA InOrderOrders ==
    ASSUME NEW ids \in SUBSET Nat, IsFiniteSet(ids)
    PROVE  /\ Cardinality(ids) \in Nat
           /\ InOrder(ids) \in [1..Cardinality(ids) -> ids] /\ InOrder(ids) \in Seq(ids)
           /\ Len(InOrder(ids)) = Cardinality(ids)
           /\ ToSet(InOrder(ids)) = ids
           /\ \A i, j \in 1..Cardinality(ids): i < j => InOrder(ids)[i] < InOrder(ids)[j]
  <1>1. Cardinality(ids) \in Nat
    BY FS_CardinalityType
  <1>2. /\ InOrder(ids) \in [1..Cardinality(ids) -> ids]
        /\ ToSet(InOrder(ids)) = ids
        /\ \A i, j \in 1..Cardinality(ids): i < j => InOrder(ids)[i] < InOrder(ids)[j]
    BY OrderingExists DEF InOrder
  <1> QED
    BY <1>1, <1>2

(* LIMIT takes from the front of the order.                                 *)
LEMMA FirstAreFirst ==
    ASSUME NEW ids \in SUBSET Nat, IsFiniteSet(ids), NEW n \in Nat,
           NEW p \in ids, NEW q \in First(n, ids), p <= q
    PROVE  p \in First(n, ids)
  <1>1. Before(p, ids) \subseteq Before(q, ids) /\ Before(q, ids) \subseteq ids /\ q \in ids
    <2>1. q \in ids /\ Before(q, ids) \subseteq ids
      BY DEF First, Before
    <2>2. ASSUME NEW r \in Before(p, ids) PROVE r \in Before(q, ids)
      <3>1. r \in ids /\ r < p
        BY DEF Before
      <3>2. r \in Nat /\ p \in Nat /\ q \in Nat
        BY <2>1, <3>1
      <3>3. r < q
        BY <3>1, <3>2
      <3> QED
        BY <3>1, <3>3 DEF Before
    <2> QED
      BY <2>1, <2>2
  <1>2. IsFiniteSet(Before(q, ids)) /\ IsFiniteSet(Before(p, ids))
    BY <1>1, FS_Subset
  <1>3. Cardinality(Before(p, ids)) <= Cardinality(Before(q, ids))
    BY <1>1, <1>2, FS_Subset
  <1>4. Cardinality(Before(p, ids)) \in Nat /\ Cardinality(Before(q, ids)) \in Nat
    BY <1>2, FS_CardinalityType
  <1>5. Cardinality(Before(q, ids)) < n
    BY DEF First
  <1> QED
    BY <1>3, <1>4, <1>5 DEF First

(* Only an empty set has no first member.                                   *)
LEMMA SomeFirst ==
    ASSUME NEW ids \in SUBSET Nat, IsFiniteSet(ids), NEW n \in Nat \ {0}, ids # {}
    PROVE  First(n, ids) # {}
  <1>1. PICK p \in ids: \A q \in ids: p <= q
    BY LeastMember
  <1>2. Before(p, ids) = {}
    <2>1. \A q \in ids: ~(q < p)
      BY <1>1
    <2> QED
      BY <2>1 DEF Before
  <1>3. Cardinality(Before(p, ids)) = 0
    BY <1>2, FS_EmptySet
  <1> QED
    BY <1>3 DEF First

(* A limit that is not used up has cut nothing off: the least identifier    *)
(* beyond it would have had the limit of them before it.                    *)
LEMMA NothingCut ==
    ASSUME NEW ids \in SUBSET Nat, IsFiniteSet(ids), NEW n \in Nat,
           Cardinality(First(n + 1, ids)) <= n
    PROVE  First(n + 1, ids) = ids /\ First(n, First(n + 1, ids)) = ids
  <1> DEFINE rows == First(n + 1, ids)
  <1>1. rows \subseteq ids /\ IsFiniteSet(rows)
    <2>1. rows \subseteq ids
      BY DEF First
    <2> QED
      BY <2>1, FS_Subset
  <1>2. Cardinality(rows) \in Nat
    BY <1>1, FS_CardinalityType
  <1>3. ids \ rows = {}
    <2> SUFFICES ASSUME ids \ rows # {} PROVE FALSE
      OBVIOUS
    <2> HIDE DEF rows
    <2>1. ids \ rows \subseteq Nat
      OBVIOUS
    <2>2. PICK p \in ids \ rows: \A q \in ids \ rows: p <= q
      BY <2>1, LeastMember
    <2>3. Before(p, ids) \subseteq rows
      <3>1. \A q \in ids \ rows: ~(q < p)
        BY <2>2
      <3> QED
        BY <3>1 DEF Before
    <2>4. Cardinality(Before(p, ids)) <= Cardinality(rows) /\ IsFiniteSet(Before(p, ids))
      BY <1>1, <2>3, FS_Subset
    <2>5. Cardinality(Before(p, ids)) \in Nat
      BY <2>4, FS_CardinalityType
    <2>6. Cardinality(Before(p, ids)) < n + 1
      BY <1>2, <2>4, <2>5 DEF rows
    <2>7. p \in rows
      BY <2>6 DEF First, rows
    <2> QED
      BY <2>7
  <1>4. rows = ids
    BY <1>1, <1>3
  <1>5. ASSUME NEW p \in ids PROVE Cardinality(Before(p, ids)) < n
    <2> DEFINE before == Before(p, ids)
    <2>1. before \subseteq ids /\ before # ids
      <3>1. p \notin before
        BY DEF Before
      <3>2. before \subseteq ids
        BY DEF Before
      <3> QED
        BY <3>1, <3>2
    <2> HIDE DEF before
    <2>2. IsFiniteSet(before) /\ Cardinality(before) <= Cardinality(ids) /\ Cardinality(before) # Cardinality(ids)
      BY <2>1, FS_Subset
    <2>3. Cardinality(before) \in Nat
      BY <2>2, FS_CardinalityType
    <2>4. Cardinality(before) < n
      BY <1>2, <1>4, <2>2, <2>3
    <2> QED
      BY <2>4 DEF before
  <1>6. First(n, ids) = ids
    BY <1>5 DEF First
  <1> QED
    BY <1>4, <1>6
-----------------------------------------------------------------------------
(* The clock goes on, and the history of a read only grows.                 *)
LEMMA WatchFacts ==
    ASSUME ReadInv, ReadNext
    PROVE  /\ CatalogInv' /\ now \in 0..Horizon /\ now' \in 0..Horizon /\ now <= now'
           /\ since' = IF read.stage = "clock" THEN now ELSE since
           /\ since \in 0..now /\ since' \in 0..now'
           /\ truths'.sold = truths.sold \cup (IF Observing' THEN {Sold'} ELSE {})
           /\ truths'.missing = truths.missing \cup (IF Observing' THEN Missing' ELSE {})
           /\ truths'.pages = truths.pages \cup (IF Paging' THEN Public' ELSE {})
  <1>1. CatalogInv /\ [Next]_vars /\ since \in 0..now
    BY DEF ReadInv, ReadNext
  <1>2. CatalogInv'
    BY <1>1, CatalogStep
  <1>3. now \in 0..Horizon /\ now' \in 0..Horizon
    BY <1>1, <1>2 DEF CatalogInv, CatalogTypeOK
  <1>4. now' = now \/ now' = now + 1
    <2>1. ASSUME NEW p \in Products, Command(p) PROVE now' = now
      <3>1. ASSUME NEW s, NEW row, Propose(p, s, row) PROVE now' = now
        BY <3>1 DEF Propose
      <3> QED
        BY <2>1, <3>1 DEF Command, Create, Edit, AttachMedia, CreateVariant, EditVariant, ArchiveVariant,
                          AddPrice, ClosePrice, Publish, Unpublish, Archive
    <2> QED
      BY <1>1, <2>1 DEF Next, Commit, Abort, Tick, ReferencesChange, vars
  <1>5. Watch
    BY DEF ReadNext
  <1> QED
    BY <1>1, <1>2, <1>3, <1>4, <1>5 DEF Watch

(* The record of a read keeps its form.                                     *)
LEMMA ReadTyped ==
    ASSUME ReadInv, ReadNext
    PROVE  read' \in Reads
  <1>1. /\ read \in Reads /\ now \in 0..Horizon /\ supported \in BOOLEAN
        /\ products \in [Products -> Rows]
        /\ \A p \in Products: products[p].version \in 0..MaxVersion
    BY DEF ReadInv, CatalogInv, CatalogTypeOK, Rows
  <1>2. CASE ReadStep
    <2>1. ASSUME NEW slug \in Slugs, BeginPage(slug) PROVE read' \in Reads
      BY <1>1, <2>1 DEF BeginPage, Reads, Stages
    <2>2. ASSUME NEW lines \in SUBSET (Products \X Variants), BeginCart(lines) PROVE read' \in Reads
      BY <1>1, <2>2 DEF BeginCart, Reads, Stages
    <2>3. CASE ReadPageProduct
      <3>1. CASE read' = [read EXCEPT !.stage = "refused"]
        BY <1>1, <3>1 DEF Reads, Stages
      <3>2. CASE read' # [read EXCEPT !.stage = "refused"]
        <4>1. PICK p \in Products:
                  read' = [read EXCEPT !.product = p, !.version = products[p].version, !.stage = "references",
                              !.snapshot = [products |-> products, supported |-> supported]]
          BY <2>3, <3>2 DEF ReadPageProduct
        <4>2. [products |-> products, supported |-> supported] \in [products: [Products -> Rows], supported: BOOLEAN]
          BY <1>1
        <4> QED
          BY <1>1, <4>1, <4>2 DEF Reads, Stages
      <3> QED
        BY <3>1, <3>2
    <2>4. CASE ReadClock
      BY <1>1, <2>4 DEF ReadClock, Reads, Stages
    <2>5. CASE ReadRows
      <3> DEFINE shown == {l \in read.lines: OnOffer(View.products[l[1]], l[2], read.at)}
                 todo == {l[1]: l \in read.lines}
      <3>1. shown \subseteq (Products \cup {None}) \X Variants /\ todo \subseteq Products
        <4>1. read.lines \subseteq Products \X Variants
          BY <1>1 DEF Reads
        <4> QED
          BY <4>1
      <3>2. read' = [read EXCEPT !.stage = "product", !.todo = todo, !.shown = shown]
        BY <2>5 DEF ReadRows
      <3> HIDE DEF shown, todo
      <3> QED
        BY <1>1, <3>1, <3>2 DEF Reads, Stages
    <2>6. ASSUME NEW p, NEW eligible, Judged(p, eligible) PROVE read' \in Reads
      <3> DEFINE shown == {l \in read.shown: l[1] = p => eligible}
                 todo == read.todo \ {p}
      <3>1. shown \subseteq (Products \cup {None}) \X Variants /\ todo \subseteq Products
        BY <1>1 DEF Reads
      <3>2. read' = [read EXCEPT !.todo = todo, !.stage = IF todo = {} THEN "answered" ELSE "product",
                                 !.shown = shown]
        BY <2>6, <1>1 DEF Judged, Reads
      <3> HIDE DEF shown, todo
      <3>3. PICK next \in Stages: read' = [read EXCEPT !.todo = todo, !.stage = next, !.shown = shown]
        BY <3>2 DEF Stages
      <3> QED
        BY <1>1, <3>1, <3>3 DEF Reads
    <2>7. CASE ReadProduct
      <3>1. PICK p \in read.todo:
                \/ read' = [read EXCEPT !.product = p, !.stage = "references"]
                \/ Judged(p, FALSE)
        BY <2>7 DEF ReadProduct
      <3>2. p \in Products
        BY <1>1 DEF Reads
      <3>3. CASE read' = [read EXCEPT !.product = p, !.stage = "references"]
        BY <1>1, <3>2, <3>3 DEF Reads, Stages
      <3> QED
        BY <2>6, <3>1, <3>3
    <2>8. ASSUME NEW eligible, Answer(eligible) PROVE read' \in Reads
      <3>1. CASE read.kind = "page"
        BY <1>1, <2>8, <3>1 DEF Answer, Reads, Stages
      <3> QED
        BY <2>6, <2>8, <3>1 DEF Answer
    <2>9. ASSUME NEW stage, NEW holds, NEW next \in Stages, Require(stage, holds, next) PROVE read' \in Reads
      <3>1. CASE read' = [read EXCEPT !.stage = next]
        BY <1>1, <3>1 DEF Reads
      <3> QED
        BY <2>8, <2>9, <3>1 DEF Require
    <2>10. CASE ReadCategories \/ ReadBrand \/ ReadImage \/ ReadPrices \/ ReadAttributes
      <3>1. \A stage \in {"brand", "image", "prices", "attributes"}: stage \in Stages
        BY DEF Stages
      <3> QED
        BY <2>8, <2>9, <2>10, <3>1 DEF ReadCategories, ReadBrand, ReadImage, ReadPrices, ReadAttributes
    <2>11. CASE ReadPageVariants
      <3> DEFINE shown == {read.product} \X {v \in Variants: OnOffer(Row, v, read.at)}
      <3>1. shown \subseteq (Products \cup {None}) \X Variants
        BY <1>1 DEF Reads
      <3>2. read' = [read EXCEPT !.shown = shown, !.stage = IF shown = {} THEN "refused" ELSE "answered"]
        BY <2>11 DEF ReadPageVariants
      <3> HIDE DEF shown
      <3>3. PICK next \in Stages: read' = [read EXCEPT !.shown = shown, !.stage = next]
        BY <3>2 DEF Stages
      <3> QED
        BY <1>1, <3>1, <3>3 DEF Reads
    <2> QED
      BY <1>2, <2>1, <2>2, <2>3, <2>4, <2>5, <2>7, <2>10, <2>11 DEF ReadStep
  <1>3. CASE read' = read
    BY <1>1, <1>3
  <1> QED
    BY <1>2, <1>3 DEF ReadNext

(* The text of a page and its variants come from the snapshot taken with    *)
(* its first query, in which the product was published.                     *)
LEMMA PageKept ==
    ASSUME ReadInv, ReadNext
    PROVE  PageInv'
  <1>1. truths.pages \subseteq truths'.pages /\ read \in Reads /\ PageInv
    BY WatchFacts DEF ReadInv
  <1>2. CASE read' = read
    BY <1>1, <1>2 DEF PageInv
  <1>3. CASE ReadStep /\ UNCHANGED <<vars, list>>
    <2>1. ASSUME NEW slug \in Slugs, BeginPage(slug) PROVE PageInv'
      BY <1>1, <2>1 DEF BeginPage, PageInv, Reads
    <2>2. ASSUME NEW lines \in SUBSET (Products \X Variants), BeginCart(lines) PROVE PageInv'
      BY <1>1, <2>2 DEF BeginCart, PageInv, Reads
    <2>3. CASE ReadPageProduct
      <3>1. CASE read' = [read EXCEPT !.stage = "refused"]
        BY <1>1, <3>1 DEF PageInv, Reads
      <3>2. CASE read' # [read EXCEPT !.stage = "refused"]
        <4>1. PICK p \in Products:
                  /\ read' = [read EXCEPT !.product = p, !.version = products[p].version, !.stage = "references",
                                 !.snapshot = [products |-> products, supported |-> supported]]
                  /\ products[p].status = "published"
          BY <2>3, <3>2 DEF ReadPageProduct
        <4>2. /\ read'.kind = "page" /\ read'.stage = "references" /\ read'.product = p
              /\ read'.version = products[p].version /\ read'.snapshot.products = products
              /\ read'.snapshot = [products |-> products, supported |-> supported]
          BY <1>1, <2>3, <4>1 DEF ReadPageProduct, Reads
        <4>3. \A v \in Live(products[p]): products[p].variants[v] = "published"
          BY <4>1 DEF ReadInv, CatalogInv, RowOK
        <4>4. products' = products /\ Paging'
          BY <1>3, <4>2 DEF vars, Paging
        <4>5. <<products[p].version, Shelf(p, products[p])>> \in Public'
          BY <4>1, <4>4 DEF Public, Shelf, Live
        <4>6. <<products[p].version, Shelf(p, products[p])>> \in truths'.pages
          BY <4>4, <4>5, WatchFacts
        <4> QED
          BY <4>2, <4>3, <4>6 DEF PageInv, Shelf, Live
      <3> QED
        BY <3>1, <3>2
    <2>4. CASE ReadClock \/ ReadRows
      <3>1. read.kind # "page"
        BY <1>1, <2>4 DEF ReadClock, ReadRows, PageInv
      <3>2. read'.kind = read.kind
        BY <1>1, <2>4 DEF ReadClock, ReadRows, Reads
      <3> QED
        BY <3>1, <3>2 DEF PageInv
    <2>5. ASSUME read.kind # "page", read'.kind = read.kind PROVE PageInv'
      BY <2>5 DEF PageInv
    <2>6. ASSUME NEW p, NEW eligible, Judged(p, eligible), read.kind # "page" PROVE PageInv'
      <3>1. read'.kind = read.kind
        BY <1>1, <2>6 DEF Judged, Reads
      <3> QED
        BY <2>5, <2>6, <3>1
    <2>7. CASE ReadProduct
      <3>1. PICK p \in read.todo:
                \/ read' = [read EXCEPT !.product = p, !.stage = "references"]
                \/ Judged(p, FALSE)
        BY <2>7 DEF ReadProduct
      <3>2. read.kind # "page"
        BY <2>7 DEF ReadProduct
      <3>3. CASE read' = [read EXCEPT !.product = p, !.stage = "references"]
        BY <1>1, <2>5, <3>2, <3>3 DEF Reads
      <3> QED
        BY <2>6, <3>1, <3>2, <3>3
    <2>8. ASSUME Answer(FALSE) PROVE PageInv'
      <3>1. CASE read.kind = "page"
        BY <1>1, <2>8, <3>1 DEF Answer, Reads, PageInv
      <3>2. CASE read.kind # "page"
        <4>1. Judged(read.product, FALSE)
          BY <2>8, <3>2 DEF Answer
        <4> QED
          BY <2>6, <3>2, <4>1
      <3> QED
        BY <3>1, <3>2
    <2>10. CASE ReadCategories \/ ReadBrand \/ ReadImage
      <3>1. ASSUME NEW next \in {"brand", "image", "prices"}, read' = [read EXCEPT !.stage = next],
                   read.stage \in {"references", "brand", "image"}
            PROVE  PageInv'
        BY <1>1, <3>1 DEF Reads, PageInv
      <3> QED
        BY <2>8, <2>10, <3>1 DEF ReadCategories, ReadBrand, ReadImage, Require
    <2>11. CASE ReadPrices
      <3>1. CASE read' = [read EXCEPT !.stage = "attributes"] /\ read.stage = "prices"
                 /\ \A v \in Live(Row): Priced(Row, v, read.at)
        BY <1>1, <3>1 DEF Reads, PageInv, Row, View
      <3> QED
        BY <2>8, <2>11, <3>1 DEF ReadPrices, Require
    <2>12. CASE ReadAttributes
      <3>1. CASE read.kind = "page"
        BY <1>1, <2>12, <3>1 DEF ReadAttributes, Answer, Reads, PageInv
      <3> QED
        BY <2>6, <2>12, <3>1 DEF ReadAttributes, Answer
    <2>9. CASE ReadPageVariants
      <3> DEFINE row == read.snapshot.products[read.product]
                 shown == {read.product} \X {v \in Variants: OnOffer(Row, v, read.at)}
      <3>1. /\ read'.kind = read.kind /\ read'.shown = shown /\ read'.version = read.version
            /\ read'.stage = IF shown = {} THEN "refused" ELSE "answered"
            /\ read.stage = "page"
        BY <1>1, <2>9 DEF ReadPageVariants, Reads
      <3>2. SUFFICES ASSUME read.kind = "page" PROVE PageInv'
        BY <3>1 DEF PageInv
      <3>3. Row = row
        BY <3>2 DEF Row, View
      <3>4. /\ \A v \in Live(row): row.variants[v] = "published" /\ Priced(row, v, read.at)
            /\ <<read.version, Shelf(read.product, row)>> \in truths.pages
        BY <1>1, <3>1, <3>2 DEF PageInv
      <3> HIDE DEF row
      <3>5. {v \in Variants: OnOffer(Row, v, read.at)} = Live(row)
        BY <3>3, <3>4 DEF OnOffer, Live
      <3>6. shown = Shelf(read.product, row)
        BY <3>5 DEF Shelf
      <3> HIDE DEF shown
      <3> QED
        BY <1>1, <3>1, <3>4, <3>6 DEF PageInv
    <2> QED
      BY <1>3, <2>1, <2>2, <2>3, <2>4, <2>7, <2>9, <2>10, <2>11, <2>12 DEF ReadStep
  <1> QED
    BY <1>2, <1>3 DEF ReadNext

(* A statement that denies a product its eligibility saw a moment at which  *)
(* none of its lines was for sale.                                          *)
LEMMA DenialIsTrue ==
    ASSUME ReadInv, Observing, read.stage \notin {"none", "clock"}, NEW p,
           \/ ~(products[p].status = "published" /\ products[p].described)
           \/ ~(products[p].filed /\ supported)
           \/ ~(products[p].pictured /\ supported)
           \/ ~(Live(products[p]) # {} /\ \A v \in Live(products[p]): Priced(products[p], v, read.at))
           \/ ~supported
    PROVE  {l \in read.lines: l[1] = p} \subseteq truths.missing
  <1>1. read.at = since /\ Missing \subseteq truths.missing
    BY DEF ReadInv, CartViewInv, Observing
  <1>2. since \in since..now
    BY DEF ReadInv, CatalogInv, CatalogTypeOK
  <1>3. \A v: ~OnSale(products[p], v, since) \/ ~Eligible(products[p], since)
    BY <1>1 DEF OnSale, Eligible
  <1>4. {l \in read.lines: l[1] = p} \subseteq Missing
    BY <1>2, <1>3 DEF Missing
  <1> QED
    BY <1>1, <1>4

(* The rows of a cart are read in one statement, and from then on the       *)
(* history holds what they showed; a judgement takes away only lines that   *)
(* are in it.                                                               *)
LEMMA CartKept ==
    ASSUME ReadInv, ReadNext
    PROVE  CartViewInv'
  <1>1. /\ read \in Reads /\ CartViewInv
        /\ truths.sold \subseteq truths'.sold /\ truths.missing \subseteq truths'.missing
        /\ Observing' => Missing' \subseteq truths'.missing
    BY WatchFacts DEF ReadInv
  <1>2. CASE read' = read
    <2>1. since' = since \/ read.stage = "clock"
      BY WatchFacts
    <2> QED
      BY <1>1, <1>2, <2>1 DEF CartViewInv
  <1>3. CASE ReadStep /\ UNCHANGED <<vars, list>>
    <2>0. products' = products /\ supported' = supported /\ now' = now
      BY <1>3 DEF vars
    <2>1. ASSUME NEW slug \in Slugs, BeginPage(slug) PROVE CartViewInv'
      BY <1>1, <2>1 DEF BeginPage, CartViewInv, Reads
    <2>2. ASSUME NEW lines \in SUBSET (Products \X Variants), BeginCart(lines) PROVE CartViewInv'
      <3>1. /\ read'.kind = "cart" /\ read'.stage = "clock"
        BY <1>1, <2>2 DEF BeginCart, Reads
      <3> QED
        BY <3>1 DEF CartViewInv, Observing
    <2>3. CASE ReadPageProduct
      <3>1. read'.kind = "page"
        BY <1>1, <2>3 DEF ReadPageProduct, Reads
      <3> QED
        BY <3>1 DEF CartViewInv
    <2>4. CASE ReadClock
      <3>1. /\ read'.kind = read.kind /\ read'.stage = "rows" /\ read'.at = now
            /\ read.stage = "clock" /\ since' = now
        BY <1>1, <2>4, WatchFacts DEF ReadClock, Reads
      <3> QED
        BY <1>1, <3>1 DEF CartViewInv
    <2>5. CASE ReadRows
      <3> DEFINE shown == {l \in read.lines: OnOffer(View.products[l[1]], l[2], read.at)}
      <3>1. /\ read'.kind = read.kind /\ read'.stage = "product"
            /\ read'.at = read.at /\ read'.lines = read.lines /\ read'.shown = shown
            /\ read.stage = "rows" /\ since' = since
        BY <1>1, <2>5, WatchFacts DEF ReadRows, Reads
      <3>2. SUFFICES ASSUME read.kind = "cart" PROVE CartViewInv'
        BY <3>1 DEF CartViewInv
      <3>3. View.products = products /\ read.at = since /\ read.lines \subseteq Products \X Variants
        BY <1>1, <3>1, <3>2 DEF View, CartViewInv, Reads
      <3>4. Observing'
        BY <3>1, <3>2 DEF Observing
      <3>5. ASSUME NEW l \in read.lines
            PROVE  OnOffer(View.products[l[1]], l[2], read.at) <=> OnSale(products[l[1]], l[2], since)
        <4>1. l[1] \in Products /\ l[2] \in Variants /\ RowOK(products[l[1]])
          BY <3>3 DEF ReadInv, CatalogInv
        <4>2. products[l[1]].variants[l[2]] = "published" => products[l[1]].status = "published"
          BY <4>1 DEF RowOK, Live
        <4> QED
          BY <3>3, <4>2 DEF OnOffer, OnSale
      <3>6. shown = {l \in read.lines: OnSale(products[l[1]], l[2], since)}
        BY <3>5
      <3> HIDE DEF shown
      <3>7. Sold' = shown
        BY <2>0, <3>1, <3>6 DEF Sold, OnSale, Priced
      <3>8. since \in since'..now'
        BY <3>1, WatchFacts
      <3>9. read.lines \ shown \subseteq Missing'
        BY <2>0, <3>1, <3>6, <3>8 DEF Missing, OnSale, Priced
      <3>10. shown \in truths'.sold /\ read.lines \ shown \subseteq truths'.missing
        BY <1>1, <3>4, <3>7, <3>9, WatchFacts
      <3> QED
        BY <1>1, <3>1, <3>2, <3>3, <3>4, <3>10 DEF CartViewInv
    <2>6. ASSUME NEW p, NEW eligible, Judged(p, eligible), read.kind = "cart", read.stage \notin {"none", "clock", "rows"},
                 ~eligible => {l \in read.lines: l[1] = p} \subseteq truths.missing
          PROVE  CartViewInv'
      <3> DEFINE shown == {l \in read.shown: l[1] = p => eligible}
      <3>1. /\ read'.kind = read.kind /\ read'.at = read.at /\ read'.lines = read.lines
            /\ read'.shown = shown /\ read'.stage \in {"product", "answered"} /\ since' = since
        BY <1>1, <2>6, WatchFacts DEF Judged, Reads
      <3>2. PICK sold \in truths.sold: read.shown \subseteq sold
        BY <1>1, <2>6 DEF CartViewInv
      <3>3. sold \in truths'.sold /\ shown \subseteq sold
        BY <1>1, <3>2
      <3>4. read.lines \ shown \subseteq truths'.missing
        <4>1. read.lines \ read.shown \subseteq truths.missing
          BY <1>1, <2>6 DEF CartViewInv
        <4> QED
          BY <1>1, <2>6, <4>1
      <3>5. read.at = since
        BY <1>1, <2>6 DEF CartViewInv
      <3> HIDE DEF shown
      <3> QED
        BY <1>1, <2>6, <3>1, <3>3, <3>4, <3>5 DEF CartViewInv
    <2>7. ASSUME read.kind = "cart", read'.kind = read.kind, read'.at = read.at, read'.lines = read.lines,
                 read'.shown = read.shown, read'.product \in read.todo, read'.todo = read.todo,
                 read.stage \notin {"none", "clock", "rows"},
                 read'.stage \in {"references", "brand", "image", "prices", "attributes"}
          PROVE  CartViewInv'
      <3>1. since' = since
        BY <2>7, WatchFacts
      <3> QED
        BY <1>1, <2>7, <3>1 DEF CartViewInv
    <2>8. CASE ReadProduct
      <3>1. PICK p \in read.todo:
                IF products[p].status = "published" /\ products[p].described
                THEN read' = [read EXCEPT !.product = p, !.stage = "references"]
                ELSE Judged(p, FALSE)
        BY <2>8 DEF ReadProduct
      <3>2. read.kind = "cart" /\ read.stage = "product" /\ Observing
        BY <2>8 DEF ReadProduct, Observing
      <3>3. CASE products[p].status = "published" /\ products[p].described
        <4>1. read' = [read EXCEPT !.product = p, !.stage = "references"]
          BY <3>1, <3>3
        <4>2. /\ read'.kind = read.kind /\ read'.at = read.at /\ read'.lines = read.lines
              /\ read'.shown = read.shown /\ read'.product = p /\ read'.todo = read.todo
              /\ read'.stage = "references"
          BY <1>1, <4>1 DEF Reads
        <4> QED
          BY <2>7, <3>2, <4>2
      <3>4. CASE ~(products[p].status = "published" /\ products[p].described)
        <4>1. {l \in read.lines: l[1] = p} \subseteq truths.missing
          BY <3>2, <3>4, DenialIsTrue
        <4> QED
          BY <2>6, <3>1, <3>2, <3>4, <4>1
      <3> QED
        BY <3>3, <3>4
    <2>9. ASSUME NEW eligible, Answer(eligible), read.stage \in {"references", "brand", "image", "prices", "attributes"},
                 read.kind = "cart" /\ ~eligible => {l \in read.lines: l[1] = read.product} \subseteq truths.missing
          PROVE  CartViewInv'
      <3>1. CASE read.kind = "page"
        BY <1>1, <2>9, <3>1 DEF Answer, Reads, CartViewInv
      <3>2. CASE read.kind = "cart"
        BY <2>6, <2>9, <3>2 DEF Answer
      <3>3. CASE read.kind = None
        <4>1. read'.kind = None
          BY <1>1, <2>9, <3>3 DEF Answer, Judged, Reads
        <4> QED
          BY <3>1, <3>2, <3>3, <4>1 DEF CartViewInv
      <3> QED
        BY <1>1, <3>1, <3>2, <3>3 DEF Reads
    <2>10. ASSUME NEW stage \in {"references", "brand", "image", "prices"}, NEW holds,
                  NEW next \in {"brand", "image", "prices", "attributes"}, Require(stage, holds, next),
                  read.kind = "cart" /\ ~holds => {l \in read.lines: l[1] = read.product} \subseteq truths.missing
           PROVE  CartViewInv'
      <3>1. CASE holds
        <4>1. read.kind # "cart" => read'.kind # "cart"
          BY <1>1, <2>10, <3>1 DEF Require, Reads
        <4>2. CASE read.kind = "cart"
          <5>1. read.product \in read.todo
            BY <1>1, <2>10, <4>2 DEF Require, CartViewInv
          <5> QED
            BY <1>1, <2>7, <2>10, <3>1, <4>2, <5>1 DEF Require, Reads
        <4> QED
          BY <4>1, <4>2 DEF CartViewInv
      <3> QED
        BY <2>9, <2>10, <3>1 DEF Require
    <2>11. read.kind = "cart" => View.supported = supported /\ Row = products[read.product]
      BY DEF Row, View
    <2>12. read.stage \in {"references", "brand", "image", "prices", "attributes"} /\ read.kind = "cart" => Observing
      BY DEF Observing
    <2>13. CASE ReadCategories
      <3> DEFINE holds == Row.filed /\ View.supported
      <3>1. Require("references", holds, "brand")
        BY <2>13 DEF ReadCategories
      <3>2. read.kind = "cart" /\ ~holds => {l \in read.lines: l[1] = read.product} \subseteq truths.missing
        BY <2>11, <2>12, <3>1, DenialIsTrue DEF Require
      <3> QED
        BY <2>10, <3>1, <3>2
    <2>14. CASE ReadBrand
      <3> DEFINE holds == View.supported
      <3>1. Require("brand", holds, "image")
        BY <2>14 DEF ReadBrand
      <3>2. read.kind = "cart" /\ ~holds => {l \in read.lines: l[1] = read.product} \subseteq truths.missing
        BY <2>11, <2>12, <3>1, DenialIsTrue DEF Require
      <3> QED
        BY <2>10, <3>1, <3>2
    <2>15. CASE ReadImage
      <3> DEFINE holds == Row.pictured /\ View.supported
      <3>1. Require("image", holds, "prices")
        BY <2>15 DEF ReadImage
      <3>2. read.kind = "cart" /\ ~holds => {l \in read.lines: l[1] = read.product} \subseteq truths.missing
        BY <2>11, <2>12, <3>1, DenialIsTrue DEF Require
      <3> QED
        BY <2>10, <3>1, <3>2
    <2>16. CASE ReadPrices
      <3> DEFINE holds == Live(Row) # {} /\ \A v \in Live(Row): Priced(Row, v, read.at)
      <3>1. Require("prices", holds, "attributes")
        BY <2>16 DEF ReadPrices
      <3>2. read.kind = "cart" /\ ~holds => {l \in read.lines: l[1] = read.product} \subseteq truths.missing
        BY <2>11, <2>12, <3>1, DenialIsTrue DEF Require
      <3> QED
        BY <2>10, <3>1, <3>2
    <2>17. CASE ReadAttributes
      <3>1. read.stage = "attributes" /\ Answer(View.supported)
        BY <2>17 DEF ReadAttributes
      <3>2. read.kind = "cart" /\ ~View.supported => {l \in read.lines: l[1] = read.product} \subseteq truths.missing
        BY <2>11, <2>12, <3>1, DenialIsTrue
      <3> QED
        BY <2>9, <3>1, <3>2
    <2>18. CASE ReadPageVariants
      <3>1. /\ read'.kind = read.kind /\ read.stage = "page"
        BY <1>1, <2>18 DEF ReadPageVariants, Reads
      <3> QED
        BY <1>1, <3>1 DEF CartViewInv
    <2> QED
      BY <1>3, <2>1, <2>2, <2>3, <2>4, <2>5, <2>8, <2>13, <2>14, <2>15, <2>16, <2>17, <2>18 DEF ReadStep
  <1> QED
    BY <1>2, <1>3 DEF ReadNext

(* What a page adds to a walk.                                              *)
LEMMA PageAdds ==
    ASSUME ReadInv, NEW filter, NextPage(filter),
           list.stage = "paging" => filter = list.filter
    PROVE  LET rows == Fetch(filter, list.after)
               page == First(Limit, rows)
               items == InOrder(page)
               full == Cardinality(rows) > Limit
           IN  /\ page \subseteq Following(filter, list.after) /\ items \in Seq(Products)
               /\ ToSet(items) = page
               /\ \A i, j \in DOMAIN items: i < j => items[i] < items[j]
               /\ ~full => page = Following(filter, list.after)
               /\ full => /\ Last(items) \in page
                          /\ \A p \in page: p <= Last(items)
                          /\ \A p \in Following(filter, list.after): p <= Last(items) => p \in page
  <1> DEFINE all == Following(filter, list.after)
             rows == Fetch(filter, list.after)
             page == First(Limit, rows)
             items == InOrder(page)
  <1>1. /\ Products \in SUBSET Nat /\ IsFiniteSet(Products) /\ Limit \in Nat \ {0}
        /\ all \subseteq Products /\ rows = First(Limit + 1, all)
        /\ rows \subseteq all /\ page \subseteq rows
    BY ReadConstants DEF Following, Matching, Fetch, First
  <1>2. all \in SUBSET Nat /\ rows \in SUBSET Nat /\ page \in SUBSET Nat
    BY <1>1
  <1>3. IsFiniteSet(all) /\ IsFiniteSet(rows) /\ IsFiniteSet(page)
    <2>1. IsFiniteSet(all)
      BY <1>1, FS_Subset
    <2>2. IsFiniteSet(rows)
      BY <1>1, <2>1, FS_Subset
    <2>3. IsFiniteSet(page)
      BY <1>1, <2>2, FS_Subset
    <2> QED
      BY <2>1, <2>2, <2>3
  <1> HIDE DEF all, rows, page
  <1>4. /\ Cardinality(page) \in Nat
        /\ items \in [1..Cardinality(page) -> page] /\ items \in Seq(page)
        /\ Len(items) = Cardinality(page) /\ ToSet(items) = page
        /\ \A i, j \in 1..Cardinality(page): i < j => items[i] < items[j]
    BY <1>2, <1>3, InOrderOrders
  <1> HIDE DEF items
  <1>5. page \subseteq all /\ items \in Seq(Products)
    <2>1. page \subseteq all /\ page \subseteq Products
      BY <1>1
    <2>2. items \in [1..Cardinality(page) -> Products]
      BY <1>4, <2>1
    <2> QED
      BY <1>4, <2>1, <2>2
  <1>6. DOMAIN items = 1..Cardinality(page)
    BY <1>4
  <1>7. Cardinality(rows) \in Nat
    BY <1>3, FS_CardinalityType
  <1>8. ASSUME ~(Cardinality(rows) > Limit) PROVE page = all
    <2>1. Cardinality(First(Limit + 1, all)) <= Limit
      BY <1>1, <1>7, <1>8
    <2>2. First(Limit, First(Limit + 1, all)) = all
      BY <1>1, <1>2, <1>3, <2>1, NothingCut
    <2> QED
      BY <1>1, <2>2 DEF page
  <1>9. ASSUME Cardinality(rows) > Limit
        PROVE  /\ Last(items) \in page
               /\ \A p \in page: p <= Last(items)
               /\ \A p \in all: p <= Last(items) => p \in page
    <2> DEFINE n == Cardinality(page)
    <2>1. rows # {}
      BY <1>1, <1>9, FS_EmptySet
    <2>2. page # {}
      BY <1>1, <1>2, <1>3, <2>1, SomeFirst DEF page
    <2>3. n \in Nat \ {0}
      BY <1>3, <1>4, <2>2, FS_EmptySet
    <2>4. Last(items) = items[n] /\ items[n] \in page
      BY <1>4, <2>3 DEF Last
    <2>5. ASSUME NEW p \in page PROVE p <= items[n]
      <3>1. PICK i \in 1..n: items[i] = p
        BY <1>4, <1>6 DEF ToSet
      <3>2. CASE i = n
        BY <1>2, <3>1, <3>2
      <3>3. CASE i # n
        <4>1. i < n
          BY <2>3, <3>3
        <4>2. items[i] < items[n]
          BY <1>4, <2>3, <4>1
        <4>3. items[i] \in Nat /\ items[n] \in Nat
          BY <1>2, <2>4, <3>1
        <4> QED
          BY <3>1, <4>2, <4>3
      <3> QED
        BY <3>2, <3>3
    <2>6. ASSUME NEW p \in all, p <= items[n] PROVE p \in page
      <3>1. items[n] \in rows
        BY <1>1, <2>4
      <3>2. p \in First(Limit + 1, all)
        <4>1. items[n] \in First(Limit + 1, all)
          BY <1>1, <3>1
        <4> QED
          BY <1>1, <1>2, <1>3, <2>6, <4>1, FirstAreFirst
      <3>3. p \in rows
        BY <1>1, <3>2
      <3> QED
        BY <1>1, <1>2, <1>3, <2>4, <2>6, <3>3, FirstAreFirst DEF page
    <2> QED
      BY <2>4, <2>5, <2>6
  <1>10. \A i, j \in DOMAIN items: i < j => items[i] < items[j]
    BY <1>4, <1>6
  <1> QED
    BY <1>4, <1>5, <1>8, <1>9, <1>10 DEF all, rows, page, items

(* A page goes on where the one before it stopped.                          *)
LEMMA WalkKept ==
    ASSUME ReadInv, NEW filter \in {None, "draft", "archived"}, NextPage(filter), Watch,
           products' = products
    PROVE  ListInv'
  <1> DEFINE all == Following(filter, list.after)
             rows == Fetch(filter, list.after)
             page == First(Limit, rows)
             items == InOrder(page)
             full == Cardinality(rows) > Limit
             new == list.items \o items
  <1>1. /\ list.stage # "done" /\ (list.stage = "paging" => filter = list.filter)
        /\ list' = [stage |-> IF full THEN "paging" ELSE "done", filter |-> filter,
                    after |-> IF full THEN Last(items) ELSE list.after, items |-> new]
    BY DEF NextPage
  <1>2. ListInv /\ Products \subseteq Nat \ {0}
    BY ReadConstants DEF ReadInv
  <1>3. /\ page \subseteq all /\ items \in Seq(Products)
        /\ ToSet(items) = page
        /\ \A i, j \in DOMAIN items: i < j => items[i] < items[j]
        /\ ~full => page = all
        /\ full => /\ Last(items) \in page
                   /\ \A p \in page: p <= Last(items)
                   /\ \A p \in all: p <= Last(items) => p \in page
    BY <1>1, PageAdds
  <1>4. all = {p \in Matching(filter): p > list.after} /\ Matching(filter) \subseteq Products
    BY DEF Following, Matching
  <1> HIDE DEF rows, page, items, full
  <1>5. /\ list'.stage = (IF full THEN "paging" ELSE "done") /\ list'.filter = filter
        /\ list'.after = (IF full THEN Last(items) ELSE list.after) /\ list'.items = new
    BY <1>1
  <1>6. /\ list.items \in Seq(Products) /\ list.after \in Nat /\ list.stage \in {"none", "paging"}
        /\ \A i \in DOMAIN list.items: list.items[i] \in Products /\ list.items[i] <= list.after
        /\ \A i, j \in DOMAIN list.items: i < j => list.items[i] < list.items[j]
    <2>1. /\ list.items \in Seq(Products) /\ list.after \in Nat /\ list.stage \in {"none", "paging"}
          /\ \A i, j \in DOMAIN list.items: i < j => list.items[i] < list.items[j]
      BY <1>1, <1>2 DEF ListInv
    <2>2. ASSUME NEW i \in DOMAIN list.items PROVE list.items[i] \in Products /\ list.items[i] <= list.after
      BY <1>2, <2>1 DEF ListInv
    <2> QED
      BY <2>1, <2>2
  <1>7. \A i \in DOMAIN items: items[i] \in page
    BY <1>3 DEF ToSet
  <1> DEFINE m == Len(list.items)
             n == Len(items)
  <1>8. /\ m \in Nat /\ n \in Nat /\ DOMAIN list.items = 1..m /\ DOMAIN items = 1..n
        /\ new \in Seq(Products) /\ DOMAIN new = 1..(m + n)
        /\ \A i \in 1..m: new[i] = list.items[i]
        /\ \A i \in (m + 1)..(m + n): i - m \in 1..n /\ new[i] = items[i - m]
    BY <1>3, <1>6
  <1>9. \A p: p \in ToSet(new) <=> p \in ToSet(list.items) \/ p \in page
    <2> TAKE p
    <2>1. ASSUME p \in ToSet(new) PROVE p \in ToSet(list.items) \/ p \in page
      <3>1. PICK i \in 1..(m + n): new[i] = p
        BY <1>8, <2>1 DEF ToSet
      <3>2. CASE i \in 1..m
        BY <1>8, <3>1, <3>2 DEF ToSet
      <3>3. CASE i \notin 1..m
        <4>1. i \in (m + 1)..(m + n)
          BY <1>8, <3>3
        <4>2. i - m \in 1..n /\ p = items[i - m]
          BY <1>8, <3>1, <4>1
        <4> QED
          BY <1>7, <1>8, <4>2
      <3> QED
        BY <3>2, <3>3
    <2>2. ASSUME p \in ToSet(list.items) PROVE p \in ToSet(new)
      <3>1. PICK i \in 1..m: list.items[i] = p
        BY <1>8, <2>2 DEF ToSet
      <3>2. i \in 1..(m + n) /\ new[i] = p
        BY <1>8, <3>1
      <3> QED
        BY <1>8, <3>2 DEF ToSet
    <2>3. ASSUME p \in page PROVE p \in ToSet(new)
      <3>1. PICK i \in 1..n: items[i] = p
        BY <1>3, <1>8, <2>3 DEF ToSet
      <3>2. m + i \in (m + 1)..(m + n) /\ m + i \in 1..(m + n) /\ (m + i) - m = i
        BY <1>8
      <3>3. new[m + i] = p
        BY <1>8, <3>1, <3>2
      <3> QED
        BY <1>8, <3>2, <3>3 DEF ToSet
    <2> QED
      BY <2>1, <2>2, <2>3
  <1> HIDE DEF new
  <1>10. \A p \in page: p \in Products /\ p > list.after
    BY <1>3, <1>4
  <1>11. ASSUME NEW i \in DOMAIN new, NEW j \in DOMAIN new, i < j PROVE new[i] < new[j]
    <2>0. i \in 1..(m + n) /\ j \in 1..(m + n)
      BY <1>8
    <2>1. CASE j <= m
      <3>1. i \in 1..m /\ j \in 1..m
        BY <1>8, <1>11, <2>0, <2>1
      <3> QED
        BY <1>6, <1>8, <1>11, <3>1
    <2>2. CASE i > m
      <3>0. i \in (m + 1)..(m + n) /\ j \in (m + 1)..(m + n) /\ i - m < j - m
        BY <1>8, <1>11, <2>0, <2>2
      <3>1. /\ i - m \in 1..n /\ j - m \in 1..n /\ i - m < j - m
            /\ new[i] = items[i - m] /\ new[j] = items[j - m]
        BY <1>8, <3>0
      <3> QED
        BY <1>3, <1>8, <3>1
    <2>3. CASE i <= m /\ j > m
      <3>1. /\ i \in 1..m /\ new[i] = list.items[i] /\ j - m \in 1..n /\ new[j] = items[j - m]
        <4>1. i \in 1..m /\ j \in (m + 1)..(m + n)
          BY <1>8, <2>0, <2>3
        <4> QED
          BY <1>8, <4>1
      <3>2. new[i] \in Products /\ new[i] <= list.after
        BY <1>6, <1>8, <3>1
      <3>3. new[j] \in Products /\ new[j] > list.after
        <4>1. \A k \in 1..n: items[k] \in Products /\ items[k] > list.after
          BY <1>7, <1>8, <1>10
        <4> QED
          BY <3>1, <4>1
      <3>4. /\ new[i] \in Nat /\ new[j] \in Nat /\ list.after \in Nat
            /\ new[i] <= list.after /\ list.after < new[j]
        BY <1>2, <1>6, <3>2, <3>3
      <3> QED
        BY <3>4
    <2> QED
      BY <1>8, <2>1, <2>2, <2>3
  <1>12. Matching(filter)' = Matching(filter) /\ Matching(list.filter)' = Matching(filter)
    BY <1>5 DEF Matching, Exists
  <1>13. /\ steady' \subseteq Matching(filter)
         /\ \A p \in steady': p <= list.after => p \in ToSet(list.items)
    <2>1. CASE list.stage = "none"
      <3>1. steady' = Matching(list'.filter)
        BY <1>5, <2>1 DEF Watch
      <3>2. steady' = Matching(filter) /\ list.after = 0
        BY <1>2, <1>5, <2>1, <3>1 DEF ListInv
      <3>3. ASSUME NEW p \in Matching(filter) PROVE ~(p <= list.after)
        <4>1. p \in Nat \ {0}
          BY <1>2, <1>4
        <4> QED
          BY <3>2, <4>1
      <3> QED
        BY <3>2, <3>3
    <2>2. CASE list.stage = "paging"
      <3>1. steady' = steady \cap Matching(list.filter)'
        BY <1>5, <2>2 DEF Watch
      <3> QED
        BY <1>2, <1>12, <2>2, <3>1 DEF ListInv
    <2> QED
      BY <1>6, <2>1, <2>2
  <1>14. \A p \in steady': p \in ToSet(list.items) \/ p \in all
    <2> TAKE p \in steady'
    <2>1. p \in Nat /\ p \in Matching(filter)
      BY <1>2, <1>4, <1>13
    <2> QED
      BY <1>4, <1>6, <1>13, <2>1
  <1>15. list' \in [stage: {"none", "paging", "done"}, filter: {None, "draft", "archived"},
                    after: Nat, items: Seq(Products)]
    <2>1. (IF full THEN Last(items) ELSE list.after) \in Nat
      BY <1>2, <1>3, <1>6, <1>10
    <2> QED
      BY <1>1, <1>8, <2>1
  <1>16. CASE ~full
    <2>1. list'.stage = "done" /\ page = all
      BY <1>3, <1>5, <1>16
    <2>2. steady' \subseteq ToSet(list.items)'
      BY <1>5, <1>9, <1>14, <2>1 DEF ToSet
    <2> QED
      BY <1>5, <1>11, <1>13, <1>12, <1>15, <2>1, <2>2 DEF ListInv
  <1>17. CASE full
    <2>1. /\ list'.stage = "paging" /\ list'.after = Last(items) /\ Last(items) \in page
          /\ \A p \in page: p <= Last(items)
          /\ \A p \in all: p <= Last(items) => p \in page
      BY <1>3, <1>5, <1>17
    <2>2. ASSUME NEW i \in DOMAIN new PROVE new[i] <= Last(items)
      <3>1. new[i] \in ToSet(new)
        BY DEF ToSet
      <3>2. CASE new[i] \in page
        BY <2>1, <3>2
      <3>3. CASE new[i] \in ToSet(list.items)
        <4>1. new[i] \in Products /\ new[i] <= list.after
          BY <1>6, <3>3 DEF ToSet
        <4>2. Last(items) \in Products /\ Last(items) > list.after
          BY <1>10, <2>1
        <4>3. new[i] \in Nat /\ Last(items) \in Nat /\ list.after \in Nat
          BY <1>2, <1>6, <4>1, <4>2
        <4> QED
          BY <4>1, <4>2, <4>3
      <3> QED
        BY <1>9, <3>1, <3>2, <3>3
    <2>3. \A p \in steady': p <= Last(items) => p \in ToSet(new)
      BY <1>9, <1>14, <2>1
    <2> QED
      BY <1>5, <1>11, <1>13, <1>12, <1>15, <2>1, <2>2, <2>3 DEF ListInv, ToSet
  <1> QED
    BY <1>16, <1>17

(* Between two pages the catalog may change: what stops matching is no      *)
(* longer owed to the walk.                                                 *)
LEMMA ListKept ==
    ASSUME ReadInv, ReadNext
    PROVE  ListInv'
  <1>1. CASE ListStep /\ UNCHANGED <<vars, read>>
    <2>1. PICK filter \in {None, "draft", "archived"}: NextPage(filter)
      BY <1>1 DEF ListStep
    <2>2. products' = products /\ Watch
      BY <1>1 DEF ReadNext, vars
    <2> QED
      BY <2>1, <2>2, WalkKept
  <1>2. CASE list' = list
    <2>1. steady' = IF list.stage = "none" THEN {} ELSE steady \cap Matching(list.filter)'
      BY <1>2 DEF ReadNext, Watch
    <2>2. ListInv
      BY DEF ReadInv
    <2>3. CASE list.stage = "none"
      BY <1>2, <2>1, <2>2, <2>3 DEF ListInv
    <2>4. CASE list.stage # "none"
      BY <1>2, <2>1, <2>2, <2>4 DEF ListInv
    <2> QED
      BY <2>3, <2>4
  <1> QED
    BY <1>1, <1>2 DEF ReadNext

LEMMA ReadBegins == Init /\ ReadInit => ReadInv
  <1> SUFFICES ASSUME Init, ReadInit PROVE ReadInv
    OBVIOUS
  <1>1. CatalogInv
    BY CatalogInit
  <1>2. /\ read = NotBegun /\ read.stage = "none" /\ now = 0 /\ since = 0
    BY DEF Init, ReadInit, NotBegun
  <1>3. read \in Reads
    BY <1>2 DEF NotBegun, Reads, Stages
  <1>4. PageInv /\ CartViewInv
    BY <1>2 DEF PageInv, CartViewInv
  <1>5. ListInv
    BY DEF ReadInit, ListInv
  <1> QED
    BY <1>1, <1>2, <1>3, <1>4, <1>5 DEF ReadInv

(* Readers change nothing: what is proved of the catalog holds while it is  *)
(* read.                                                                    *)
THEOREM ReadersOnlyRead == ReadSpec => Spec
  <1>1. [ReadNext]_allVars => [Next]_vars
    BY DEF ReadNext, allVars
  <1> QED
    BY <1>1, PTL DEF ReadSpec, Spec

(* Readers learn only what was true, and hold their place in the list, at   *)
(* any speed of the catalog under them (catalog/service.ts:57-66, 188-252,  *)
(* cart/service.ts:47-63).                                                  *)
THEOREM ReadInvariant == ReadSpec => []ReadInv
  <1>1. ReadInv /\ [ReadNext]_allVars => ReadInv'
    <2> SUFFICES ASSUME ReadInv, [ReadNext]_allVars PROVE ReadInv'
      OBVIOUS
    <2>1. CASE ReadNext
      BY <2>1, WatchFacts, ReadTyped, PageKept, CartKept, ListKept DEF ReadInv
    <2>2. CASE UNCHANGED allVars
      <3>1. /\ read' = read /\ truths' = truths /\ since' = since /\ list' = list /\ steady' = steady
            /\ UNCHANGED vars /\ products' = products /\ now' = now
        BY <2>2 DEF allVars, vars
      <3>2. CatalogInv'
        BY <3>1, CatalogStep DEF ReadInv
      <3>3. PageInv' /\ read' \in Reads /\ since' \in 0..now'
        BY <3>1 DEF ReadInv, PageInv
      <3>4. supported' = supported
        BY <2>2 DEF allVars, vars
      <3>5. Missing' = Missing
        BY <3>1, <3>4 DEF Missing, OnSale, Eligible, Priced, Live
      <3>6. CartViewInv'
        BY <3>1, <3>5 DEF ReadInv, CartViewInv, Observing
      <3>7. ListInv'
        BY <3>1 DEF ReadInv, ListInv, Matching, Exists
      <3> QED
        BY <3>2, <3>3, <3>6, <3>7 DEF ReadInv
    <2> QED
      BY <2>1, <2>2
  <1> QED
    BY <1>1, ReadBegins, PTL DEF ReadSpec

(* An answered page is one public version, all of it.                       *)
THEOREM PagesAreWhole == ReadSpec => []PageIsWhole
  <1>1. ReadInv => PageIsWhole
    BY DEF ReadInv, PageInv, PageIsWhole
  <1> QED
    BY <1>1, ReadInvariant, PTL

(* A cart's lines were on sale together, and those it gives up were not for *)
(* sale at some moment.                                                     *)
THEOREM CartViewsAreTrue == ReadSpec => []CartsTellTheTruth
  <1>1. ReadInv => CartsTellTheTruth
    BY DEF ReadInv, CartViewInv, CartsTellTheTruth
  <1> QED
    BY <1>1, ReadInvariant, PTL

(* A walk through the list misses nothing that was there all along.         *)
THEOREM WalksAreComplete == ReadSpec => []ListIsComplete
  <1>1. ReadInv => ListIsComplete
    BY DEF ReadInv, ListInv, ListIsComplete
  <1> QED
    BY <1>1, ReadInvariant, PTL
=============================================================================
