---------------------------- MODULE CatalogReadsMC ----------------------------
(* Three scenarios.  "reads": product 1 has been published at version 8,    *)
(* with two variants on sale or with one of them archived, and is read, as  *)
(* a page or in a cart, while its staff go on working; a read begins before *)
(* the first of the three commands there is room for commits, and nothing   *)
(* happens after it.  "baskets": products 1 and 2 are published, each with  *)
(* one variant, and a cart with a line of each is read during a command.    *)
(* "lists": products are created and archived while they are listed.        *)
EXTENDS CatalogReads

CONSTANTS a, b, c

VARIABLE scenario

Address == <<a, b, c>> \* of the products 1, 2 and 3
Start == 8
Symmetry == Permutations(Variants)
Announced == {[from |-> 0, to |-> 1], [from |-> 0, to |-> Forever]}

Seeds ==
    {[status |-> "published", version |-> Start, slug |-> Address[1], described |-> TRUE, filed |-> TRUE,
      pictured |-> TRUE, launched |-> TRUE, variants |-> status, prices |-> [v \in Variants |-> {price[v]}]]:
        status \in {s \in [Variants -> {"published", "archived"}]: \E v \in Variants: s[v] = "published"},
        price \in [Variants -> Announced]}

OneVariant(row) ==
    /\ Cardinality(Live(row)) = 1
    /\ \E i \in Announced: row.prices = [v \in Variants |-> {i}]

(* The products of `set' are published, each at its address.                *)
Published(set) ==
    /\ \E rows \in [set -> {row \in Seeds: Cardinality(set) > 1 => OneVariant(row)}]:
        products = [p \in Products |-> IF p \in set THEN [rows[p] EXCEPT !.slug = Address[p]] ELSE Absent]
    /\ links = {<<Address[p], p>>: p \in set}
    /\ outbox = {[product |-> p, version |-> n, seen |-> n - 1,
                  status |-> IF n = Start THEN "published" ELSE "draft"]: p \in set, n \in 1..Start}
    /\ supported = TRUE
    /\ now = 0
    /\ tx = None

MCInit ==
    /\ scenario \in {"reads", "baskets", "lists"}
    /\ CASE scenario = "reads" -> Published({1})
         [] scenario = "baskets" -> Published({1, 2})
         [] scenario = "lists" -> Init /\ supported = TRUE
    /\ ReadInit

Over == read.stage \in {"refused", "answered"}

Writes ==
    \/ scenario = "reads" /\ ~Over /\ (Command(1) \/ Tick \/ ReferencesChange)
    \/ scenario = "baskets" /\ ~Over /\ Tick
    \/ /\ scenario = "baskets" /\ read.stage \notin {"none", "answered"}
       /\ products[1].version + products[2].version < 2 * Start + 1
       /\ Command(1) \/ Command(2)
    \/ scenario = "lists" /\ \E p \in Products: Archive(p, 1) \/ Create(p, Address[p], FALSE, FALSE)
    \/ Commit
    \/ Abort

Reading ==
    /\ ReadStep
    /\ read.stage = "none" => \A p \in Products: products[p].version \in {0, Start}
    /\ scenario = "baskets" => Cardinality(read'.lines) = 2

MCNext ==
    /\ \/ Writes /\ UNCHANGED <<read, list>>
       \/ scenario \in {"reads", "baskets"} /\ Reading /\ UNCHANGED <<vars, list>>
       \/ scenario = "lists" /\ ListStep /\ UNCHANGED <<vars, read>>
    /\ Watch
    /\ UNCHANGED scenario

MCSpec == MCInit /\ [][MCNext]_<<allVars, scenario>>
=============================================================================
