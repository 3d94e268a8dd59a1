------------------------------- MODULE CatalogMC -------------------------------
(* No definition tells one variant or one slug from another.                *)
EXTENDS Catalog, TLC

Symmetry == Permutations(Variants) \cup Permutations(Slugs)
=============================================================================
