----------------------------- MODULE MigrationsMC -----------------------------
(* Two revisions of the repository, the later one with one migration more,  *)
(* and a branch that renamed the first migration; each revision has a       *)
(* process built with it.                                                   *)
EXTENDS Migrations

CONSTANTS m1, m2, m3, x1, old, new, branch

InTime == (m1 :> 1) @@ (x1 :> 1) @@ (m2 :> 2) @@ (m3 :> 3)
Older == <<m1, m2>>
Newer == <<m1, m2, m3>>
Renamed == <<x1, m2>>
Artifacts == (old :> Older) @@ (new :> Newer) @@ (branch :> Renamed)
Builds == (old :> Older) @@ (new :> Newer)
=============================================================================
