---------------------------- MODULE MCReindexing ----------------------------
(* A small instance of Reindexing for TLC: four releases of the program. *)
EXTENDS Reindexing, TLC

CONSTANTS oldServer, newServer, forkServer, admin

\* The old release embeds one migration, the new one three, and another
\* misses the second of them.
Releases == [p \in Processes |->
  CASE p = oldServer  -> 1 :> "c1"
    [] p = forkServer -> 1 :> "c1" @@ 3 :> "c3"
    [] OTHER          -> 1 :> "c1" @@ 2 :> "c2" @@ 3 :> "c3"]

\* Item 2 is below item 1.
Tree == <<0, 1, 0>>
=============================================================================
