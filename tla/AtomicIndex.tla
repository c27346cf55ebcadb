----------------------------- MODULE AtomicIndex -----------------------------
(***************************************************************************)
(* What a reindex promises a reader of the metadata index, without         *)
(* generations, batches, transactions and crashes: the index is either     *)
(* unusable or shows the volume, and a rebuild replaces all of it at once. *)
(***************************************************************************)
CONSTANTS Items, Unusable

VARIABLES disk, view

Init == disk \in SUBSET Items /\ view \in {disk, Unusable}

\* A mutation of the server, whose index part may fail.
Mutate ==
  /\ view # Unusable
  /\ disk' \in SUBSET Items
  /\ view' \in {disk', Unusable}

Rebuild ==
  /\ view' = disk
  /\ UNCHANGED disk

Next == Mutate \/ Rebuild

Spec == Init /\ [][Next]_<<disk, view>>
=============================================================================
