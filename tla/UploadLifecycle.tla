--------------------------- MODULE UploadLifecycle ---------------------------
(***************************************************************************)
(* What the upload service promises a client about the fate of an upload,  *)
(* without parts, chunks, locks, transactions, crashes or repairs: it is   *)
(* open until it is published or closed, and that is final.                *)
(***************************************************************************)
CONSTANT Uploads

VARIABLE outcome

Outcomes == {"open", "published", "closed"}

Init == outcome = [u \in Uploads |-> "open"]

Publish(u) ==
  /\ outcome[u] = "open"
  /\ outcome' = [outcome EXCEPT ![u] = "published"]

Close(u) ==
  /\ outcome[u] = "open"
  /\ outcome' = [outcome EXCEPT ![u] = "closed"]

Next == \E u \in Uploads : Publish(u) \/ Close(u)

Spec == Init /\ [][Next]_outcome
=============================================================================
