----------------------------- MODULE StorageGate -----------------------------
(***************************************************************************)
(* What the storage provider promises: a gate in front of one volume that  *)
(* falls at most once in the life of a process, tells so once, and lets no *)
(* operation pass afterwards.  Operations that passed it before may still  *)
(* change the volume, and nothing else ever changes.                       *)
(***************************************************************************)
EXTENDS Naturals

CONSTANTS Jobs, Volumes, Ours, Versions

VARIABLES
  up,       \* the gate is open
  told,     \* how often this process told that it is not
  admitted, \* the operations that passed the gate
  content   \* the version of each volume

vars == <<up, told, admitted, content>>

\* A process starts and finds the volume or tells that it does not.
Opened == up' \in BOOLEAN /\ told' = IF up' THEN 0 ELSE 1

Changes == \E c \in Versions : content' = [content EXCEPT ![Ours] = c]

Init ==
  /\ up \in BOOLEAN
  /\ told = IF up THEN 0 ELSE 1
  /\ admitted = {}
  /\ content \in [Volumes -> Versions]

Admit(j) ==
  /\ up
  /\ admitted' = admitted \cup {j}
  /\ UNCHANGED <<up, told, content>>

Change(j) ==
  /\ j \in admitted
  /\ Changes
  /\ admitted' \in {admitted, admitted \ {j}}
  /\ UNCHANGED <<up, told>>

Leave(j) ==
  /\ admitted' = admitted \ {j}
  /\ UNCHANGED <<up, told, content>>

Fall ==
  /\ up /\ up' = FALSE
  /\ UNCHANGED <<told, admitted, content>>

Tell ==
  /\ ~up /\ told = 0
  /\ told' = 1
  /\ UNCHANGED <<up, admitted, content>>

Restart ==
  /\ Opened
  /\ admitted' = {}
  /\ Changes

Next == \/ \E j \in Jobs : Admit(j) \/ Change(j) \/ Leave(j)
        \/ Fall \/ Tell \/ Restart

Spec == Init /\ [][Next]_vars
=============================================================================
