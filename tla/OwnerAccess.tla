---------------------------- MODULE OwnerAccess ----------------------------
(***************************************************************************)
(* What password and sessions promise the owner, without hashes, times,    *)
(* limiter, requests, transactions and restarts: a client that offers the  *)
(* password of the moment opens one of a bounded number of sessions, a     *)
(* session that was closed stays closed, and a new password closes all of  *)
(* them.                                                                   *)
(***************************************************************************)
EXTENDS Naturals, FiniteSets

CONSTANTS
  Sessions, Passwords, MaximumActiveSessions,
  Clients,
  Nothing   \* no password

VARIABLES
  password, \* the owner's, or {} before the first
  offered,  \* what each client says the owner's password is, or Nothing
  opened,   \* sessions there ever were
  open      \* those that still give access

vars == <<password, offered, opened, open>>

Init ==
  /\ password = {}
  /\ offered = [c \in Clients |-> Nothing]
  /\ opened = {} /\ open = {}

\* A client offers a password, or gives up.
Say(c, p) ==
  /\ offered' = [offered EXCEPT ![c] = p]
  /\ UNCHANGED <<password, opened, open>>

\* Every client has to start again.
Forget ==
  /\ offered' = [c \in Clients |-> Nothing]
  /\ UNCHANGED <<password, opened, open>>

\* A client that has offered the password opens a session; the next one
\* takes another offer.
Open(c, s) ==
  /\ offered[c] \in password
  /\ s \in Sessions \ opened
  /\ Cardinality(open) < MaximumActiveSessions
  /\ offered' = [offered EXCEPT ![c] = Nothing]
  /\ opened' = opened \cup {s}
  /\ open' = open \cup {s}
  /\ UNCHANGED password

\* Logout, revocation and expiry.
Close(gone) ==
  /\ open' = open \ gone
  /\ UNCHANGED <<password, offered, opened>>

SetPassword(p) ==
  /\ password' = {p}
  /\ open' = {}
  /\ UNCHANGED <<offered, opened>>

Next ==
  \/ \E c \in Clients, p \in Passwords \cup {Nothing} : Say(c, p)
  \/ Forget
  \/ \E c \in Clients, s \in Sessions : Open(c, s)
  \/ \E gone \in SUBSET Sessions : Close(gone)
  \/ \E p \in Passwords : SetPassword(p)

Spec == Init /\ [][Next]_vars
=============================================================================
