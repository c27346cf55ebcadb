-------------------------- MODULE MCAuthentication --------------------------
(* A small instance of Authentication for TLC. *)
EXTENDS Authentication, TLC

CONSTANTS h1, h2, owner, other, p1, p2, peer

SessionIds == 1 .. 2

\* Goroutines are alike, and so are passwords.
Symmetry == Permutations({h1, h2}) \cup Permutations({p1, p2})

\* The part of the instance that is explored: long histories of failed
\* logins, long histories of sessions, and short histories of both.
Failures == ipEntries[peer].failures
  + Cardinality({h \in LoggingIn : handler[h].name # owner \/ handler[h].guess = Malformed})
Opened == Cardinality({s \in Sessions : sessions[s] # NoRow})
Explored ==
  \/ Opened = 0
  \/ Failures = 0 /\ clock <= 4
  \/ Opened = 1 /\ Failures <= 2 /\ clock <= 3
=============================================================================
