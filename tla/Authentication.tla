--------------------------- MODULE Authentication ---------------------------
(***************************************************************************)
(* Logins, sessions and the owner's password: internal/auth/service.go and *)
(* sqlite_repository.go, the handlers of internal/httpapi that call them,  *)
(* and the two administration commands that set the password while the     *)
(* process lock keeps the server away.                                     *)
(*                                                                         *)
(* A handler goroutine runs one login or one authenticated request at a    *)
(* time; between its steps the clock moves and the others run.  A password *)
(* hash is the password it verifies: {} when there is none, for which the  *)
(* dummy hash stands that no guess matches.  Passing the admissions and    *)
(* slots of PasswordManager is part of the wait before a verification;     *)
(* being refused there, or a client that gives up, is AbandonLogin.        *)
(***************************************************************************)
EXTENDS LoginLimiter

CONSTANTS
  Handlers,              \* goroutines of the HTTP server
  Owner,                 \* the username of the owner
  Passwords,
  Malformed,             \* what validateLoginPassword refuses
  Sessions,              \* ids of the sessions table; bounds the logins that succeed
  MaximumActiveSessions, SessionLifetime, LastSeenWriteInterval,
  Delay,                 \* bound of the model: the age of a running login
  MaxTime                \* bound of the model

VARIABLES
  clock,
  serving,               \* the server process runs
  password,              \* users.password_hash of the owner
  sessions,              \* the sessions table
  handler                \* what each goroutine is doing

accountVars == <<password, sessions>>
vars == <<clock, serving, accountVars, handler, limiterVars>>

ASSUME AuthenticationAssumption ==
  /\ Owner \in Names
  /\ Malformed \notin Passwords
  /\ {MaximumActiveSessions, SessionLifetime, LastSeenWriteInterval, Delay} \subseteq Nat
  /\ MaxTime \in Nat \ {0}
  /\ Delay < SessionLifetime
  /\ LoginFailureWindow + Delay < LoginBlockDuration
  /\ Sessions \subseteq Nat /\ IsFiniteSet(Sessions)
  /\ IsFiniteSet(Handlers)

\* A row of sessions; revokedAt is 0 for NULL, and NoRow is no row.
NoRow == [createdAt |-> 0, expiresAt |-> 0, revokedAt |-> 0, lastSeenAt |-> 0]
Rows == [createdAt : Nat, expiresAt : Nat, revokedAt : Nat, lastSeenAt : Nat]

Hashes == {{}} \cup {{p} : p \in Passwords}

Idle == [pc |-> "idle"]
Logins == [pc : {"lookup", "verify", "create"}, name : Names, peer : Peers,
           guess : Passwords \cup {Malformed}, now : Nat, hash : Hashes]
Calls == [pc : {"judge", "touch", "act"}, session : Sessions, row : Rows, now : Nat]

Init ==
  /\ clock = 1
  /\ serving = FALSE
  /\ password = {}
  /\ sessions = [s \in Sessions |-> NoRow]
  /\ handler = [h \in Handlers |-> Idle]
  /\ NewLimiter

Running(h, pc) == handler[h] # Idle /\ handler[h].pc = pc
LoggingIn == {h \in Handlers : handler[h] \in Logins}
Goto(h, pc) == handler' = [handler EXCEPT ![h].pc = pc]
End(h) == handler' = [handler EXCEPT ![h] = Idle]

-----------------------------------------------------------------------------
(* Login *)

\* The clock is read, then the limiter is asked.  The handler may have
\* waited for the mutex in between.
BeginLogin(h, name, peer, guess, now) ==
  /\ serving /\ handler[h] = Idle
  /\ Check(now)
  /\ IF Blocked(name, peer, now) THEN UNCHANGED handler
     ELSE handler' = [handler EXCEPT ![h] =
            [pc |-> "lookup", name |-> name, peer |-> peer, guess |-> guess,
             now |-> now, hash |-> {}]]
  /\ UNCHANGED <<clock, serving, accountVars>>

\* findCredentialByUsername.
FindCredential(h) ==
  /\ Running(h, "lookup") /\ handler[h].guess # Malformed
  /\ handler' = [handler EXCEPT ![h].pc = "verify",
                   ![h].hash = IF handler[h].name = Owner THEN password ELSE {}]
  /\ UNCHANGED <<clock, serving, accountVars, limiterVars>>

\* Mutant of Correct: it is enough that there is such a user.
CorrectName(h) == handler[h].hash # {}

Correct(h) == handler[h].guess \in handler[h].hash

\* The password is correct: Clear.
Succeed(h) ==
  /\ Running(h, "verify") /\ Correct(h)
  /\ Clear(handler[h].name, handler[h].peer)
  /\ Goto(h, "create")
  /\ UNCHANGED <<clock, serving, accountVars>>

\* failLogin: the failure counts for the time the login began.
FailLogin(h) ==
  /\ \/ Running(h, "lookup") /\ handler[h].guess = Malformed
     \/ Running(h, "verify") /\ ~Correct(h)
  /\ RecordFailure(handler[h].name, handler[h].peer, handler[h].now)
  /\ End(h)
  /\ UNCHANGED <<clock, serving, accountVars>>

\* The database fails, the Argon2 queue is full, or the client is gone.
AbandonLogin(h) ==
  /\ \/ Running(h, "lookup") /\ handler[h].guess # Malformed
     \/ Running(h, "verify")
  /\ End(h)
  /\ UNCHANGED <<clock, serving, accountVars, limiterVars>>

\* The sessions the COUNT of CreateSessionWithAudit sees at a time.
Active(t) == {s \in Sessions : /\ sessions[s] # NoRow
                               /\ sessions[s].revokedAt = 0
                               /\ sessions[s].expiresAt > t}

SessionLimit(now) == Cardinality(Active(now)) >= MaximumActiveSessions

\* CreateSessionWithAudit: an immediate transaction counts and inserts.
CreateSession(h) ==
  /\ Running(h, "create")
  /\ \/ /\ ~SessionLimit(handler[h].now)
        /\ \E s \in Sessions :
             /\ sessions[s] = NoRow
             /\ \A r \in Sessions : sessions[r] = NoRow => s <= r
             /\ sessions' = [sessions EXCEPT ![s] =
                  [createdAt |-> handler[h].now, revokedAt |-> 0,
                   expiresAt |-> handler[h].now + SessionLifetime,
                   lastSeenAt |-> handler[h].now]]
     \/ UNCHANGED sessions
  /\ End(h)
  /\ UNCHANGED <<clock, serving, password, limiterVars>>

-----------------------------------------------------------------------------
(* An authenticated request *)

\* FindAuthenticatedSession, for a token a client has.
BeginCall(h, s) ==
  /\ serving /\ handler[h] = Idle
  /\ sessions[s] # NoRow
  /\ handler' = [handler EXCEPT ![h] =
       [pc |-> "judge", session |-> s, row |-> sessions[s], now |-> 0]]
  /\ UNCHANGED <<clock, serving, accountVars, limiterVars>>

\* The verdict of Authenticate, on the row it read and the time it is now.
Judge(h) ==
  /\ Running(h, "judge")
  /\ LET row == handler[h].row
         expired == row.revokedAt # 0 \/ row.expiresAt <= clock
         unseen == row.lastSeenAt <= clock - LastSeenWriteInterval
     IN handler' = [handler EXCEPT ![h] =
          IF expired THEN Idle
          ELSE [@ EXCEPT !.pc = IF unseen THEN "touch" ELSE "act",
                         !.now = clock, !.row = NoRow]]
  /\ UNCHANGED <<clock, serving, accountVars, limiterVars>>

\* Mutant of UpdateLastSeen: the row is not asked again.
UpdateLastSeenAlways(h) ==
  /\ Running(h, "touch")
  /\ \/ /\ sessions' = [sessions EXCEPT ![handler[h].session].lastSeenAt = handler[h].now]
        /\ Goto(h, "act")
     \/ UNCHANGED sessions /\ End(h)
  /\ UNCHANGED <<clock, serving, password, limiterVars>>

\* UPDATE sessions ... WHERE last_seen_at <= updateBefore, or its failure.
UpdateLastSeen(h) ==
  /\ Running(h, "touch")
  /\ LET now == handler[h].now IN
     \/ /\ sessions' = [sessions EXCEPT ![handler[h].session].lastSeenAt =
                          IF @ <= now - LastSeenWriteInterval THEN now ELSE @]
        /\ Goto(h, "act")
     \/ UNCHANGED sessions /\ End(h)
  /\ UNCHANGED <<clock, serving, password, limiterVars>>

\* Logout and RevokeSession; the first revocation counts.
Revoke(h, s) ==
  /\ Running(h, "act")
  /\ sessions[s] # NoRow
  /\ sessions' = [sessions EXCEPT ![s].revokedAt = IF @ = 0 THEN clock ELSE @]
  /\ End(h)
  /\ UNCHANGED <<clock, serving, password, limiterVars>>

\* Any other request, and a revocation that fails.
EndCall(h) ==
  /\ Running(h, "act")
  /\ End(h)
  /\ UNCHANGED <<clock, serving, accountVars, limiterVars>>

-----------------------------------------------------------------------------
(* The process and the administrator *)

Start ==
  /\ ~serving
  /\ serving' = TRUE
  /\ UNCHANGED <<clock, accountVars, handler, limiterVars>>

\* A shutdown or a crash ends every handler and forgets what is in memory.
Stop ==
  /\ serving
  /\ serving' = FALSE
  /\ handler' = [h \in Handlers |-> Idle]
  /\ ForgetLimiter
  /\ UNCHANGED <<clock, accountVars>>

\* bootstrap-owner.
BootstrapOwner(p) ==
  /\ ~serving
  /\ password = {}
  /\ password' = {p}
  /\ UNCHANGED <<clock, serving, sessions, handler, limiterVars>>

\* set-owner-password: ResetOwnerCredentialsWithAudit in one transaction.
ResetCredentials(p) ==
  /\ ~serving
  /\ password # {}
  /\ password' = {p}
  /\ sessions' = [s \in Sessions |->
       IF sessions[s] # NoRow /\ sessions[s].revokedAt = 0
       THEN [sessions[s] EXCEPT !.revokedAt = clock] ELSE sessions[s]]
  /\ UNCHANGED <<clock, serving, handler, limiterVars>>

\* No running login gets older than Delay.
Tick ==
  /\ clock < MaxTime
  /\ \A h \in LoggingIn : clock - handler[h].now < Delay
  /\ clock' = clock + 1
  /\ UNCHANGED <<serving, accountVars, handler, limiterVars>>

Recent == {t \in 1 .. clock : clock - t <= Delay}

Login(h) ==
  \/ \E name \in Names, peer \in Peers, guess \in Passwords \cup {Malformed}, now \in Recent :
       BeginLogin(h, name, peer, guess, now)
  \/ FindCredential(h)
  \/ Succeed(h)
  \/ FailLogin(h)
  \/ AbandonLogin(h)
  \/ CreateSession(h)

Call(h) ==
  \/ \E s \in Sessions : BeginCall(h, s)
  \/ Judge(h)
  \/ UpdateLastSeen(h)
  \/ \E s \in Sessions : Revoke(h, s)
  \/ EndCall(h)

Next ==
  \/ \E h \in Handlers : Login(h) \/ Call(h)
  \/ Start
  \/ Stop
  \/ \E p \in Passwords : BootstrapOwner(p) \/ ResetCredentials(p)
  \/ Tick

Spec == Init /\ [][Next]_vars

-----------------------------------------------------------------------------
(* Properties *)

TypeOK ==
  /\ clock \in 1 .. MaxTime
  /\ serving \in BOOLEAN
  /\ password \in Hashes
  /\ sessions \in [Sessions -> Rows]
  /\ handler \in [Handlers -> Logins \cup Calls \cup {Idle}]
  /\ LimiterTypeOK

\* The password a login has offered for the owner's name.
Offer(x) == IF x \in Logins /\ x.name = Owner THEN x.guess ELSE Malformed
Offers == [h \in Handlers |-> Offer(handler[h])]

\* Access to the owner's account is what OwnerAccess says, although a login
\* verified a hash it read earlier and counts sessions for a time from before
\* it waited: a session opens only for a login whose own guess, given for the
\* owner's name, is the password that is set at that moment, and never beyond
\* the limit of sessions active now; a closed session stays closed, and none
\* outlives a new password.
Access == INSTANCE OwnerAccess WITH
  Clients <- Handlers,
  Nothing <- Malformed,
  offered <- Offers,
  opened <- {s \in Sessions : sessions[s] # NoRow},
  open <- Active(clock)
AccessIsAtomic == Access!Spec

\* last_seen_at is written at most once per LastSeenWriteInterval and never
\* moves back, although requests write the time they read before others wrote.
LastSeenIsSparse ==
  [][\A s \in Sessions : sessions[s] # NoRow =>
       \/ sessions'[s].lastSeenAt = sessions[s].lastSeenAt
       \/ sessions'[s].lastSeenAt >= sessions[s].lastSeenAt + LastSeenWriteInterval]_vars

\* The logins of a key that were let in and may still fail.
Pending(name, peer) ==
  {h \in LoggingIn : /\ handler[h].name = name /\ handler[h].peer = peer
                     /\ handler[h].pc # "create"}

\* The limiter is asked before a password is verified and told afterwards;
\* whatever the interleaving, neither the bucket of a username and peer nor
\* that of a peer counts more failures than its limit and the handlers that
\* passed it together.
FailuresAreBounded ==
  \A peer \in Peers :
    /\ \A name \in Names : accountEntries[<<name, peer>>].failures
                           < AccountFailureLimit + Cardinality(Handlers)
    /\ ipEntries[peer].failures < IPFailureLimit + Cardinality(Handlers)

\* A block of a bucket that is still effective.
InForce(e) == e.blockedUntil > clock

\* The logins that fail late: they asked the limiter before the block, for a
\* time after the window of the bucket.
ResetsWindow(h, e) ==
  /\ h \in LoggingIn /\ handler'[h] = Idle
  /\ handler[h].now > e.windowStarted + LoginFailureWindow

\* The full map makes room for another bucket.
Evicted(k, before, after) ==
  /\ Cardinality(Held(before)) = MaxEntries
  /\ after[k] = NoEntry
  /\ \E v \in Held(after) : before[v] = NoEntry

\* A block keeps its end (docs/adr/ADR-0003, "setiap block berlaku selama 15
\* menit") up to the age of a running login, unless the process restarts, the
\* full map evicts the bucket, a login of the same username and peer succeeds
\* - which does nothing for the bucket of the peer -, or a login that was let
\* in before the block fails late and starts the next window.
BlocksLast ==
  [][serving /\ serving' =>
       /\ \A name \in Names, peer \in Peers :
            LET e == accountEntries[<<name, peer>>]
                end == accountEntries'[<<name, peer>>].blockedUntil
            IN InForce(e) /\ end < e.blockedUntil - Delay =>
                 \/ Evicted(<<name, peer>>, accountEntries, accountEntries')
                 \/ \E h \in Pending(name, peer) :
                      \/ handler'[h] # Idle /\ handler'[h].pc = "create"
                      \/ ResetsWindow(h, e)
       /\ \A peer \in Peers :
            LET e == ipEntries[peer]
                end == ipEntries'[peer].blockedUntil
            IN InForce(e) /\ end < e.blockedUntil - Delay =>
                 \/ Evicted(peer, ipEntries, ipEntries')
                 \/ \E h \in LoggingIn : handler[h].peer = peer /\ ResetsWindow(h, e)]_vars
=============================================================================
