------------------------ MODULE AuthenticationProofs ------------------------
(***************************************************************************)
(* Proofs about Authentication, for every number of goroutines, users,     *)
(* peers and sessions, and every value of the limits and durations.        *)
(*                                                                         *)
(* A login carries what it read: the time, the hash, the verdict of the    *)
(* limiter.  The invariant says how far each of these may be from the      *)
(* present: the time is at most Delay old, the hash is the current one     *)
(* because the password only changes while no handler runs, a hash is only *)
(* ever read for the owner's name, and a login that the limiter let in     *)
(* before a block is one of those that the block has to reckon with.       *)
(***************************************************************************)
EXTENDS Authentication, FiniteSetTheorems, TLAPS

\* What a goroutine may carry.
HandlerOK(x) ==
  /\ x # Idle => serving
  /\ x \in Logins =>
       /\ x.now >= 1 /\ x.now <= clock /\ clock - x.now <= Delay
       /\ x.hash \subseteq password /\ (x.hash # {} => x.name = Owner)
       /\ x.pc = "create" => x.guess \in x.hash
  /\ x \in Calls => sessions[x.session] # NoRow

HandlerInv == \A h \in Handlers : HandlerOK(handler[h])

RowInv ==
  /\ \A s \in Sessions : sessions[s] # NoRow => sessions[s].createdAt >= 1
  /\ password = {} => \A s \in Sessions : sessions[s] = NoRow

EntryOK(e) ==
  /\ e # NoEntry => e.windowStarted >= 1
  /\ e.windowStarted <= clock
  /\ e.blockedUntil <= clock + LoginBlockDuration

LimiterInv ==
  /\ \A k \in Keys : EntryOK(accountEntries[k])
  /\ \A p \in Peers : EntryOK(ipEntries[p])

\* The logins of a peer that were let in and may still fail.
PendingOf(peer) == {h \in LoggingIn : handler[h].peer = peer /\ handler[h].pc # "create"}

\* Those of the pending logins that may still count in the window of a bucket.
Late(pending, e) == {h \in pending : handler[h].now <= e.windowStarted + LoginFailureWindow}
AccountLate(k) == Late(Pending(k[1], k[2]), accountEntries[k])
PeerLate(p) == Late(PendingOf(p), ipEntries[p])

\* A bucket at its limit is blocked for longer than its window lasts, and has
\* counted some of the handlers that passed it together already.
BlockOK(e, limit, late) ==
  e.failures >= limit =>
    /\ e.blockedUntil > e.windowStarted + LoginFailureWindow
    /\ e.failures + Cardinality(late) < limit + Cardinality(Handlers)

BlockInv ==
  /\ \A k \in Keys : BlockOK(accountEntries[k], AccountFailureLimit, AccountLate(k))
  /\ \A p \in Peers : BlockOK(ipEntries[p], IPFailureLimit, PeerLate(p))

IInv == TypeOK /\ HandlerInv /\ RowInv /\ LimiterInv /\ BlockInv

USE LoginLimiterAssumption, AuthenticationAssumption

-----------------------------------------------------------------------------
(* The limiter: what its operators do to one entry and to a map. *)

LEMMA EntryTypes ==
  /\ NoEntry \in Entries
  /\ \A e \in Entries, now, limit \in Nat : Counted(e, now, limit) \in Entries
  /\ \A e \in Entries, now, limit \in Nat : Counted(e, now, limit) # NoEntry
BY DEF NoEntry, Entries, Counted

LEMMA FiniteMaps ==
  /\ IsFiniteSet(Keys)
  /\ \A f, D : IsFiniteSet(D) /\ f \in [D -> Entries] =>
       IsFiniteSet(Held(f)) /\ Cardinality(Held(f)) \in Nat
<1>1. IsFiniteSet(Keys)
  BY FS_Product DEF Keys
<1>2. ASSUME NEW f, NEW D, IsFiniteSet(D), f \in [D -> Entries]
      PROVE  IsFiniteSet(Held(f)) /\ Cardinality(Held(f)) \in Nat
  <2>1. Held(f) \subseteq D
    BY <1>2 DEF Held
  <2> QED  BY <1>2, <2>1, FS_Subset, FS_CardinalityType
<1> QED  BY <1>1, <1>2

\* The map after cleanupIfDue.
LEMMA CleanedMap ==
  ASSUME NEW D, IsFiniteSet(D), NEW f \in [D -> Entries], NEW now \in Nat
  PROVE  /\ Cleaned(f, now) \in [D -> Entries]
         /\ \A k \in D : Cleaned(f, now)[k] \in {f[k], NoEntry}
         /\ \A k \in D : f[k].blockedUntil > now => Cleaned(f, now)[k] = f[k]
         /\ Held(Cleaned(f, now)) \subseteq Held(f)
         /\ Cardinality(Held(Cleaned(f, now))) <= Cardinality(Held(f))
<1> DEFINE c == Cleaned(f, now)
<1>1. c = [k \in D |-> IF CleanupDue(now) /\ Stale(f[k], now) THEN NoEntry ELSE f[k]]
  BY DEF Cleaned
<1>2. c \in [D -> Entries] /\ \A k \in D : c[k] \in {f[k], NoEntry}
  BY <1>1, EntryTypes
<1>3. \A k \in D : f[k].blockedUntil > now => c[k] = f[k]
  BY <1>1 DEF Stale, Entries
<1>4. Held(c) \subseteq Held(f)
  BY <1>2 DEF Held
<1>5. Cardinality(Held(c)) <= Cardinality(Held(f))
  BY <1>4, FiniteMaps, FS_Subset
<1> QED  BY <1>2, <1>3, <1>4, <1>5

\* What RecordFailure may make of either map.
AfterFailure(k, f, now, limit) ==
  {[a EXCEPT ![k] = Counted(@, now, limit)] : a \in WithRoomFor(k, Cleaned(f, now))}

LEMMA CountedMap ==
  ASSUME NEW D, IsFiniteSet(D), NEW f \in [D -> Entries], NEW now \in Nat,
         NEW limit \in Nat, NEW k \in D, Cardinality(Held(f)) <= MaxEntries,
         NEW g \in AfterFailure(k, f, now, limit)
  PROVE  /\ g \in [D -> Entries]
         /\ Cardinality(Held(g)) <= MaxEntries
         /\ g[k] = Counted(Cleaned(f, now)[k], now, limit)
         /\ \A v \in D \ {k} : g[v] \in {f[v], NoEntry}
         /\ \A v \in D \ {k} : f[v].blockedUntil > now =>
              g[v] = f[v] \/ Evicted(v, f, g)
<1> DEFINE c == Cleaned(f, now)
<1>0. PICK a \in WithRoomFor(k, Cleaned(f, now)) : g = [a EXCEPT ![k] = Counted(@, now, limit)]
  BY DEF AfterFailure
<1>1. /\ c \in [D -> Entries]
      /\ \A v \in D : c[v] \in {f[v], NoEntry}
      /\ \A v \in D : f[v].blockedUntil > now => c[v] = f[v]
      /\ Held(c) \subseteq Held(f)
  BY CleanedMap
<1>2. /\ IsFiniteSet(Held(f)) /\ Cardinality(Held(f)) \in Nat
      /\ IsFiniteSet(Held(c)) /\ Cardinality(Held(c)) \in Nat
      /\ Cardinality(Held(c)) <= Cardinality(Held(f))
  BY <1>1, FiniteMaps, CleanedMap
<1>3. MaxEntries \in Nat
  OBVIOUS
<1> HIDE DEF c
<1>4. CASE a = c /\ (c[k] # NoEntry \/ Cardinality(Held(c)) < MaxEntries)
  <2>1. g = [c EXCEPT ![k] = Counted(c[k], now, limit)]
    BY <1>0, <1>4
  <2>2. Counted(c[k], now, limit) \in Entries /\ Counted(c[k], now, limit) # NoEntry
    BY <1>1, EntryTypes
  <2>3. g \in [D -> Entries] /\ g[k] = Counted(c[k], now, limit) /\ \A v \in D \ {k} : g[v] = c[v]
    BY <2>1, <2>2, <1>1
  <2>4. Held(g) = Held(c) \cup {k}
    BY <2>2, <2>3, <1>1 DEF Held
  <2>5. Cardinality(Held(g)) <= MaxEntries
    <3>1. CASE k \in Held(c)
      <4>1. Held(g) = Held(c)
        BY <3>1, <2>4
      <4> QED  BY <4>1, <1>2, <1>3
    <3>2. CASE k \notin Held(c)
      <4>1. Cardinality(Held(c)) < MaxEntries
        BY <3>2, <1>4, <1>1 DEF Held
      <4>2. Cardinality(Held(c) \cup {k}) = Cardinality(Held(c)) + 1
        BY <3>2, <1>2, FS_AddElement
      <4>3. Cardinality(Held(g)) = Cardinality(Held(c)) + 1
        BY <4>2, <2>4
      <4> HIDE DEF c
      <4> QED  BY <4>1, <4>3, <1>2, <1>3
    <3> QED  BY <3>1, <3>2
  <2> QED  BY <2>3, <2>5, <1>1 DEF c
<1>5. CASE /\ c[k] = NoEntry /\ Cardinality(Held(c)) >= MaxEntries
           /\ \E v \in Held(c) : a = [c EXCEPT ![v] = NoEntry]
  <2>1. PICK v \in Held(c) : a = [c EXCEPT ![v] = NoEntry]
    BY <1>5
  <2>2. v \in D /\ v # k /\ c[v] # NoEntry
    BY <1>5, <1>1 DEF Held
  <2>3. Counted(c[k], now, limit) \in Entries /\ Counted(c[k], now, limit) # NoEntry
    BY <1>1, EntryTypes
  <2>4. a \in [D -> Entries] /\ a[k] = c[k] /\ a[v] = NoEntry /\ \A u \in D \ {v} : a[u] = c[u]
    BY <2>1, <2>2, <1>1, EntryTypes
  <2>5. g \in [D -> Entries] /\ g[k] = Counted(c[k], now, limit) /\ g[v] = NoEntry
        /\ \A u \in D \ {k, v} : g[u] = c[u]
    BY <1>0, <2>2, <2>3, <2>4
  <2>6. Held(g) = (Held(c) \ {v}) \cup {k} /\ k \notin Held(c)
    BY <1>1, <1>5, <2>2, <2>3, <2>5 DEF Held
  <2>7. Cardinality(Held(c)) = MaxEntries /\ Cardinality(Held(f)) = MaxEntries
    BY <1>5, <1>2, <1>3
  <2>8. Cardinality(Held(g)) = MaxEntries
    <3>1. IsFiniteSet(Held(c) \ {v}) /\ Cardinality(Held(c) \ {v}) = MaxEntries - 1
      BY <2>7, <1>2, FS_RemoveElement
    <3>2. k \notin Held(c) \ {v}
      BY <2>6
    <3>3. Cardinality((Held(c) \ {v}) \cup {k}) = Cardinality(Held(c) \ {v}) + 1
      BY <3>1, <3>2, FS_AddElement
    <3>4. Cardinality(Held(g)) = Cardinality(Held(c) \ {v}) + 1
      BY <3>3, <2>6
    <3> QED  BY <3>1, <3>4, <1>3
  <2>9. Held(c) = Held(f)
    BY <2>7, <1>1, <1>2, FS_Subset
  <2>10. f[k] = NoEntry /\ k \in Held(g) /\ Cardinality(Held(f)) = MaxEntries
    BY <2>6, <2>7, <2>9 DEF Held
  <2>11. Evicted(v, f, g)
    BY <2>5, <2>10 DEF Evicted
  <2>12. \A u \in D \ {k} : g[u] \in {f[u], NoEntry}
    BY <2>5, <1>1
  <2>13. \A u \in D \ {k} : f[u].blockedUntil > now => g[u] = f[u] \/ Evicted(u, f, g)
    BY <2>5, <2>11, <1>1
  <2>14. Cardinality(Held(g)) <= MaxEntries
    BY <2>8, <1>3
  <2> QED  BY <2>5, <2>12, <2>13, <2>14 DEF c
<1>6. a \in WithRoomFor(k, c)
  BY <1>0 DEF c
<1>7. CASE c[k] = NoEntry /\ Cardinality(Held(c)) >= MaxEntries
  BY <1>5, <1>6, <1>7 DEF WithRoomFor
<1>8. CASE ~(c[k] = NoEntry /\ Cardinality(Held(c)) >= MaxEntries)
  <2>1. a = c
    BY <1>6, <1>8 DEF WithRoomFor
  <2>2. c[k] # NoEntry \/ Cardinality(Held(c)) < MaxEntries
    BY <1>8, <1>2, <1>3
  <2> QED  BY <1>4, <2>1, <2>2
<1> QED  BY <1>7, <1>8

-----------------------------------------------------------------------------
(* Types *)

LEMMA CheckTypes ==
  ASSUME LimiterTypeOK, NEW now \in Nat, Check(now)
  PROVE  LimiterTypeOK'
<1>1. /\ accountEntries' \in [Keys -> Entries]
      /\ Cardinality(Held(accountEntries')) <= Cardinality(Held(accountEntries))
  BY CleanedMap, FiniteMaps DEF Check, LimiterTypeOK
<1>2. /\ ipEntries' \in [Peers -> Entries]
      /\ Cardinality(Held(ipEntries')) <= Cardinality(Held(ipEntries))
  BY CleanedMap DEF Check, LimiterTypeOK
<1>3. lastCleanup' \in Nat
  BY DEF Check, CleanupTime, LimiterTypeOK
<1>4. {Cardinality(Held(accountEntries)), Cardinality(Held(accountEntries')),
       Cardinality(Held(ipEntries)), Cardinality(Held(ipEntries'))} \subseteq Nat
  BY <1>1, <1>2, FiniteMaps DEF LimiterTypeOK
<1> QED  BY <1>1, <1>2, <1>3, <1>4 DEF LimiterTypeOK, Held

\* A failure, seen by the bucket of the account and by that of the peer.
LEMMA FailureTypes ==
  ASSUME LimiterTypeOK, NEW name \in Names, NEW peer \in Peers, NEW now \in Nat,
         RecordFailure(name, peer, now)
  PROVE  LimiterTypeOK'
<1>1. <<name, peer>> \in Keys
  BY DEF Keys
<1>2. /\ accountEntries' \in AfterFailure(<<name, peer>>, accountEntries, now, AccountFailureLimit)
      /\ ipEntries' \in AfterFailure(peer, ipEntries, now, IPFailureLimit)
  BY DEF RecordFailure, AfterFailure
<1>3. AccountFailureLimit \in Nat /\ IPFailureLimit \in Nat
  OBVIOUS
<1>4. accountEntries' \in [Keys -> Entries] /\ Cardinality(Held(accountEntries')) <= MaxEntries
  BY <1>1, <1>2, <1>3, CountedMap, FiniteMaps DEF LimiterTypeOK
<1>5. ipEntries' \in [Peers -> Entries] /\ Cardinality(Held(ipEntries')) <= MaxEntries
  BY <1>2, <1>3, CountedMap DEF LimiterTypeOK
<1>6. lastCleanup' \in Nat
  BY DEF RecordFailure, CleanupTime, LimiterTypeOK
<1> QED  BY <1>4, <1>5, <1>6 DEF LimiterTypeOK, Held

\* The bucket of one key forgets its failures.
LEMMA ClearTypes ==
  ASSUME LimiterTypeOK, NEW name \in Names, NEW peer \in Peers, Clear(name, peer)
  PROVE  LimiterTypeOK'
<1>1. accountEntries' \in [Keys -> Entries]
  BY EntryTypes DEF Clear, Keys, LimiterTypeOK
<1>2. Held(accountEntries') \subseteq Held(accountEntries)
  BY DEF Clear, Keys, LimiterTypeOK, Held
<1>3. Cardinality(Held(accountEntries')) <= MaxEntries
  <2>1. Cardinality(Held(accountEntries')) <= Cardinality(Held(accountEntries))
    BY <1>2, FiniteMaps, FS_Subset DEF LimiterTypeOK
  <2>2. Cardinality(Held(accountEntries)) \in Nat /\ Cardinality(Held(accountEntries')) \in Nat
    BY <1>1, FiniteMaps DEF LimiterTypeOK
  <2> QED  BY <2>1, <2>2 DEF LimiterTypeOK
<1> QED  BY <1>1, <1>3 DEF Clear, LimiterTypeOK, Held

LEMMA EmptyMap ==
  ASSUME NEW D
  PROVE  /\ [k \in D |-> NoEntry] \in [D -> Entries]
         /\ Held([k \in D |-> NoEntry]) = {}
         /\ Cardinality(Held([k \in D |-> NoEntry])) = 0
BY EntryTypes, FS_EmptySet DEF Held

LEMMA ForgetTypes == ForgetLimiter => LimiterTypeOK'
<1> SUFFICES ASSUME ForgetLimiter PROVE LimiterTypeOK'
  OBVIOUS
<1>1. accountEntries' = [k \in Keys |-> NoEntry] /\ ipEntries' = [p \in Peers |-> NoEntry] /\ lastCleanup' = 0
  BY DEF ForgetLimiter
<1>2. accountEntries' \in [Keys -> Entries] /\ Cardinality(Held(accountEntries')) <= MaxEntries
  BY <1>1, EmptyMap
<1>3. ipEntries' \in [Peers -> Entries] /\ Cardinality(Held(ipEntries')) <= MaxEntries
  BY <1>1, EmptyMap
<1> QED  BY <1>1, <1>2, <1>3 DEF LimiterTypeOK, Held

\* What a handler is doing, from its step.
LEMMA LoginAt ==
  ASSUME TypeOK, NEW h \in Handlers,
         Running(h, "lookup") \/ Running(h, "verify") \/ Running(h, "create")
  PROVE  /\ handler[h] \in Logins /\ h \in LoggingIn
         /\ handler[h].name \in Names /\ handler[h].peer \in Peers
         /\ handler[h].now \in Nat /\ handler[h].hash \in Hashes
         /\ handler[h].guess \in Passwords \cup {Malformed}
<1>1. handler[h] \in Logins \cup Calls \cup {Idle} /\ handler[h] # Idle
  BY DEF TypeOK, Running
<1>2. handler[h] \notin Calls
  BY DEF Running, Calls
<1> QED  BY <1>1, <1>2 DEF Logins, LoggingIn

LEMMA CallAt ==
  ASSUME TypeOK, NEW h \in Handlers,
         Running(h, "judge") \/ Running(h, "touch") \/ Running(h, "act")
  PROVE  /\ handler[h] \in Calls
         /\ handler[h].session \in Sessions /\ handler[h].row \in Rows /\ handler[h].now \in Nat
<1>1. handler[h] \in Logins \cup Calls \cup {Idle} /\ handler[h] # Idle
  BY DEF TypeOK, Running
<1>2. handler[h] \notin Logins
  BY DEF Running, Logins
<1> QED  BY <1>1, <1>2 DEF Calls

LEMMA Kinds == Logins \cap Calls = {} /\ Idle \notin Logins \cup Calls
BY DEF Logins, Calls, Idle

LEMMA InitTypes == Init => TypeOK
<1> SUFFICES ASSUME Init PROVE TypeOK
  OBVIOUS
<1>1. LimiterTypeOK
  BY EmptyMap DEF Init, NewLimiter, LimiterTypeOK
<1>2. NoRow \in Rows
  BY DEF NoRow, Rows
<1>3. clock \in 1 .. MaxTime
  <2>1. MaxTime \in Nat /\ MaxTime >= 1
    OBVIOUS
  <2> QED  BY <2>1 DEF Init
<1>7. serving \in BOOLEAN
  BY DEF Init
<1>6. password \in Hashes
  BY DEF Init, Hashes
<1>4. sessions \in [Sessions -> Rows]
  BY <1>2 DEF Init
<1>5. handler \in [Handlers -> Logins \cup Calls \cup {Idle}]
  BY DEF Init
<1> QED  BY <1>1, <1>3, <1>4, <1>5, <1>6, <1>7, Zenon DEF TypeOK

LEMMA Records ==
  /\ \A x \in Logins : [x EXCEPT !.pc = "create"] \in Logins
  /\ \A x \in Logins, hash \in Hashes : [x EXCEPT !.pc = "verify", !.hash = hash] \in Logins
  /\ \A x \in Calls : [x EXCEPT !.pc = "act"] \in Calls
  /\ NoRow \in Rows
BY DEF Logins, Calls, NoRow, Rows

\* Every action that only moves one goroutine.
LEMMA HandlerTypes ==
  ASSUME TypeOK, NEW h \in Handlers, NEW x \in Logins \cup Calls \cup {Idle},
         handler' = [handler EXCEPT ![h] = x]
  PROVE  handler' \in [Handlers -> Logins \cup Calls \cup {Idle}]
BY DEF TypeOK

LEMMA TypeStep == TypeOK /\ [Next]_vars => TypeOK'
<1> SUFFICES ASSUME TypeOK, [Next]_vars PROVE TypeOK'
  OBVIOUS
<1> USE DEF limiterVars, accountVars
<1>1. ASSUME NEW h \in Handlers, NEW name \in Names, NEW peer \in Peers,
             NEW guess \in Passwords \cup {Malformed}, NEW now \in Recent,
             BeginLogin(h, name, peer, guess, now)
      PROVE  TypeOK'
  <2>1. now \in Nat
    BY DEF Recent
  <2>2. LimiterTypeOK'
    BY <1>1, <2>1, CheckTypes DEF BeginLogin, TypeOK
  <2> DEFINE x == [pc |-> "lookup", name |-> name, peer |-> peer, guess |-> guess,
                   now |-> now, hash |-> {}]
  <2>3. x \in Logins
    BY <2>1 DEF Logins, Hashes
  <2>4. handler' = handler \/ handler' = [handler EXCEPT ![h] = x]
    BY <1>1 DEF BeginLogin
  <2>5. UNCHANGED <<clock, serving, password, sessions>>
    BY <1>1 DEF BeginLogin
  <2> HIDE DEF x
  <2>6. handler' \in [Handlers -> Logins \cup Calls \cup {Idle}]
    BY <2>3, <2>4, HandlerTypes DEF TypeOK
  <2> QED  BY <2>2, <2>5, <2>6 DEF TypeOK
<1>2. ASSUME NEW h \in Handlers, FindCredential(h)
      PROVE  TypeOK'
  <2> DEFINE hash == IF handler[h].name = Owner THEN password ELSE {}
             x == [handler[h] EXCEPT !.pc = "verify", !.hash = hash]
  <2>1. hash \in Hashes
    BY DEF TypeOK, Hashes
  <2>2. handler' = [handler EXCEPT ![h] = x]
    BY <1>2 DEF FindCredential, TypeOK
  <2>3. handler[h] \in Logins
    BY <1>2, LoginAt DEF FindCredential
  <2> HIDE DEF hash
  <2>4. x \in Logins
    BY <2>1, <2>3, Records
  <2> HIDE DEF x
  <2>5. handler' \in [Handlers -> Logins \cup Calls \cup {Idle}]
    BY <2>2, <2>4, HandlerTypes
  <2> QED  BY <1>2, <2>5 DEF FindCredential, TypeOK, LimiterTypeOK, Held
<1>3. ASSUME NEW h \in Handlers, Succeed(h)
      PROVE  TypeOK'
  <2>1. handler[h] \in Logins /\ handler[h].name \in Names /\ handler[h].peer \in Peers
    BY <1>3, LoginAt DEF Succeed
  <2>2. LimiterTypeOK'
    BY <1>3, <2>1, ClearTypes DEF Succeed, TypeOK
  <2> DEFINE x == [handler[h] EXCEPT !.pc = "create"]
  <2>3. handler' = [handler EXCEPT ![h] = x]
    BY <1>3 DEF Succeed, Goto, TypeOK
  <2>4. x \in Logins
    BY <2>1, Records
  <2> HIDE DEF x
  <2>5. handler' \in [Handlers -> Logins \cup Calls \cup {Idle}]
    BY <2>3, <2>4, HandlerTypes
  <2> QED  BY <1>3, <2>2, <2>5 DEF Succeed, TypeOK
<1>4. ASSUME NEW h \in Handlers, FailLogin(h)
      PROVE  TypeOK'
  <2>1. /\ handler[h].name \in Names /\ handler[h].peer \in Peers /\ handler[h].now \in Nat
    BY <1>4, LoginAt DEF FailLogin
  <2>2. LimiterTypeOK'
    BY <1>4, <2>1, FailureTypes DEF FailLogin, TypeOK
  <2>3. handler' \in [Handlers -> Logins \cup Calls \cup {Idle}]
    BY <1>4, HandlerTypes DEF FailLogin, End
  <2> QED  BY <1>4, <2>2, <2>3 DEF FailLogin, TypeOK
<1>5. ASSUME NEW h \in Handlers, AbandonLogin(h) \/ EndCall(h)
      PROVE  TypeOK'
  <2>1. handler' \in [Handlers -> Logins \cup Calls \cup {Idle}]
    BY <1>5, HandlerTypes DEF AbandonLogin, EndCall, End
  <2> QED  BY <1>5, <2>1 DEF AbandonLogin, EndCall, TypeOK, LimiterTypeOK, Held
<1>6. ASSUME NEW h \in Handlers, CreateSession(h)
      PROVE  TypeOK'
  <2>1. handler[h].now \in Nat
    BY <1>6, LoginAt DEF CreateSession
  <2>2. handler' \in [Handlers -> Logins \cup Calls \cup {Idle}]
    BY <1>6, HandlerTypes DEF CreateSession, End
  <2> DEFINE row == [createdAt |-> handler[h].now, revokedAt |-> 0,
                     expiresAt |-> handler[h].now + SessionLifetime,
                     lastSeenAt |-> handler[h].now]
  <2>3. SessionLifetime \in Nat
    OBVIOUS
  <2>4. row \in Rows
    BY <2>1, <2>3 DEF Rows
  <2>5. sessions' = sessions \/ \E s \in Sessions : sessions' = [sessions EXCEPT ![s] = row]
    BY <1>6 DEF CreateSession
  <2> HIDE DEF row
  <2>6. sessions' \in [Sessions -> Rows]
    BY <2>4, <2>5 DEF TypeOK
  <2> QED  BY <1>6, <2>2, <2>6 DEF CreateSession, TypeOK, LimiterTypeOK, Held
<1>7. ASSUME NEW h \in Handlers, NEW s \in Sessions, BeginCall(h, s)
      PROVE  TypeOK'
  <2> DEFINE x == [pc |-> "judge", session |-> s, row |-> sessions[s], now |-> 0]
  <2>1. x \in Calls
    BY DEF Calls, TypeOK
  <2>2. handler' = [handler EXCEPT ![h] = x]
    BY <1>7 DEF BeginCall
  <2> HIDE DEF x
  <2>3. handler' \in [Handlers -> Logins \cup Calls \cup {Idle}]
    BY <2>1, <2>2, HandlerTypes
  <2> QED  BY <1>7, <2>3 DEF BeginCall, TypeOK, LimiterTypeOK, Held
<1>8. ASSUME NEW h \in Handlers, Judge(h)
      PROVE  TypeOK'
  <2>1. PICK pc \in {"touch", "act"} :
          \/ handler' = [handler EXCEPT ![h] = Idle]
          \/ handler' = [handler EXCEPT ![h] =
                           [handler[h] EXCEPT !.pc = pc, !.now = clock, !.row = NoRow]]
    BY <1>8 DEF Judge, TypeOK
  <2> DEFINE x == [handler[h] EXCEPT !.pc = pc, !.now = clock, !.row = NoRow]
  <2>2. handler[h] \in Calls /\ clock \in Nat
    BY <1>8, CallAt DEF Judge, TypeOK
  <2>3. x \in Calls
    BY <2>2, Records DEF Calls
  <2>4. handler' = [handler EXCEPT ![h] = Idle] \/ handler' = [handler EXCEPT ![h] = x]
    BY <2>1
  <2> HIDE DEF x
  <2>5. handler' \in [Handlers -> Logins \cup Calls \cup {Idle}]
    BY <2>3, <2>4, HandlerTypes
  <2> QED  BY <1>8, <2>5 DEF Judge, TypeOK, LimiterTypeOK, Held
<1>9. ASSUME NEW h \in Handlers, UpdateLastSeen(h)
      PROVE  TypeOK'
  <2>1. handler[h] \in Calls /\ handler[h].session \in Sessions /\ handler[h].now \in Nat
    BY <1>9, CallAt DEF UpdateLastSeen
  <2> DEFINE x == [handler[h] EXCEPT !.pc = "act"]
  <2>2. handler' = [handler EXCEPT ![h] = Idle] \/ handler' = [handler EXCEPT ![h] = x]
    BY <1>9 DEF UpdateLastSeen, Goto, End, TypeOK
  <2>3. x \in Calls
    BY <2>1, Records
  <2> HIDE DEF x
  <2>4. handler' \in [Handlers -> Logins \cup Calls \cup {Idle}]
    BY <2>2, <2>3, HandlerTypes
  <2> DEFINE s == handler[h].session
             seen == IF sessions[s].lastSeenAt <= handler[h].now - LastSeenWriteInterval
                     THEN handler[h].now ELSE sessions[s].lastSeenAt
  <2>5. sessions' = sessions \/ sessions' = [sessions EXCEPT ![s] = [sessions[s] EXCEPT !.lastSeenAt = seen]]
    BY <1>9, <2>1 DEF UpdateLastSeen, TypeOK
  <2>6. seen \in Nat
    BY <2>1 DEF TypeOK, Rows
  <2>7. s \in Sessions
    BY <2>1
  <2> HIDE DEF s, seen
  <2>8. [sessions[s] EXCEPT !.lastSeenAt = seen] \in Rows
    BY <2>6, <2>7 DEF TypeOK, Rows
  <2>9. sessions' \in [Sessions -> Rows]
    BY <2>5, <2>7, <2>8 DEF TypeOK
  <2> QED  BY <1>9, <2>4, <2>9 DEF UpdateLastSeen, TypeOK, LimiterTypeOK, Held
<1>10. ASSUME NEW h \in Handlers, NEW s \in Sessions, Revoke(h, s)
       PROVE  TypeOK'
  <2>1. handler' \in [Handlers -> Logins \cup Calls \cup {Idle}]
    BY <1>10, HandlerTypes DEF Revoke, End
  <2> DEFINE end == IF sessions[s].revokedAt = 0 THEN clock ELSE sessions[s].revokedAt
  <2>2. end \in Nat
    <3>1. sessions[s] \in Rows /\ clock \in Nat
      BY DEF TypeOK
    <3>2. sessions[s].revokedAt \in Nat
      BY <3>1 DEF Rows
    <3> QED  BY <3>1, <3>2
  <2>3. sessions' = [sessions EXCEPT ![s] = [sessions[s] EXCEPT !.revokedAt = end]]
    BY <1>10 DEF Revoke, TypeOK
  <2> HIDE DEF end
  <2>4. [sessions[s] EXCEPT !.revokedAt = end] \in Rows
    BY <2>2 DEF TypeOK, Rows
  <2>5. sessions' \in [Sessions -> Rows]
    BY <2>3, <2>4 DEF TypeOK
  <2> QED  BY <1>10, <2>1, <2>5 DEF Revoke, TypeOK, LimiterTypeOK, Held
<1>11. CASE Start
  BY <1>11 DEF Start, TypeOK, LimiterTypeOK, Held
<1>12. CASE Stop
  <2>1. LimiterTypeOK'
    BY <1>12, ForgetTypes DEF Stop
  <2>2. handler' \in [Handlers -> Logins \cup Calls \cup {Idle}]
    BY <1>12 DEF Stop
  <2>3. serving' \in BOOLEAN
    BY <1>12 DEF Stop
  <2> QED  BY <1>12, <2>1, <2>2, <2>3 DEF Stop, TypeOK
<1>13. ASSUME NEW p \in Passwords, BootstrapOwner(p)
       PROVE  TypeOK'
  BY <1>13 DEF BootstrapOwner, TypeOK, LimiterTypeOK, Held, Hashes
<1>14. ASSUME NEW p \in Passwords, ResetCredentials(p)
       PROVE  TypeOK'
  <2>1. password' \in Hashes
    BY <1>14 DEF ResetCredentials, Hashes
  <2>2. \A s \in Sessions : [sessions[s] EXCEPT !.revokedAt = clock] \in Rows
    BY DEF TypeOK, Rows
  <2>3. sessions' \in [Sessions -> Rows]
    BY <1>14, <2>2 DEF ResetCredentials, TypeOK
  <2> QED  BY <1>14, <2>1, <2>3 DEF ResetCredentials, TypeOK, LimiterTypeOK, Held
<1>15. CASE Tick
  <2>1. clock' \in 1 .. MaxTime
    BY <1>15 DEF Tick, TypeOK
  <2> QED  BY <1>15, <2>1 DEF Tick, TypeOK, LimiterTypeOK, Held
<1>16. CASE UNCHANGED vars
  BY <1>16 DEF vars, TypeOK, LimiterTypeOK, Held
<1> QED
  BY <1>1, <1>2, <1>3, <1>4, <1>5, <1>6, <1>7, <1>8, <1>9, <1>10, <1>11, <1>12, <1>13,
     <1>14, <1>15, <1>16 DEF Next, Login, Call

\* The types hold, and neither map of the limiter outgrows maxEntries.
THEOREM TypeCorrect == Spec => []TypeOK
BY InitTypes, TypeStep, PTL DEF Spec

-----------------------------------------------------------------------------
(* Access to the account *)

\* One goroutine moves; no row disappears.
LEMMA OneMoves ==
  ASSUME TypeOK, HandlerInv, NEW h \in Handlers, NEW x, HandlerOK(x),
         handler' = [handler EXCEPT ![h] = x],
         UNCHANGED <<clock, serving, password>>,
         \A s \in Sessions : sessions[s] # NoRow => sessions'[s] # NoRow
  PROVE  HandlerInv'
<1> SUFFICES ASSUME NEW g \in Handlers PROVE HandlerOK(handler[g])'
  BY DEF HandlerInv
<1>1. HandlerOK(handler'[g])
  BY DEF HandlerInv, TypeOK
<1>2. handler'[g] \in Calls => handler'[g].session \in Sessions
  BY DEF Calls
<1> QED  BY <1>1, <1>2 DEF HandlerOK

LEMMA IdleOK == HandlerOK(Idle)
BY Kinds DEF HandlerOK

LEMMA RowsOf ==
  ASSUME TypeOK, NEW s \in Sessions
  PROVE  /\ sessions[s] \in Rows
         /\ sessions[s].createdAt \in Nat /\ sessions[s].expiresAt \in Nat
         /\ sessions[s].revokedAt \in Nat /\ sessions[s].lastSeenAt \in Nat
BY DEF TypeOK, Rows

\* A row that was created at a time is a row.
LEMMA Created == \A row \in Rows : row.createdAt >= 1 => row # NoRow
BY DEF NoRow, Rows

LEMMA AccessInit == Init => HandlerInv /\ RowInv
BY IdleOK DEF Init, HandlerInv, RowInv

LEMMA AccessStep ==
  TypeOK /\ HandlerInv /\ RowInv /\ [Next]_vars => HandlerInv' /\ RowInv'
<1> SUFFICES ASSUME TypeOK, HandlerInv, RowInv, [Next]_vars PROVE HandlerInv' /\ RowInv'
  OBVIOUS
<1> USE DEF limiterVars, accountVars
<1>1. ASSUME NEW h \in Handlers, NEW name \in Names, NEW peer \in Peers,
             NEW guess \in Passwords \cup {Malformed}, NEW now \in Recent,
             BeginLogin(h, name, peer, guess, now)
      PROVE  HandlerInv' /\ RowInv'
  <2> DEFINE x == [pc |-> "lookup", name |-> name, peer |-> peer, guess |-> guess,
                   now |-> now, hash |-> {}]
  <2>1. x \notin Calls /\ x.now = now /\ x.hash = {} /\ x.pc = "lookup"
    BY DEF Calls
  <2>2. now >= 1 /\ now <= clock /\ clock - now <= Delay
    BY DEF Recent, TypeOK
  <2>3. handler' = handler \/ handler' = [handler EXCEPT ![h] = x]
    BY <1>1 DEF BeginLogin
  <2>4. serving /\ UNCHANGED <<clock, serving, password, sessions>>
    BY <1>1 DEF BeginLogin
  <2> HIDE DEF x
  <2>5. HandlerOK(x)
    BY <2>1, <2>2, <2>4 DEF HandlerOK
  <2>6. CASE handler' = handler
    BY <2>4, <2>6 DEF HandlerInv, HandlerOK, RowInv
  <2>7. CASE handler' = [handler EXCEPT ![h] = x]
    BY <2>4, <2>5, <2>7, OneMoves DEF RowInv
  <2> QED  BY <2>3, <2>6, <2>7
<1>2. ASSUME NEW h \in Handlers, FindCredential(h)
      PROVE  HandlerInv' /\ RowInv'
  <2> DEFINE hash == IF handler[h].name = Owner THEN password ELSE {}
             x == [handler[h] EXCEPT !.pc = "verify", !.hash = hash]
  <2>1. handler' = [handler EXCEPT ![h] = x]
    BY <1>2 DEF FindCredential, TypeOK
  <2>2. handler[h] \in Logins
    BY <1>2, LoginAt DEF FindCredential
  <2>3. hash \subseteq password /\ hash \in Hashes
    BY DEF TypeOK, Hashes
  <2>8. hash # {} => handler[h].name = Owner
    OBVIOUS
  <2> HIDE DEF hash
  <2>4. /\ x \in Logins /\ x.now = handler[h].now /\ x.hash = hash /\ x.pc = "verify"
        /\ x.name = handler[h].name
    BY <2>2, <2>3, Records DEF Logins
  <2>5. HandlerOK(handler[h])
    BY DEF HandlerInv
  <2> HIDE DEF x
  <2>6. HandlerOK(x)
    BY <2>2, <2>3, <2>4, <2>5, <2>8, Kinds DEF HandlerOK
  <2>7. UNCHANGED <<clock, serving, password, sessions>>
    BY <1>2 DEF FindCredential
  <2> QED  BY <2>1, <2>6, <2>7, OneMoves DEF RowInv
<1>3. ASSUME NEW h \in Handlers, Succeed(h)
      PROVE  HandlerInv' /\ RowInv'
  <2> DEFINE x == [handler[h] EXCEPT !.pc = "create"]
  <2>1. handler' = [handler EXCEPT ![h] = x]
    BY <1>3 DEF Succeed, Goto, TypeOK
  <2>2. handler[h] \in Logins
    BY <1>3, LoginAt DEF Succeed
  <2>3. x \in Logins /\ x.now = handler[h].now /\ x.hash = handler[h].hash
        /\ x.guess = handler[h].guess /\ x.name = handler[h].name
    BY <2>2, Records DEF Logins
  <2>4. HandlerOK(handler[h]) /\ handler[h].guess \in handler[h].hash
    BY <1>3 DEF HandlerInv, Succeed, Correct
  <2> HIDE DEF x
  <2>5. HandlerOK(x)
    BY <2>2, <2>3, <2>4, Kinds DEF HandlerOK
  <2>6. UNCHANGED <<clock, serving, password, sessions>>
    BY <1>3 DEF Succeed
  <2> QED  BY <2>1, <2>5, <2>6, OneMoves DEF RowInv
<1>4. ASSUME NEW h \in Handlers, FailLogin(h) \/ AbandonLogin(h) \/ EndCall(h)
      PROVE  HandlerInv' /\ RowInv'
  <2>1. handler' = [handler EXCEPT ![h] = Idle] /\ UNCHANGED <<clock, serving, password, sessions>>
    BY <1>4 DEF FailLogin, AbandonLogin, EndCall, End
  <2> QED  BY <2>1, IdleOK, OneMoves DEF RowInv
<1>5. ASSUME NEW h \in Handlers, CreateSession(h)
      PROVE  HandlerInv' /\ RowInv'
  <2>1. handler' = [handler EXCEPT ![h] = Idle] /\ UNCHANGED <<clock, serving, password>>
    BY <1>5 DEF CreateSession, End
  <2>2. handler[h] \in Logins /\ handler[h].now \in Nat /\ handler[h].pc = "create"
    BY <1>5, LoginAt DEF CreateSession, Running
  <2>3. HandlerOK(handler[h])
    BY DEF HandlerInv
  <2>4. handler[h].now >= 1 /\ password # {}
    BY <2>2, <2>3 DEF HandlerOK
  <2> DEFINE row == [createdAt |-> handler[h].now, revokedAt |-> 0,
                     expiresAt |-> handler[h].now + SessionLifetime,
                     lastSeenAt |-> handler[h].now]
  <2>5. sessions' = sessions \/ \E s \in Sessions : sessions' = [sessions EXCEPT ![s] = row]
    BY <1>5 DEF CreateSession
  <2>6. row # NoRow /\ row.createdAt >= 1
    BY <2>2, <2>4 DEF NoRow
  <2> HIDE DEF row
  <2>7. \A s \in Sessions : sessions[s] # NoRow => sessions'[s] # NoRow
    BY <2>5, <2>6 DEF TypeOK
  <2>8. \A s \in Sessions : sessions'[s] = sessions[s] \/ sessions'[s].createdAt >= 1
    BY <2>5, <2>6 DEF TypeOK
  <2>9. RowInv'
    BY <2>1, <2>4, <2>8 DEF RowInv
  <2> QED  BY <2>1, <2>7, <2>9, IdleOK, OneMoves
<1>6. ASSUME NEW h \in Handlers, NEW s \in Sessions, BeginCall(h, s)
      PROVE  HandlerInv' /\ RowInv'
  <2> DEFINE x == [pc |-> "judge", session |-> s, row |-> sessions[s], now |-> 0]
  <2>1. handler' = [handler EXCEPT ![h] = x] /\ serving
        /\ UNCHANGED <<clock, serving, password, sessions>> /\ sessions[s] # NoRow
    BY <1>6 DEF BeginCall
  <2>2. x \notin Logins /\ x.session = s
    BY DEF Logins
  <2> HIDE DEF x
  <2>3. HandlerOK(x)
    BY <2>1, <2>2 DEF HandlerOK
  <2> QED  BY <2>1, <2>3, OneMoves DEF RowInv
<1>7. ASSUME NEW h \in Handlers, Judge(h)
      PROVE  HandlerInv' /\ RowInv'
  <2>1. PICK pc \in {"touch", "act"} :
          \/ handler' = [handler EXCEPT ![h] = Idle]
          \/ handler' = [handler EXCEPT ![h] =
                           [handler[h] EXCEPT !.pc = pc, !.now = clock, !.row = NoRow]]
    BY <1>7 DEF Judge, TypeOK
  <2> DEFINE x == [handler[h] EXCEPT !.pc = pc, !.now = clock, !.row = NoRow]
  <2>2. handler[h] \in Calls /\ clock \in Nat /\ handler[h] # Idle
    BY <1>7, CallAt DEF Judge, Running, TypeOK
  <2>3. x \in Calls /\ x.session = handler[h].session
    BY <2>2, Records DEF Calls
  <2>4. HandlerOK(handler[h])
    BY DEF HandlerInv
  <2>5. handler' = [handler EXCEPT ![h] = Idle] \/ handler' = [handler EXCEPT ![h] = x]
    BY <2>1
  <2> HIDE DEF x
  <2>6. HandlerOK(x)
    BY <2>2, <2>3, <2>4, Kinds DEF HandlerOK
  <2>7. UNCHANGED <<clock, serving, password, sessions>>
    BY <1>7 DEF Judge
  <2> QED  BY <2>5, <2>6, <2>7, IdleOK, OneMoves DEF RowInv
<1>8. ASSUME NEW h \in Handlers, UpdateLastSeen(h)
      PROVE  HandlerInv' /\ RowInv'
  <2>1. handler[h] \in Calls /\ handler[h].session \in Sessions /\ handler[h] # Idle
    BY <1>8, CallAt DEF UpdateLastSeen, Running
  <2> DEFINE x == [handler[h] EXCEPT !.pc = "act"]
             s == handler[h].session
             seen == IF sessions[s].lastSeenAt <= handler[h].now - LastSeenWriteInterval
                     THEN handler[h].now ELSE sessions[s].lastSeenAt
  <2>2. handler' = [handler EXCEPT ![h] = Idle] \/ handler' = [handler EXCEPT ![h] = x]
    BY <1>8 DEF UpdateLastSeen, Goto, End, TypeOK
  <2>3. sessions' = sessions \/ sessions' = [sessions EXCEPT ![s] = [sessions[s] EXCEPT !.lastSeenAt = seen]]
    BY <1>8, <2>1 DEF UpdateLastSeen, TypeOK
  <2>4. x \in Calls /\ x.session = s
    BY <2>1, Records DEF Calls
  <2>5. HandlerOK(handler[h])
    BY DEF HandlerInv
  <2> HIDE DEF x
  <2>6. HandlerOK(x)
    BY <2>1, <2>4, <2>5, Kinds DEF HandlerOK
  <2>7. s \in Sessions /\ sessions[s] # NoRow /\ sessions[s] \in Rows
    BY <2>1, <2>5, RowsOf DEF HandlerOK
  <2> HIDE DEF s, seen
  <2>8. sessions'[s].createdAt = sessions[s].createdAt
        /\ \A r \in Sessions \ {s} : sessions'[r] = sessions[r]
    BY <2>3, <2>7 DEF TypeOK, Rows
  <2>9. sessions[s].createdAt >= 1
    BY <2>7 DEF RowInv
  <2>10. sessions'[s] # NoRow
    BY <2>8, <2>9 DEF NoRow
  <2>11. UNCHANGED <<clock, serving, password>>
    BY <1>8 DEF UpdateLastSeen
  <2>12. RowInv'
    BY <2>7, <2>8, <2>9, <2>11 DEF RowInv
  <2> QED  BY <2>2, <2>6, <2>8, <2>10, <2>11, <2>12, IdleOK, OneMoves
<1>9. ASSUME NEW h \in Handlers, NEW s \in Sessions, Revoke(h, s)
      PROVE  HandlerInv' /\ RowInv'
  <2>1. handler' = [handler EXCEPT ![h] = Idle] /\ UNCHANGED <<clock, serving, password>>
        /\ sessions[s] # NoRow
    BY <1>9 DEF Revoke, End
  <2>2. sessions'[s].createdAt = sessions[s].createdAt
        /\ \A r \in Sessions \ {s} : sessions'[r] = sessions[r]
    BY <1>9 DEF Revoke, TypeOK, Rows
  <2>3. sessions[s].createdAt >= 1
    BY <2>1 DEF RowInv
  <2>4. sessions'[s] # NoRow
    BY <2>2, <2>3 DEF NoRow
  <2>5. RowInv'
    BY <2>1, <2>2, <2>3 DEF RowInv
  <2> QED  BY <2>1, <2>2, <2>4, <2>5, IdleOK, OneMoves
<1>10. CASE Start
  BY <1>10 DEF Start, HandlerInv, HandlerOK, RowInv
<1>11. CASE Stop
  <2>1. \A h \in Handlers : handler'[h] = Idle
    BY <1>11 DEF Stop
  <2> QED  BY <1>11, <2>1, Kinds DEF Stop, HandlerInv, HandlerOK, RowInv
<1>12. ASSUME NEW p \in Passwords, BootstrapOwner(p) \/ ResetCredentials(p)
       PROVE  HandlerInv' /\ RowInv'
  <2>1. \A h \in Handlers : handler'[h] = Idle
    BY <1>12 DEF BootstrapOwner, ResetCredentials, HandlerInv, HandlerOK
  <2>2. HandlerInv'
    BY <2>1, Kinds DEF HandlerInv, HandlerOK
  <2>3. CASE BootstrapOwner(p)
    BY <2>2, <2>3 DEF BootstrapOwner, RowInv
  <2>4. CASE ResetCredentials(p)
    <3>1. password' # {}
      BY <2>4 DEF ResetCredentials
    <3>2. ASSUME NEW s \in Sessions, sessions'[s] # NoRow
          PROVE  sessions'[s].createdAt >= 1
      <4>1. sessions[s] = NoRow => sessions'[s] = NoRow
        BY <2>4 DEF ResetCredentials
      <4>2. sessions'[s].createdAt = sessions[s].createdAt
        BY <2>4, RowsOf DEF ResetCredentials, Rows
      <4> QED  BY <3>2, <4>1, <4>2 DEF RowInv
    <3> QED  BY <2>2, <3>1, <3>2 DEF RowInv
  <2> QED  BY <1>12, <2>3, <2>4
<1>13. CASE Tick
  <2>1. ASSUME NEW h \in Handlers PROVE HandlerOK(handler[h])'
    <3>1. HandlerOK(handler[h]) /\ UNCHANGED <<serving, password, sessions, handler>>
      BY <1>13 DEF Tick, HandlerInv
    <3>2. clock' = clock + 1 /\ (handler[h] \in Logins => clock - handler[h].now < Delay)
      BY <1>13 DEF Tick, LoggingIn
    <3>3. handler[h] \in Logins => handler[h].now \in Nat
      BY DEF Logins
    <3>4. clock \in Nat /\ Delay \in Nat
      BY DEF TypeOK
    <3> QED  BY <3>1, <3>2, <3>3, <3>4 DEF HandlerOK
  <2> QED  BY <1>13, <2>1 DEF Tick, HandlerInv, RowInv
<1>14. CASE UNCHANGED vars
  BY <1>14 DEF vars, HandlerInv, HandlerOK, RowInv
<1> QED
  BY <1>1, <1>2, <1>3, <1>4, <1>5, <1>6, <1>7, <1>8, <1>9, <1>10, <1>11, <1>12, <1>13,
     <1>14 DEF Next, Login, Call

-----------------------------------------------------------------------------
(* The refinement of OwnerAccess *)

Opened == {s \in Sessions : sessions[s] # NoRow}

AccessVars == <<password, Offers, Opened, Active(clock)>>

\* What one goroutine offers changes with that goroutine alone.
LEMMA Offering ==
  ASSUME TypeOK, NEW h \in Handlers, NEW x \in Logins \cup Calls \cup {Idle},
         handler' = [handler EXCEPT ![h] = x]
  PROVE  Offers' = [Offers EXCEPT ![h] = Offer(x)] /\ Offer(x) \in Passwords \cup {Malformed}
<1>1. Offer(x) \in Passwords \cup {Malformed}
  BY DEF Offer, Logins
<1>2. Offers' = [g \in Handlers |-> Offer(handler'[g])]
  BY DEF Offers
<1>3. \A g \in Handlers : handler'[g] = IF g = h THEN x ELSE handler[g]
  BY DEF TypeOK
<1>4. \A g \in Handlers : Offer(handler'[g]) = IF g = h THEN Offer(x) ELSE Offer(handler[g])
  BY <1>3
<1> QED  BY <1>1, <1>2, <1>4, Zenon DEF Offers

\* A goroutine that is no login offers nothing.
LEMMA NoOffer ==
  ASSUME NEW h \in Handlers, handler[h] \in Calls \cup {Idle}
  PROVE  Offers[h] = Malformed
BY Kinds DEF Offers, Offer

\* Nor does it before or after a step of a request that is no login.
LEMMA CallOffers ==
  ASSUME TypeOK, NEW h \in Handlers, handler[h] \in Calls \cup {Idle},
         NEW x \in Calls \cup {Idle}, handler' = [handler EXCEPT ![h] = x]
  PROVE  Offers' = Offers
<1>1. Offers' = [Offers EXCEPT ![h] = Offer(x)] /\ Offer(x) = Malformed
  BY Offering, Kinds DEF Offer
<1>2. Offers[h] = Malformed /\ Offers = [g \in Handlers |-> Offers[g]]
  BY NoOffer DEF Offers
<1> QED  BY <1>1, <1>2

\* The sessions that are active now were active when a login began.
LEMMA ActiveShrinks ==
  ASSUME TypeOK, NEW t \in Nat, t <= clock
  PROVE  /\ IsFiniteSet(Active(clock)) /\ IsFiniteSet(Active(t))
         /\ Cardinality(Active(clock)) \in Nat /\ Cardinality(Active(t)) \in Nat
         /\ Cardinality(Active(clock)) <= Cardinality(Active(t))
<1>1. IsFiniteSet(Sessions)
  OBVIOUS
<1>2. Active(clock) \subseteq Sessions /\ Active(t) \subseteq Sessions
  BY DEF Active
<1>3. Active(clock) \subseteq Active(t)
  <2>1. clock \in Nat
    BY DEF TypeOK
  <2>2. \A s \in Sessions : sessions[s].expiresAt \in Nat
    BY RowsOf
  <2>3. ASSUME NEW s \in Sessions, sessions[s].expiresAt > clock
        PROVE  sessions[s].expiresAt > t
    BY <2>1, <2>2, <2>3
  <2> QED  BY <2>3 DEF Active
<1>4. IsFiniteSet(Active(clock)) /\ IsFiniteSet(Active(t))
  BY <1>1, <1>2, FS_Subset
<1> QED  BY <1>3, <1>4, FS_Subset, FS_CardinalityType

\* The instance has a Cardinality of its own.
LEMMA SameCardinality == \A S : Access!Cardinality(S) = Cardinality(S)
BY DEF Access!Cardinality, Cardinality

LEMMA AccessNext ==
  TypeOK /\ HandlerInv /\ RowInv /\ [Next]_vars => [Access!Next]_AccessVars
<1> SUFFICES ASSUME TypeOK, HandlerInv, RowInv, [Next]_vars
             PROVE  [Access!Next]_AccessVars
  OBVIOUS
<1> USE DEF limiterVars, accountVars
<1>0. ASSUME UNCHANGED <<clock, password, sessions>>
      PROVE  UNCHANGED <<password, Opened, Active(clock)>>
  BY <1>0 DEF Opened, Active
<1>1. ASSUME NEW h \in Handlers, NEW x \in Logins \cup Calls \cup {Idle},
             handler' = [handler EXCEPT ![h] = x], UNCHANGED <<clock, password, sessions>>
      PROVE  [Access!Next]_AccessVars
  <2>1. Offers' = [Offers EXCEPT ![h] = Offer(x)] /\ Offer(x) \in Passwords \cup {Malformed}
    BY <1>1, Offering
  <2>2. Access!Say(h, Offer(x))
    BY <1>0, <1>1, <2>1 DEF Access!Say, Opened
  <2> QED  BY <2>1, <2>2 DEF Access!Next
<1>2. ASSUME NEW h \in Handlers, CreateSession(h)
      PROVE  [Access!Next]_AccessVars
  <2>1. UNCHANGED <<clock, password>> /\ handler' = [handler EXCEPT ![h] = Idle]
    BY <1>2 DEF CreateSession, End
  <2>2. CASE sessions' = sessions
    BY <1>1, <2>1, <2>2
  <2>3. CASE /\ ~SessionLimit(handler[h].now)
             /\ \E s \in Sessions :
                  /\ sessions[s] = NoRow
                  /\ sessions' = [sessions EXCEPT ![s] =
                       [createdAt |-> handler[h].now, revokedAt |-> 0,
                        expiresAt |-> handler[h].now + SessionLifetime,
                        lastSeenAt |-> handler[h].now]]
    <3>1. PICK s \in Sessions :
            /\ sessions[s] = NoRow
            /\ sessions' = [sessions EXCEPT ![s] =
                 [createdAt |-> handler[h].now, revokedAt |-> 0,
                  expiresAt |-> handler[h].now + SessionLifetime,
                  lastSeenAt |-> handler[h].now]]
      BY <2>3
    <3>2. /\ handler[h] \in Logins /\ handler[h].pc = "create"
          /\ handler[h].guess \in Passwords \cup {Malformed}
          /\ handler[h].now \in Nat /\ HandlerOK(handler[h])
      BY <1>2, LoginAt DEF CreateSession, Running, HandlerInv
    <3> DEFINE now == handler[h].now
    <3>3. now >= 1 /\ now <= clock /\ clock - now <= Delay /\ handler[h].guess \in password
      BY <3>2 DEF HandlerOK
    <3>4. Offers[h] \in password
      <4>1. handler[h].name = Owner
        BY <3>2 DEF HandlerOK
      <4> QED  BY <3>2, <3>3, <4>1 DEF Offers, Offer
    <3>5. now \in Nat /\ clock \in Nat /\ Delay \in Nat /\ SessionLifetime \in Nat
          /\ Delay < SessionLifetime
      BY <3>2 DEF TypeOK
    <3>6. clock < now + SessionLifetime
      BY <3>3, <3>5
    <3>7. /\ sessions'[s].revokedAt = 0 /\ sessions'[s].expiresAt = now + SessionLifetime
          /\ sessions'[s].createdAt = now
          /\ \A r \in Sessions \ {s} : sessions'[r] = sessions[r]
      BY <3>1 DEF TypeOK
    <3> HIDE DEF now
    <3>8. sessions'[s] # NoRow
      BY <3>3, <3>5, <3>7 DEF NoRow
    <3>9. Opened' = Opened \cup {s} /\ s \in Sessions \ Opened
      BY <3>1, <3>7, <3>8 DEF Opened
    <3>10. Active(clock)' = Active(clock) \cup {s}
      BY <2>1, <3>6, <3>7, <3>8 DEF Active
    <3>11. Cardinality(Active(clock)) < MaximumActiveSessions
      <4>1. Cardinality(Active(now)) < MaximumActiveSessions
        <5>1. ~(Cardinality(Active(now)) >= MaximumActiveSessions)
          BY <2>3 DEF SessionLimit, now
        <5>2. Cardinality(Active(now)) \in Nat /\ MaximumActiveSessions \in Nat
          BY <3>3, <3>5, ActiveShrinks
        <5> QED  BY <5>1, <5>2
      <4> QED  BY <4>1, <3>3, <3>5, ActiveShrinks
    <3>12. Offers' = [Offers EXCEPT ![h] = Malformed]
      BY <2>1, Offering, Kinds DEF Offer
    <3>13. Access!Open(h, s)
      <4>1. Offers[h] \in password /\ s \in Sessions \ Opened /\ UNCHANGED password
        BY <2>1, <3>4, <3>9
      <4>2. Access!Cardinality(Active(clock)) < MaximumActiveSessions
        BY <3>11, SameCardinality
      <4> QED  BY <4>1, <4>2, <3>9, <3>10, <3>12, Zenon DEF Access!Open, Opened
    <3> QED  BY <3>1, <3>13 DEF Access!Next
  <2> QED  BY <1>2, <2>2, <2>3 DEF CreateSession
<1>3. ASSUME NEW h \in Handlers, UpdateLastSeen(h)
      PROVE  [Access!Next]_AccessVars
  <2> DEFINE s == handler[h].session
             seen == IF sessions[s].lastSeenAt <= handler[h].now - LastSeenWriteInterval
                     THEN handler[h].now ELSE sessions[s].lastSeenAt
  <2>1. handler[h] \in Calls /\ s \in Sessions /\ HandlerOK(handler[h])
        /\ UNCHANGED <<clock, password>>
    BY <1>3, CallAt DEF UpdateLastSeen, HandlerInv
  <2>2. sessions[s] # NoRow /\ sessions[s] \in Rows
    BY <2>1, RowsOf DEF HandlerOK
  <2>3. sessions' = sessions \/ sessions' = [sessions EXCEPT ![s] = [sessions[s] EXCEPT !.lastSeenAt = seen]]
    BY <1>3, <2>1 DEF UpdateLastSeen, TypeOK
  <2> HIDE DEF s, seen
  <2>4. /\ sessions'[s].createdAt = sessions[s].createdAt
        /\ sessions'[s].revokedAt = sessions[s].revokedAt
        /\ sessions'[s].expiresAt = sessions[s].expiresAt
        /\ \A r \in Sessions \ {s} : sessions'[r] = sessions[r]
    BY <2>1, <2>2, <2>3 DEF TypeOK, Rows
  <2>5. sessions'[s] # NoRow
    BY <2>1, <2>2, <2>4 DEF RowInv, NoRow
  <2>6. Opened' = Opened
    BY <2>1, <2>2, <2>4, <2>5 DEF Opened
  <2>7. Active(clock)' = Active(clock)
    BY <2>1, <2>2, <2>4, <2>5 DEF Active
  <2>8. Offers' = Offers
    <3> DEFINE x == [handler[h] EXCEPT !.pc = "act"]
    <3>1. handler' = [handler EXCEPT ![h] = Idle] \/ handler' = [handler EXCEPT ![h] = x]
      BY <1>3 DEF UpdateLastSeen, Goto, End, TypeOK
    <3>2. x \in Calls
      BY <2>1, Records
    <3> HIDE DEF x
    <3> QED  BY <2>1, <3>1, <3>2, CallOffers
  <2> QED  BY <2>1, <2>6, <2>7, <2>8 DEF AccessVars
<1>4. ASSUME NEW h \in Handlers, NEW s \in Sessions, Revoke(h, s)
      PROVE  [Access!Next]_AccessVars
  <2>1. sessions[s] # NoRow /\ sessions[s] \in Rows /\ UNCHANGED <<clock, password>> /\ clock >= 1 /\ clock \in Nat
    BY <1>4, RowsOf DEF Revoke, TypeOK
  <2>2. /\ sessions'[s].createdAt = sessions[s].createdAt
        /\ sessions'[s].revokedAt = IF sessions[s].revokedAt = 0 THEN clock ELSE sessions[s].revokedAt
        /\ \A r \in Sessions \ {s} : sessions'[r] = sessions[r]
    BY <1>4, <2>1 DEF Revoke, TypeOK, Rows
  <2>3. sessions'[s] # NoRow
    BY <2>1, <2>2 DEF RowInv, NoRow
  <2>4. Opened' = Opened
    BY <2>1, <2>2, <2>3 DEF Opened
  <2>5. Active(clock)' = Active(clock) \ {s}
    <3>1. sessions'[s].revokedAt # 0
      BY <2>1, <2>2
    <3> QED  BY <2>1, <2>2, <3>1 DEF Active
  <2>8. Offers' = Offers
    BY <1>4, CallAt, CallOffers DEF Revoke, End
  <2>6. Access!Close({s})
    BY <2>1, <2>4, <2>5, <2>8 DEF Access!Close, Opened
  <2>7. {s} \in SUBSET Sessions
    OBVIOUS
  <2> QED  BY <2>6, <2>7 DEF Access!Next
<1>5. ASSUME NEW p \in Passwords, BootstrapOwner(p)
      PROVE  [Access!Next]_AccessVars
  <2>1. Active(clock)' = {} /\ Offers' = Offers
    BY <1>5 DEF BootstrapOwner, RowInv, Active, Offers
  <2>2. Access!SetPassword(p)
    BY <1>5, <2>1 DEF BootstrapOwner, Access!SetPassword, Opened
  <2> QED  BY <2>2 DEF Access!Next
<1>6. ASSUME NEW p \in Passwords, ResetCredentials(p)
      PROVE  [Access!Next]_AccessVars
  <2>1. clock \in Nat /\ clock >= 1
    BY DEF TypeOK
  <2>2. ASSUME NEW s \in Sessions
        PROVE  /\ sessions[s] = NoRow <=> sessions'[s] = NoRow
               /\ sessions'[s] # NoRow => sessions'[s].revokedAt # 0
    <3>1. sessions'[s] = IF sessions[s] # NoRow /\ sessions[s].revokedAt = 0
                         THEN [sessions[s] EXCEPT !.revokedAt = clock] ELSE sessions[s]
      BY <1>6 DEF ResetCredentials
    <3>2. CASE sessions[s] # NoRow /\ sessions[s].revokedAt = 0
      <4>1. sessions'[s].createdAt = sessions[s].createdAt /\ sessions'[s].revokedAt = clock
        BY <3>1, <3>2, RowsOf DEF Rows
      <4>2. sessions[s].createdAt >= 1
        BY <3>2 DEF RowInv
      <4> QED  BY <2>1, <3>2, <4>1, <4>2 DEF NoRow
    <3> QED  BY <3>1, <3>2
  <2>3. Opened' = Opened /\ Active(clock)' = {}
    BY <2>2 DEF Opened, Active
  <2>5. Offers' = Offers
    BY <1>6 DEF ResetCredentials, Offers
  <2>4. Access!SetPassword(p)
    BY <1>6, <2>3, <2>5 DEF ResetCredentials, Access!SetPassword, Opened
  <2> QED  BY <2>4 DEF Access!Next
<1>7. CASE Tick
  <2> DEFINE gone == {s \in Sessions : sessions[s].expiresAt <= clock'}
  <2>1. clock' = clock + 1 /\ clock \in Nat /\ UNCHANGED <<password, sessions>>
    BY <1>7 DEF Tick, TypeOK
  <2>2. Active(clock)' = Active(clock) \ gone
    <3>1. \A s \in Sessions : sessions[s].expiresAt \in Nat
      BY RowsOf
    <3> QED  BY <2>1, <3>1 DEF Active
  <2>5. Offers' = Offers
    BY <1>7 DEF Tick, Offers
  <2>3. Access!Close(gone)
    BY <2>1, <2>2, <2>5 DEF Access!Close, Opened
  <2>4. gone \in SUBSET Sessions
    OBVIOUS
  <2> QED  BY <2>3, <2>4 DEF Access!Next
<1>8. ASSUME NEW h \in Handlers, handler' \in [Handlers -> Logins \cup Calls \cup {Idle}],
             UNCHANGED <<clock, password, sessions>>,
             \A g \in Handlers \ {h} : handler'[g] = handler[g]
      PROVE  [Access!Next]_AccessVars
  <2>1. PICK x \in Logins \cup Calls \cup {Idle} : x = handler'[h]
    BY <1>8
  <2>2. handler' = [handler EXCEPT ![h] = x]
    BY <1>8, <2>1 DEF TypeOK
  <2> QED  BY <1>1, <1>8, <2>2
<1>9. ASSUME NEW h \in Handlers,
             \/ \E name \in Names, peer \in Peers, guess \in Passwords \cup {Malformed}, now \in Recent :
                  BeginLogin(h, name, peer, guess, now)
             \/ FindCredential(h) \/ Succeed(h) \/ FailLogin(h) \/ AbandonLogin(h)
             \/ \E s \in Sessions : BeginCall(h, s)
             \/ Judge(h) \/ EndCall(h)
      PROVE  [Access!Next]_AccessVars
  <2>1. /\ UNCHANGED <<clock, password, sessions>>
        /\ \A g \in Handlers \ {h} : handler'[g] = handler[g]
    BY <1>9 DEF BeginLogin, FindCredential, Succeed, FailLogin, AbandonLogin, BeginCall, Judge,
       EndCall, Goto, End, TypeOK
  <2>2. handler' \in [Handlers -> Logins \cup Calls \cup {Idle}]
    BY TypeStep DEF TypeOK
  <2> QED  BY <1>8, <2>1, <2>2
<1>10. CASE Stop
  <2>1. UNCHANGED <<clock, password, sessions>> /\ handler' = [h \in Handlers |-> Idle]
    BY <1>10 DEF Stop
  <2>2. Offers' = [h \in Handlers |-> Malformed]
    BY <2>1, Kinds DEF Offers, Offer
  <2>3. Access!Forget
    BY <1>0, <2>1, <2>2 DEF Access!Forget, Opened
  <2> QED  BY <2>3 DEF Access!Next
<1>11. CASE Start \/ UNCHANGED vars
  BY <1>0, <1>11 DEF Start, vars, AccessVars, Offers
<1> QED
  BY <1>2, <1>3, <1>4, <1>5, <1>6, <1>7, <1>9, <1>10, <1>11 DEF Next, Login, Call

\* Logins, sessions and the administrator's commands implement OwnerAccess
\* (service.go, sqlite_repository.go), whatever the handlers interleave: a
\* session opens for a login whose guess is the owner's password then.
THEOREM AccessImplemented == Spec => AccessIsAtomic
<1>1. Init => Access!Init
  <2> SUFFICES ASSUME Init PROVE Access!Init
    OBVIOUS
  <2>1. \A s \in Sessions : sessions[s] = NoRow
    BY DEF Init
  <2>2. Offers = [h \in Handlers |-> Malformed]
    BY Kinds DEF Init, Offers, Offer
  <2> QED  BY <2>1, <2>2 DEF Init, Access!Init, Active
<1>2. TypeOK /\ HandlerInv /\ RowInv /\ [Next]_vars
        => [Access!Next]_<<password, Offers, Opened, Active(clock)>>
  BY AccessNext DEF AccessVars
<1>3. Spec => [](TypeOK /\ HandlerInv /\ RowInv)
  BY InitTypes, TypeStep, AccessInit, AccessStep, PTL DEF Spec
<1> QED  BY <1>1, <1>2, <1>3, PTL DEF Spec, AccessIsAtomic, Access!Spec, Access!vars, Opened

\* last_seen_at moves in steps of at least LastSeenWriteInterval (service.go,
\* sqlite_repository.go UpdateLastSeen).
THEOREM LastSeenSparse == Spec => LastSeenIsSparse
<1> DEFINE Sparse == \A s \in Sessions : sessions[s] # NoRow =>
             \/ sessions'[s].lastSeenAt = sessions[s].lastSeenAt
             \/ sessions'[s].lastSeenAt >= sessions[s].lastSeenAt + LastSeenWriteInterval
<1>1. TypeOK /\ HandlerInv /\ RowInv /\ [Next]_vars => [Sparse]_vars
  <2> SUFFICES ASSUME TypeOK, HandlerInv, RowInv, Next PROVE Sparse
    OBVIOUS
  <2> USE DEF limiterVars, accountVars
  <2>1. ASSUME NEW h \in Handlers, CreateSession(h)
        PROVE  \A s \in Sessions : sessions[s] # NoRow => sessions'[s] = sessions[s]
    BY <2>1 DEF CreateSession, TypeOK
  <2>2. ASSUME NEW h \in Handlers, UpdateLastSeen(h), NEW s \in Sessions, sessions[s] # NoRow
        PROVE  \/ sessions'[s].lastSeenAt = sessions[s].lastSeenAt
               \/ sessions'[s].lastSeenAt >= sessions[s].lastSeenAt + LastSeenWriteInterval
    <3>1. handler[h].now \in Nat /\ handler[h].session \in Sessions
      BY <2>2, CallAt DEF UpdateLastSeen
    <3>2. sessions[s].lastSeenAt \in Nat /\ sessions[s] \in Rows /\ LastSeenWriteInterval \in Nat
      BY RowsOf
    <3> DEFINE now == handler[h].now
    <3>3. \/ sessions'[s] = sessions[s]
          \/ sessions'[s].lastSeenAt = IF sessions[s].lastSeenAt <= now - LastSeenWriteInterval
                                       THEN now ELSE sessions[s].lastSeenAt
      BY <2>2, <3>1, <3>2 DEF UpdateLastSeen, TypeOK, Rows
    <3>4. now \in Nat
      BY <3>1
    <3> HIDE DEF now
    <3> QED  BY <3>2, <3>3, <3>4
  <2>3. ASSUME NEW h \in Handlers, NEW r \in Sessions, Revoke(h, r)
        PROVE  \A s \in Sessions : sessions'[s].lastSeenAt = sessions[s].lastSeenAt
    BY <2>3, RowsOf DEF Revoke, TypeOK, Rows
  <2>4. ASSUME NEW p \in Passwords, ResetCredentials(p)
        PROVE  \A s \in Sessions : sessions'[s].lastSeenAt = sessions[s].lastSeenAt
    BY <2>4, RowsOf DEF ResetCredentials, Rows
  <2>5. ASSUME NEW h \in Handlers,
               \/ \E name \in Names, peer \in Peers, guess \in Passwords \cup {Malformed}, now \in Recent :
                    BeginLogin(h, name, peer, guess, now)
               \/ FindCredential(h) \/ Succeed(h) \/ FailLogin(h) \/ AbandonLogin(h)
               \/ \E s \in Sessions : BeginCall(h, s)
               \/ Judge(h) \/ EndCall(h)
        PROVE  sessions' = sessions
    BY <2>5 DEF BeginLogin, FindCredential, Succeed, FailLogin, AbandonLogin, BeginCall, Judge, EndCall
  <2>6. ASSUME NEW p \in Passwords, Start \/ Stop \/ Tick \/ BootstrapOwner(p)
        PROVE  sessions' = sessions
    BY <2>6 DEF Start, Stop, Tick, BootstrapOwner
  <2>7. Start \/ Stop \/ Tick => sessions' = sessions
    BY DEF Start, Stop, Tick
  <2> QED  BY <2>1, <2>2, <2>3, <2>4, <2>5, <2>6, <2>7 DEF Next, Login, Call
<1>2. Spec => [](TypeOK /\ HandlerInv /\ RowInv)
  BY InitTypes, TypeStep, AccessInit, AccessStep, PTL DEF Spec
<1> QED  BY <1>1, <1>2, PTL DEF Spec, LastSeenIsSparse

-----------------------------------------------------------------------------
(* The limiter *)

LEMMA EntriesOK ==
  ASSUME TypeOK
  PROVE  /\ EntryOK(NoEntry)
         /\ \A e \in Entries, now, limit \in Nat :
              EntryOK(e) /\ now >= 1 /\ now <= clock => EntryOK(Counted(e, now, limit))
<1>1. clock \in Nat /\ LoginBlockDuration \in Nat
  BY DEF TypeOK
<1>2. EntryOK(NoEntry)
  BY <1>1 DEF EntryOK, NoEntry
<1>3. ASSUME NEW e \in Entries, NEW now \in Nat, NEW limit \in Nat,
             EntryOK(e), now >= 1, now <= clock
      PROVE  EntryOK(Counted(e, now, limit))
  <2>1. e.windowStarted \in Nat /\ e.blockedUntil \in Nat
    BY DEF Entries
  <2>2. e.windowStarted <= clock /\ e.blockedUntil <= clock + LoginBlockDuration
    BY <1>3 DEF EntryOK
  <2> DEFINE g == Counted(e, now, limit)
  <2>3. g.windowStarted = now \/ (g.windowStarted = e.windowStarted /\ e.windowStarted # 0)
    BY DEF Counted
  <2>4. g.blockedUntil \in {now + LoginBlockDuration, 0, e.blockedUntil}
    BY DEF Counted
  <2> HIDE DEF g
  <2>5. g.windowStarted >= 1 /\ g.windowStarted <= clock
    BY <1>1, <1>3, <2>1, <2>2, <2>3
  <2>6. g.blockedUntil <= clock + LoginBlockDuration
    BY <1>1, <1>3, <2>1, <2>2, <2>4
  <2>7. EntryOK(g)
    BY <2>5, <2>6 DEF EntryOK
  <2> QED  BY <2>7 DEF g
<1> QED  BY <1>2, <1>3

\* Both maps after an action that records no failure.
LEMMA NoFailure ==
  ASSUME TypeOK, HandlerInv, [Next]_vars, ~ \E h \in Handlers : FailLogin(h)
  PROVE  /\ clock' >= clock
         /\ \A k \in Keys : accountEntries'[k] \in {accountEntries[k], NoEntry}
         /\ \A p \in Peers : ipEntries'[p] \in {ipEntries[p], NoEntry}
<1> USE DEF limiterVars, accountVars
<1>0. clock \in Nat
  BY DEF TypeOK
<1>1. ASSUME NEW h \in Handlers, NEW name \in Names, NEW peer \in Peers,
             NEW guess \in Passwords \cup {Malformed}, NEW now \in Recent,
             BeginLogin(h, name, peer, guess, now)
      PROVE  /\ \A k \in Keys : accountEntries'[k] \in {accountEntries[k], NoEntry}
             /\ \A p \in Peers : ipEntries'[p] \in {ipEntries[p], NoEntry}
             /\ clock' = clock
  <2>1. now \in Nat /\ clock' = clock
    BY <1>1 DEF Recent, BeginLogin
  <2>2. /\ accountEntries' = Cleaned(accountEntries, now)
        /\ ipEntries' = Cleaned(ipEntries, now)
    BY <1>1 DEF BeginLogin, Check
  <2>3. accountEntries \in [Keys -> Entries] /\ ipEntries \in [Peers -> Entries]
    BY DEF TypeOK, LimiterTypeOK
  <2> QED  BY <2>1, <2>2, <2>3, CleanedMap, FiniteMaps
<1>2. ASSUME NEW h \in Handlers, Succeed(h)
      PROVE  /\ \A k \in Keys : accountEntries'[k] \in {accountEntries[k], NoEntry}
             /\ UNCHANGED <<clock, ipEntries>>
  BY <1>2 DEF Succeed, Clear, TypeOK, LimiterTypeOK
<1>3. ASSUME NEW h \in Handlers,
             \/ FindCredential(h) \/ AbandonLogin(h) \/ CreateSession(h)
             \/ \E s \in Sessions : BeginCall(h, s) \/ Revoke(h, s)
             \/ Judge(h) \/ UpdateLastSeen(h) \/ EndCall(h)
      PROVE  UNCHANGED <<clock, accountEntries, ipEntries>>
  BY <1>3 DEF FindCredential, AbandonLogin, CreateSession, BeginCall, Judge, UpdateLastSeen,
     Revoke, EndCall
<1>4. CASE Stop
  BY <1>0, <1>4 DEF Stop, ForgetLimiter
<1>5. CASE Tick
  BY <1>0, <1>5 DEF Tick
<1>6. ASSUME Start \/ (\E p \in Passwords : BootstrapOwner(p) \/ ResetCredentials(p)) \/ UNCHANGED vars
      PROVE  UNCHANGED <<clock, accountEntries, ipEntries>>
  BY <1>6 DEF Start, BootstrapOwner, ResetCredentials, vars
<1> QED
  BY <1>0, <1>1, <1>2, <1>3, <1>4, <1>5, <1>6 DEF Next, Login, Call

\* What a failed login does to both maps.
LEMMA Failure ==
  ASSUME TypeOK, HandlerInv, NEW h \in Handlers, FailLogin(h)
  PROVE  /\ h \in Pending(handler[h].name, handler[h].peer)
         /\ handler[h].name \in Names /\ handler[h].peer \in Peers
         /\ handler[h].now \in Nat /\ handler[h].now >= 1
         /\ handler[h].now <= clock /\ clock - handler[h].now <= Delay
         /\ handler'[h] = Idle /\ UNCHANGED <<clock, serving>>
         /\ \A g \in Handlers \ {h} : handler'[g] = handler[g]
         /\ accountEntries' \in AfterFailure(<<handler[h].name, handler[h].peer>>,
                                  accountEntries, handler[h].now, AccountFailureLimit)
         /\ ipEntries' \in AfterFailure(handler[h].peer, ipEntries, handler[h].now, IPFailureLimit)
<1>1. /\ handler[h] \in Logins /\ h \in LoggingIn /\ handler[h].pc # "create"
      /\ handler[h].name \in Names /\ handler[h].peer \in Peers /\ handler[h].now \in Nat
  BY LoginAt DEF FailLogin, Running
<1>2. HandlerOK(handler[h])
  BY DEF HandlerInv
<1>3. handler'[h] = Idle /\ \A g \in Handlers \ {h} : handler'[g] = handler[g]
  BY DEF FailLogin, End, TypeOK
<1>4. /\ accountEntries' \in AfterFailure(<<handler[h].name, handler[h].peer>>,
                               accountEntries, handler[h].now, AccountFailureLimit)
      /\ ipEntries' \in AfterFailure(handler[h].peer, ipEntries, handler[h].now, IPFailureLimit)
  BY DEF FailLogin, RecordFailure, AfterFailure
<1>5. h \in Pending(handler[h].name, handler[h].peer)
  BY <1>1 DEF Pending
<1>6. UNCHANGED <<clock, serving>>
  BY DEF FailLogin
<1> QED  BY <1>1, <1>2, <1>3, <1>4, <1>5, <1>6 DEF HandlerOK

\* CountedMap for the two maps.
LEMMA FailureMaps ==
  ASSUME TypeOK, HandlerInv, NEW h \in Handlers, FailLogin(h),
         NEW k, k = <<handler[h].name, handler[h].peer>>,
         NEW peer, peer = handler[h].peer, NEW now, now = handler[h].now
  PROVE  /\ k \in Keys /\ peer \in Peers
         /\ accountEntries'[k] = Counted(Cleaned(accountEntries, now)[k], now, AccountFailureLimit)
         /\ Cleaned(accountEntries, now)[k] \in {accountEntries[k], NoEntry}
         /\ accountEntries[k].blockedUntil > now => Cleaned(accountEntries, now)[k] = accountEntries[k]
         /\ \A v \in Keys \ {k} : accountEntries'[v] \in {accountEntries[v], NoEntry}
         /\ \A v \in Keys \ {k} : accountEntries[v].blockedUntil > now =>
              \/ accountEntries'[v] = accountEntries[v]
              \/ Evicted(v, accountEntries, accountEntries')
         /\ ipEntries'[peer] = Counted(Cleaned(ipEntries, now)[peer], now, IPFailureLimit)
         /\ Cleaned(ipEntries, now)[peer] \in {ipEntries[peer], NoEntry}
         /\ ipEntries[peer].blockedUntil > now => Cleaned(ipEntries, now)[peer] = ipEntries[peer]
         /\ \A v \in Peers \ {peer} : ipEntries'[v] \in {ipEntries[v], NoEntry}
         /\ \A v \in Peers \ {peer} : ipEntries[v].blockedUntil > now =>
              ipEntries'[v] = ipEntries[v] \/ Evicted(v, ipEntries, ipEntries')
<1>1. k \in Keys /\ peer \in Peers /\ now \in Nat
  BY Failure DEF Keys
<1>2. /\ accountEntries' \in AfterFailure(k, accountEntries, now, AccountFailureLimit)
      /\ ipEntries' \in AfterFailure(peer, ipEntries, now, IPFailureLimit)
  BY Failure
<1>3. AccountFailureLimit \in Nat /\ IPFailureLimit \in Nat
  OBVIOUS
<1>4. /\ accountEntries \in [Keys -> Entries] /\ Cardinality(Held(accountEntries)) <= MaxEntries
      /\ ipEntries \in [Peers -> Entries] /\ Cardinality(Held(ipEntries)) <= MaxEntries
      /\ IsFiniteSet(Keys) /\ IsFiniteSet(Peers)
  BY FiniteMaps DEF TypeOK, LimiterTypeOK
<1>5. /\ accountEntries'[k] = Counted(Cleaned(accountEntries, now)[k], now, AccountFailureLimit)
      /\ \A v \in Keys \ {k} : accountEntries'[v] \in {accountEntries[v], NoEntry}
      /\ \A v \in Keys \ {k} : accountEntries[v].blockedUntil > now =>
           \/ accountEntries'[v] = accountEntries[v]
           \/ Evicted(v, accountEntries, accountEntries')
  <2>1. /\ k \in Keys /\ now \in Nat /\ AccountFailureLimit \in Nat
        /\ accountEntries' \in AfterFailure(k, accountEntries, now, AccountFailureLimit)
    BY <1>1, <1>2, <1>3
  <2>2. /\ accountEntries \in [Keys -> Entries] /\ Cardinality(Held(accountEntries)) <= MaxEntries
        /\ IsFiniteSet(Keys)
    BY <1>4
  <2> QED  BY <2>1, <2>2, CountedMap
<1>6. /\ ipEntries'[peer] = Counted(Cleaned(ipEntries, now)[peer], now, IPFailureLimit)
      /\ \A v \in Peers \ {peer} : ipEntries'[v] \in {ipEntries[v], NoEntry}
      /\ \A v \in Peers \ {peer} : ipEntries[v].blockedUntil > now =>
           ipEntries'[v] = ipEntries[v] \/ Evicted(v, ipEntries, ipEntries')
  <2>1. /\ peer \in Peers /\ now \in Nat /\ IPFailureLimit \in Nat
        /\ ipEntries' \in AfterFailure(peer, ipEntries, now, IPFailureLimit)
    BY <1>1, <1>2, <1>3
  <2>2. /\ ipEntries \in [Peers -> Entries] /\ Cardinality(Held(ipEntries)) <= MaxEntries
        /\ IsFiniteSet(Peers)
    BY <1>4
  <2> QED  BY <2>1, <2>2, CountedMap
<1>7. /\ Cleaned(accountEntries, now)[k] \in {accountEntries[k], NoEntry}
      /\ accountEntries[k].blockedUntil > now => Cleaned(accountEntries, now)[k] = accountEntries[k]
      /\ Cleaned(ipEntries, now)[peer] \in {ipEntries[peer], NoEntry}
      /\ ipEntries[peer].blockedUntil > now => Cleaned(ipEntries, now)[peer] = ipEntries[peer]
  BY <1>1, <1>4, CleanedMap
<1> QED  BY <1>1, <1>5, <1>6, <1>7

LEMMA LimiterStep ==
  TypeOK /\ HandlerInv /\ LimiterInv /\ [Next]_vars => LimiterInv'
<1> SUFFICES ASSUME TypeOK, HandlerInv, LimiterInv, [Next]_vars, TypeOK' PROVE LimiterInv'
  BY TypeStep
<1>1. \A k \in Keys : accountEntries[k] \in Entries /\ EntryOK(accountEntries[k])
  BY DEF TypeOK, LimiterTypeOK, LimiterInv
<1>2. \A p \in Peers : ipEntries[p] \in Entries /\ EntryOK(ipEntries[p])
  BY DEF TypeOK, LimiterTypeOK, LimiterInv
<1>3. CASE ~ \E h \in Handlers : FailLogin(h)
  <2>1. /\ clock' >= clock /\ clock \in Nat /\ clock' \in Nat /\ LoginBlockDuration \in Nat
    BY <1>3, NoFailure DEF TypeOK
  <2>2. ASSUME NEW e \in Entries, EntryOK(e)
        PROVE  /\ e # NoEntry => e.windowStarted >= 1
               /\ e.windowStarted <= clock'
               /\ e.blockedUntil <= clock' + LoginBlockDuration
    BY <2>1, <2>2 DEF EntryOK, Entries
  <2>3. NoEntry \in Entries /\ EntryOK(NoEntry)
    BY EntryTypes, EntriesOK
  <2>4. ASSUME NEW k \in Keys PROVE EntryOK(accountEntries[k])'
    <3>1. accountEntries'[k] \in Entries /\ EntryOK(accountEntries'[k])
      BY <1>1, <1>3, <2>3, NoFailure
    <3> QED  BY <2>2, <3>1 DEF EntryOK
  <2>5. ASSUME NEW p \in Peers PROVE EntryOK(ipEntries[p])'
    <3>1. ipEntries'[p] \in Entries /\ EntryOK(ipEntries'[p])
      BY <1>2, <1>3, <2>3, NoFailure
    <3> QED  BY <2>2, <3>1 DEF EntryOK
  <2> QED  BY <2>4, <2>5 DEF LimiterInv
<1>4. ASSUME NEW h \in Handlers, FailLogin(h)
      PROVE  LimiterInv'
  <2>1. PICK k, peer, now : k = <<handler[h].name, handler[h].peer>>
                            /\ peer = handler[h].peer /\ now = handler[h].now
    OBVIOUS
  <2>2. now \in Nat /\ now >= 1 /\ now <= clock /\ clock' = clock
    BY <1>4, <2>1, Failure
  <2>3. AccountFailureLimit \in Nat /\ IPFailureLimit \in Nat
    OBVIOUS
  <2>4. \A v \in Keys : EntryOK(accountEntries'[v])
    <3>1. PICK c : c = Cleaned(accountEntries, now)[k]
      OBVIOUS
    <3>4. k \in Keys /\ c \in {accountEntries[k], NoEntry}
          /\ accountEntries'[k] = Counted(c, now, AccountFailureLimit)
      BY <1>4, <2>1, <3>1, FailureMaps
    <3>5. c \in Entries /\ EntryOK(c)
      BY <1>1, <3>4, EntriesOK, EntryTypes
    <3>2. EntryOK(accountEntries'[k])
      BY <2>2, <2>3, <3>4, <3>5, EntriesOK
    <3>3. \A v \in Keys \ {k} : EntryOK(accountEntries'[v])
      BY <1>1, <1>4, <2>1, FailureMaps, EntriesOK
    <3> QED  BY <3>2, <3>3
  <2>5. \A v \in Peers : EntryOK(ipEntries'[v])
    <3>1. PICK c : c = Cleaned(ipEntries, now)[peer]
      OBVIOUS
    <3>4. peer \in Peers /\ c \in {ipEntries[peer], NoEntry}
          /\ ipEntries'[peer] = Counted(c, now, IPFailureLimit)
      BY <1>4, <2>1, <3>1, FailureMaps
    <3>5. c \in Entries /\ EntryOK(c)
      BY <1>2, <3>4, EntriesOK, EntryTypes
    <3>2. EntryOK(ipEntries'[peer])
      BY <2>2, <2>3, <3>4, <3>5, EntriesOK
    <3>3. \A v \in Peers \ {peer} : EntryOK(ipEntries'[v])
      BY <1>2, <1>4, <2>1, FailureMaps, EntriesOK
    <3> QED  BY <3>2, <3>3
  <2> QED  BY <2>2, <2>4, <2>5 DEF LimiterInv, EntryOK
<1> QED  BY <1>3, <1>4

LEMMA LateFinite ==
  /\ \A k \in Keys : AccountLate(k) \subseteq Handlers
  /\ \A p \in Peers : PeerLate(p) \subseteq Handlers
  /\ \A S : S \subseteq Handlers => IsFiniteSet(S) /\ Cardinality(S) \in Nat
  /\ \A S, T : S \subseteq T /\ T \subseteq Handlers => Cardinality(S) <= Cardinality(T)
<1>1. /\ \A k \in Keys : AccountLate(k) \subseteq Handlers
      /\ \A p \in Peers : PeerLate(p) \subseteq Handlers
  BY DEF AccountLate, PeerLate, Late, Pending, PendingOf, LoggingIn
<1>2. \A S : S \subseteq Handlers => IsFiniteSet(S) /\ Cardinality(S) \in Nat
  BY FS_Subset, FS_CardinalityType
<1>3. \A S, T : S \subseteq T /\ T \subseteq Handlers => Cardinality(S) <= Cardinality(T)
  BY <1>2, FS_Subset
<1> QED  BY <1>1, <1>2, <1>3

\* A bucket that is forgotten, or left alone while no login becomes a late one.
LEMMA BlockKept ==
  ASSUME NEW limit \in Nat \ {0}, NEW e \in Entries, NEW f, NEW L, NEW M,
         L \subseteq Handlers, M \subseteq Handlers, BlockOK(e, limit, L),
         f = NoEntry \/ (f = e /\ (e.failures >= limit => M \subseteq L))
  PROVE  BlockOK(f, limit, M)
<1>1. CASE f = NoEntry
  BY <1>1 DEF BlockOK, NoEntry
<1>2. CASE f = e /\ (e.failures >= limit => M \subseteq L)
  <2>1. SUFFICES ASSUME e.failures >= limit
                 PROVE  e.failures + Cardinality(M) < limit + Cardinality(Handlers)
    BY <1>2 DEF BlockOK
  <2>2. /\ {Cardinality(L), Cardinality(M), Cardinality(Handlers)} \subseteq Nat
        /\ Cardinality(M) <= Cardinality(L)
    BY <1>2, <2>1, LateFinite
  <2>3. e.failures \in Nat /\ e.failures + Cardinality(L) < limit + Cardinality(Handlers)
    BY <2>1 DEF BlockOK, Entries
  <2> QED  BY <2>2, <2>3
<1> QED  BY <1>1, <1>2

\* A bucket that counts the failure of a login h, one of its late ones unless
\* a window begins.
LEMMA BlockCounts ==
  ASSUME TypeOK, NEW limit \in Nat \ {0}, NEW e \in Entries, NEW c \in {e, NoEntry}, EntryOK(e),
         NEW now \in Nat, now >= 1, now <= clock, clock - now <= Delay,
         NEW f, f = Counted(c, now, limit), NEW h \in Handlers, NEW L, NEW M,
         L \subseteq Handlers, M \subseteq Handlers \ {h}, BlockOK(e, limit, L),
         now <= e.windowStarted + LoginFailureWindow => h \in L,
         f.windowStarted = e.windowStarted => M \subseteq L \ {h}
  PROVE  BlockOK(f, limit, M)
<1>1. c \in Entries /\ EntryOK(c)
  BY EntriesOK, EntryTypes
<1>2. /\ limit >= 1 /\ {LoginFailureWindow, LoginBlockDuration, Delay, clock} \subseteq Nat
      /\ LoginFailureWindow + Delay < LoginBlockDuration
  BY DEF TypeOK
<1>3. /\ {Cardinality(Handlers), Cardinality(L), Cardinality(M)} \subseteq Nat
      /\ Cardinality(M) <= Cardinality(Handlers) - 1
  <2>1. IsFiniteSet(Handlers) /\ Cardinality(Handlers \ {h}) = Cardinality(Handlers) - 1
    BY FS_RemoveElement
  <2> QED  BY <2>1, LateFinite
<1>4. /\ c.windowStarted \in Nat /\ c.windowStarted <= clock /\ c.failures \in Nat
  BY <1>1 DEF Entries, EntryOK
<1> DEFINE fresh == c.windowStarted = 0 \/ now - c.windowStarted > LoginFailureWindow
<1>5. /\ f.failures = IF fresh THEN 1 ELSE c.failures + 1
      /\ f.windowStarted = IF fresh THEN now ELSE c.windowStarted
      /\ f.failures >= limit => f.blockedUntil = now + LoginBlockDuration
  BY DEF Counted
<1> SUFFICES ASSUME f.failures >= limit
             PROVE  /\ f.blockedUntil > f.windowStarted + LoginFailureWindow
                    /\ f.failures + Cardinality(M) < limit + Cardinality(Handlers)
  BY DEF BlockOK
<1>6. f.blockedUntil > f.windowStarted + LoginFailureWindow
  BY <1>2, <1>4, <1>5
<1>7. CASE fresh \/ c.failures < limit
  <2>1. f.failures \in Nat /\ f.failures <= limit
    BY <1>2, <1>4, <1>5, <1>7
  <2> QED  BY <1>2, <1>3, <1>6, <2>1
<1>8. CASE ~fresh /\ c.failures >= limit
  <2>1. c = e
    BY <1>2, <1>8 DEF NoEntry
  <2>2. e.failures \in Nat /\ e.failures + Cardinality(L) < limit + Cardinality(Handlers)
    BY <1>4, <1>8, <2>1 DEF BlockOK
  <2>3. f.failures = e.failures + 1 /\ f.windowStarted = e.windowStarted
    BY <1>5, <1>8, <2>1
  <2>4. h \in L
    BY <1>2, <1>4, <1>8, <2>1
  <2>5. Cardinality(M) <= Cardinality(L) - 1
    <3>1. IsFiniteSet(L) /\ Cardinality(L \ {h}) = Cardinality(L) - 1
      BY <2>4, LateFinite, FS_RemoveElement
    <3>2. M \subseteq L \ {h} /\ L \ {h} \subseteq Handlers
      BY <2>3
    <3> QED  BY <3>1, <3>2, LateFinite
  <2> QED  BY <1>2, <1>3, <1>6, <2>2, <2>3, <2>5
<1> HIDE DEF fresh
<1> QED  BY <1>2, <1>4, <1>7, <1>8

\* A goroutine that does not begin a login in this step.
Settles(g) ==
  \/ handler'[g] = handler[g]
  \/ handler'[g] \notin Logins
  \/ handler'[g].pc = "create"
  \/ /\ g \in LoggingIn /\ handler[g].pc # "create"
     /\ handler'[g].name = handler[g].name /\ handler'[g].peer = handler[g].peer
     /\ handler'[g].now = handler[g].now

LEMMA StepSettles ==
  ASSUME TypeOK, [Next]_vars, NEW g \in Handlers
  PROVE  \/ Settles(g)
         \/ \E name \in Names, peer \in Peers, guess \in Passwords \cup {Malformed}, now \in Recent :
              BeginLogin(g, name, peer, guess, now)
<1> USE DEF limiterVars, accountVars
<1>1. ASSUME NEW h \in Handlers, Login(h) \/ Call(h), h # g
      PROVE  handler'[g] = handler[g]
  BY <1>1 DEF Login, Call, BeginLogin, FindCredential, Succeed, FailLogin, AbandonLogin,
     CreateSession, BeginCall, Judge, UpdateLastSeen, Revoke, EndCall, Goto, End, TypeOK
<1>2. CASE FindCredential(g)
  <2>1. handler[g] \in Logins /\ g \in LoggingIn /\ handler[g].pc = "lookup"
    BY <1>2, LoginAt DEF FindCredential, Running
  <2>2. /\ handler'[g].name = handler[g].name /\ handler'[g].peer = handler[g].peer
        /\ handler'[g].now = handler[g].now
    BY <1>2, <2>1 DEF FindCredential, TypeOK, Logins
  <2> QED  BY <2>1, <2>2 DEF Settles
<1>3. CASE Succeed(g)
  <2>1. handler[g] \in Logins
    BY <1>3, LoginAt DEF Succeed
  <2>2. handler'[g].pc = "create"
    BY <1>3, <2>1 DEF Succeed, Goto, TypeOK, Logins
  <2> QED  BY <2>2 DEF Settles
<1>4. CASE FailLogin(g) \/ AbandonLogin(g) \/ CreateSession(g) \/ EndCall(g)
           \/ \E s \in Sessions : Revoke(g, s)
  <2>1. handler'[g] = Idle
    BY <1>4 DEF FailLogin, AbandonLogin, CreateSession, EndCall, Revoke, End, TypeOK
  <2> QED  BY <2>1, Kinds DEF Settles
<1>5. CASE \E s \in Sessions : BeginCall(g, s)
  <2>1. handler'[g].pc = "judge"
    BY <1>5 DEF BeginCall, TypeOK
  <2> QED  BY <2>1 DEF Settles, Logins
<1>6. CASE Judge(g)
  <2>1. handler[g] \in Calls
    BY <1>6, CallAt DEF Judge
  <2>2. handler'[g] = Idle \/ handler'[g].pc \in {"touch", "act"}
    BY <1>6, <2>1 DEF Judge, TypeOK, Calls
  <2>3. handler'[g] \notin Logins
    BY <2>2, Kinds DEF Logins
  <2> QED  BY <2>3 DEF Settles
<1>7. CASE UpdateLastSeen(g)
  <2>1. handler[g] \in Calls
    BY <1>7, CallAt DEF UpdateLastSeen
  <2>2. handler'[g] = Idle \/ handler'[g].pc = "act"
    BY <1>7, <2>1 DEF UpdateLastSeen, Goto, End, TypeOK, Calls
  <2>3. handler'[g] \notin Logins
    BY <2>2, Kinds DEF Logins
  <2> QED  BY <2>3 DEF Settles
<1>8. CASE Stop
  <2>1. handler'[g] = Idle
    BY <1>8 DEF Stop
  <2> QED  BY <2>1, Kinds DEF Settles
<1>9. ASSUME \/ Start \/ Tick \/ UNCHANGED vars
             \/ \E p \in Passwords : BootstrapOwner(p) \/ ResetCredentials(p)
      PROVE  handler' = handler
  BY <1>9 DEF Start, Tick, BootstrapOwner, ResetCredentials, vars
<1>10. handler'[g] = handler[g] => Settles(g)
  BY DEF Settles
<1>11. CASE Login(g) \/ Call(g)
  BY <1>2, <1>3, <1>4, <1>5, <1>6, <1>7, <1>11 DEF Login, Call
<1>12. ASSUME NEW h \in Handlers, Login(h) \/ Call(h)
       PROVE  h = g \/ Settles(g)
  BY <1>1, <1>10, <1>12
<1> QED  BY <1>8, <1>9, <1>10, <1>11, <1>12 DEF Next

\* No login becomes one of the late ones of a bucket that stays.
LEMMA LateShrinks ==
  ASSUME TypeOK, \A g \in Handlers : Settles(g)
  PROVE  /\ \A k \in Keys : accountEntries'[k] = accountEntries[k] =>
                              AccountLate(k)' \subseteq AccountLate(k)
         /\ \A p \in Peers : ipEntries'[p] = ipEntries[p] => PeerLate(p)' \subseteq PeerLate(p)
<1>1. ASSUME NEW k \in Keys, accountEntries'[k] = accountEntries[k]
      PROVE  AccountLate(k)' \subseteq AccountLate(k)
  BY <1>1 DEF Settles, AccountLate, Late, Pending, LoggingIn
<1>2. ASSUME NEW p \in Peers, ipEntries'[p] = ipEntries[p]
      PROVE  PeerLate(p)' \subseteq PeerLate(p)
  BY <1>2 DEF Settles, PeerLate, Late, PendingOf, LoggingIn
<1> QED  BY <1>1, <1>2

\* A login that begins is none of the late ones of a bucket at its limit: the
\* block would have stopped it.
LEMMA LateBegins ==
  ASSUME TypeOK, BlockInv, NEW h \in Handlers, NEW name \in Names, NEW peer \in Peers,
         NEW guess \in Passwords \cup {Malformed}, NEW now \in Recent,
         BeginLogin(h, name, peer, guess, now)
  PROVE  /\ \A k \in Keys : accountEntries'[k] = accountEntries[k]
                            /\ accountEntries[k].failures >= AccountFailureLimit =>
                              AccountLate(k)' \subseteq AccountLate(k)
         /\ \A p \in Peers : ipEntries'[p] = ipEntries[p]
                             /\ ipEntries[p].failures >= IPFailureLimit =>
                               PeerLate(p)' \subseteq PeerLate(p)
<1>1. \A g \in Handlers \ {h} : handler'[g] = handler[g]
  BY DEF BeginLogin, TypeOK
<1>2. \/ handler'[h] = handler[h]
      \/ /\ ~Blocked(name, peer, now) /\ handler'[h].name = name /\ handler'[h].peer = peer
         /\ handler'[h].now = now
  BY DEF BeginLogin, TypeOK
<1>3. now \in Nat /\ LoginFailureWindow \in Nat
  BY DEF Recent
<1>4. ASSUME NEW k \in Keys, accountEntries'[k] = accountEntries[k],
             accountEntries[k].failures >= AccountFailureLimit
      PROVE  AccountLate(k)' \subseteq AccountLate(k)
  <2>1. accountEntries[k].blockedUntil > accountEntries[k].windowStarted + LoginFailureWindow
    BY <1>4 DEF BlockInv, BlockOK
  <2>2. /\ k = <<k[1], k[2]>> /\ accountEntries[k].blockedUntil \in Nat
        /\ accountEntries[k].windowStarted \in Nat
    BY DEF Keys, TypeOK, LimiterTypeOK, Entries
  <2>3. ASSUME handler'[h] # handler[h], h \in AccountLate(k)'
        PROVE  FALSE
    <3>1. name = k[1] /\ peer = k[2] /\ now <= accountEntries[k].windowStarted + LoginFailureWindow
      BY <1>2, <1>4, <2>3 DEF AccountLate, Late, Pending
    <3>2. ~(now < accountEntries[k].blockedUntil)
      BY <1>2, <2>2, <2>3, <3>1 DEF Blocked
    <3> QED  BY <1>3, <2>1, <2>2, <3>1, <3>2
  <2> QED  BY <1>1, <1>4, <2>3 DEF AccountLate, Late, Pending, LoggingIn
<1>5. ASSUME NEW p \in Peers, ipEntries'[p] = ipEntries[p], ipEntries[p].failures >= IPFailureLimit
      PROVE  PeerLate(p)' \subseteq PeerLate(p)
  <2>1. ipEntries[p].blockedUntil > ipEntries[p].windowStarted + LoginFailureWindow
    BY <1>5 DEF BlockInv, BlockOK
  <2>2. ipEntries[p].blockedUntil \in Nat /\ ipEntries[p].windowStarted \in Nat
    BY DEF TypeOK, LimiterTypeOK, Entries
  <2>3. ASSUME handler'[h] # handler[h], h \in PeerLate(p)'
        PROVE  FALSE
    <3>1. peer = p /\ now <= ipEntries[p].windowStarted + LoginFailureWindow
      BY <1>2, <1>5, <2>3 DEF PeerLate, Late, PendingOf
    <3>2. ~(now < ipEntries[p].blockedUntil)
      BY <1>2, <2>3, <3>1 DEF Blocked
    <3> QED  BY <1>3, <2>1, <2>2, <3>1, <3>2
  <2> QED  BY <1>1, <1>5, <2>3 DEF PeerLate, Late, PendingOf, LoggingIn
<1> QED  BY <1>4, <1>5

LEMMA BlockStep ==
  TypeOK /\ HandlerInv /\ LimiterInv /\ BlockInv /\ [Next]_vars => BlockInv'
<1> SUFFICES ASSUME TypeOK, HandlerInv, LimiterInv, BlockInv, [Next]_vars
             PROVE  BlockInv'
  OBVIOUS
<1>1. /\ AccountFailureLimit \in Nat \ {0} /\ IPFailureLimit \in Nat \ {0}
      /\ \A k \in Keys : /\ accountEntries[k] \in Entries /\ EntryOK(accountEntries[k])
                         /\ BlockOK(accountEntries[k], AccountFailureLimit, AccountLate(k))
      /\ \A p \in Peers : /\ ipEntries[p] \in Entries /\ EntryOK(ipEntries[p])
                          /\ BlockOK(ipEntries[p], IPFailureLimit, PeerLate(p))
  BY DEF TypeOK, LimiterTypeOK, LimiterInv, BlockInv
<1>2. /\ \A k \in Keys : AccountLate(k) \subseteq Handlers /\ AccountLate(k)' \subseteq Handlers
      /\ \A p \in Peers : PeerLate(p) \subseteq Handlers /\ PeerLate(p)' \subseteq Handlers
  BY DEF AccountLate, PeerLate, Late, Pending, PendingOf, LoggingIn
<1>3. ASSUME NEW k \in Keys,
             \/ accountEntries'[k] = NoEntry
             \/ /\ accountEntries'[k] = accountEntries[k]
                /\ accountEntries[k].failures >= AccountFailureLimit =>
                     AccountLate(k)' \subseteq AccountLate(k)
      PROVE  BlockOK(accountEntries'[k], AccountFailureLimit, AccountLate(k)')
  BY <1>1, <1>2, <1>3, BlockKept
<1>4. ASSUME NEW p \in Peers,
             \/ ipEntries'[p] = NoEntry
             \/ /\ ipEntries'[p] = ipEntries[p]
                /\ ipEntries[p].failures >= IPFailureLimit => PeerLate(p)' \subseteq PeerLate(p)
      PROVE  BlockOK(ipEntries'[p], IPFailureLimit, PeerLate(p)')
  BY <1>1, <1>2, <1>4, BlockKept
<1>5. SUFFICES /\ \A k \in Keys : BlockOK(accountEntries'[k], AccountFailureLimit, AccountLate(k)')
               /\ \A p \in Peers : BlockOK(ipEntries'[p], IPFailureLimit, PeerLate(p)')
  BY DEF BlockInv, BlockOK
<1>6. CASE ~ \E h \in Handlers : FailLogin(h)
  <2>1. /\ \A k \in Keys : accountEntries'[k] \in {accountEntries[k], NoEntry}
        /\ \A p \in Peers : ipEntries'[p] \in {ipEntries[p], NoEntry}
    BY <1>6, NoFailure
  <2>2. CASE \A g \in Handlers : Settles(g)
    BY <1>3, <1>4, <2>1, <2>2, LateShrinks
  <2>3. CASE \E h \in Handlers, name \in Names, peer \in Peers,
                guess \in Passwords \cup {Malformed}, now \in Recent :
               BeginLogin(h, name, peer, guess, now)
    BY <1>3, <1>4, <2>1, <2>3, LateBegins
  <2> QED  BY <2>2, <2>3, StepSettles
<1>7. ASSUME NEW h \in Handlers, FailLogin(h)
      PROVE  /\ \A k \in Keys : BlockOK(accountEntries'[k], AccountFailureLimit, AccountLate(k)')
             /\ \A p \in Peers : BlockOK(ipEntries'[p], IPFailureLimit, PeerLate(p)')
  <2>1. PICK key, peer, now : /\ key = <<handler[h].name, handler[h].peer>>
                              /\ peer = handler[h].peer /\ now = handler[h].now
    OBVIOUS
  <2>2. /\ h \in Pending(key[1], key[2]) /\ h \in PendingOf(peer)
        /\ now \in Nat /\ now >= 1 /\ now <= clock /\ clock - now <= Delay
        /\ handler'[h] = Idle /\ \A g \in Handlers \ {h} : handler'[g] = handler[g]
    BY <1>7, <2>1, Failure DEF Pending, PendingOf
  <2>3. \A g \in Handlers : Settles(g)
    BY <2>2, Kinds DEF Settles
  <2>4. ASSUME NEW k \in Keys, k # key
        PROVE  BlockOK(accountEntries'[k], AccountFailureLimit, AccountLate(k)')
    <3>1. accountEntries'[k] \in {accountEntries[k], NoEntry}
      BY <1>7, <2>1, <2>4, FailureMaps
    <3> QED  BY <1>3, <2>3, <3>1, LateShrinks
  <2>5. ASSUME NEW p \in Peers, p # peer
        PROVE  BlockOK(ipEntries'[p], IPFailureLimit, PeerLate(p)')
    <3>1. ipEntries'[p] \in {ipEntries[p], NoEntry}
      BY <1>7, <2>1, <2>5, FailureMaps
    <3> QED  BY <1>4, <2>3, <3>1, LateShrinks
  <2>6. key \in Keys => BlockOK(accountEntries'[key], AccountFailureLimit, AccountLate(key)')
    <3>1. PICK c : c = Cleaned(accountEntries, now)[key]
      OBVIOUS
    <3>2. /\ key \in Keys /\ c \in {accountEntries[key], NoEntry}
          /\ accountEntries'[key] = Counted(c, now, AccountFailureLimit)
      BY <1>7, <2>1, <3>1, FailureMaps
    <3>3. /\ AccountLate(key)' \subseteq Handlers \ {h}
          /\ accountEntries'[key].windowStarted = accountEntries[key].windowStarted =>
               AccountLate(key)' \subseteq AccountLate(key) \ {h}
      BY <2>2, Kinds DEF AccountLate, Late, Pending, LoggingIn
    <3>4. now <= accountEntries[key].windowStarted + LoginFailureWindow => h \in AccountLate(key)
      BY <2>1, <2>2 DEF AccountLate, Late
    <3>5. /\ accountEntries[key] \in Entries /\ EntryOK(accountEntries[key])
          /\ BlockOK(accountEntries[key], AccountFailureLimit, AccountLate(key))
          /\ AccountLate(key) \subseteq Handlers
      BY <1>1, <1>2, <3>2
    <3>6. PICK e, f, L, M : /\ e = accountEntries[key] /\ f = accountEntries'[key]
                            /\ L = AccountLate(key) /\ M = AccountLate(key)'
      OBVIOUS
    <3>7. AccountFailureLimit \in Nat \ {0}
      BY <1>1
    <3>8. BlockOK(f, AccountFailureLimit, M)
      <4>1. /\ e \in Entries /\ EntryOK(e) /\ BlockOK(e, AccountFailureLimit, L)
            /\ c \in {e, NoEntry} /\ f = Counted(c, now, AccountFailureLimit)
        BY <3>2, <3>5, <3>6
      <4>2. /\ L \subseteq Handlers /\ M \subseteq Handlers \ {h}
            /\ now <= e.windowStarted + LoginFailureWindow => h \in L
            /\ f.windowStarted = e.windowStarted => M \subseteq L \ {h}
        BY <3>3, <3>4, <3>5, <3>6
      <4>3. /\ now \in Nat /\ now >= 1 /\ now <= clock /\ clock - now <= Delay
        BY <2>2
      <4> QED  BY <3>7, <4>1, <4>2, <4>3, BlockCounts
    <3> QED  BY <3>6, <3>8
  <2>7. peer \in Peers => BlockOK(ipEntries'[peer], IPFailureLimit, PeerLate(peer)')
    <3>1. PICK c : c = Cleaned(ipEntries, now)[peer]
      OBVIOUS
    <3>2. /\ peer \in Peers /\ c \in {ipEntries[peer], NoEntry}
          /\ ipEntries'[peer] = Counted(c, now, IPFailureLimit)
      BY <1>7, <2>1, <3>1, FailureMaps
    <3>3. /\ PeerLate(peer)' \subseteq Handlers \ {h}
          /\ ipEntries'[peer].windowStarted = ipEntries[peer].windowStarted =>
               PeerLate(peer)' \subseteq PeerLate(peer) \ {h}
      BY <2>2, Kinds DEF PeerLate, Late, PendingOf, LoggingIn
    <3>4. now <= ipEntries[peer].windowStarted + LoginFailureWindow => h \in PeerLate(peer)
      BY <2>1, <2>2 DEF PeerLate, Late
    <3> QED  BY <1>1, <1>2, <2>2, <3>2, <3>3, <3>4, BlockCounts
  <2> QED  BY <2>4, <2>5, <2>6, <2>7
<1> QED  BY <1>6, <1>7

LEMMA Inductive == Init => IInv
<1> SUFFICES ASSUME Init PROVE IInv
  OBVIOUS
<1>1. TypeOK /\ HandlerInv /\ RowInv
  BY InitTypes, AccessInit
<1>2. /\ \A k \in Keys : accountEntries[k] = NoEntry
      /\ \A p \in Peers : ipEntries[p] = NoEntry
  BY DEF Init, NewLimiter
<1>3. LimiterInv
  BY <1>1, <1>2, EntriesOK DEF LimiterInv
<1>4. BlockInv
  <2>1. {AccountFailureLimit, IPFailureLimit} \subseteq Nat \ {0}
    OBVIOUS
  <2> QED  BY <1>2, <2>1 DEF BlockInv, BlockOK, NoEntry
<1> QED  BY <1>1, <1>3, <1>4 DEF IInv

LEMMA Invariant == Spec => []IInv
<1>1. IInv /\ [Next]_vars => IInv'
  BY TypeStep, AccessStep, LimiterStep, BlockStep DEF IInv
<1> QED  BY Inductive, <1>1, PTL DEF Spec

\* Between the question to the limiter and the report to it, no more failures
\* slip through either bucket than there are handlers (limiter.go Check,
\* recordFailure).
THEOREM FailuresBounded == Spec => []FailuresAreBounded
<1>1. IInv => FailuresAreBounded
  <2> SUFFICES ASSUME IInv PROVE FailuresAreBounded
    OBVIOUS
  <2>1. ASSUME NEW limit \in Nat, NEW e \in Entries, NEW L, L \subseteq Handlers,
               BlockOK(e, limit, L)
        PROVE  e.failures < limit + Cardinality(Handlers)
    <3>1. e.failures \in Nat /\ Cardinality(L) \in Nat /\ Cardinality(Handlers) \in Nat
      BY <2>1, LateFinite DEF Entries
    <3>2. e.failures < limit => e.failures < limit + Cardinality(Handlers)
      BY <3>1
    <3>3. e.failures >= limit => e.failures < limit + Cardinality(Handlers)
      BY <2>1, <3>1 DEF BlockOK
    <3> QED  BY <3>1, <3>2, <3>3
  <2>2. ASSUME NEW k \in Keys
        PROVE  accountEntries[k].failures < AccountFailureLimit + Cardinality(Handlers)
    <3>1. accountEntries[k] \in Entries /\ BlockOK(accountEntries[k], AccountFailureLimit, AccountLate(k))
      BY DEF IInv, TypeOK, LimiterTypeOK, BlockInv
    <3> QED  BY <2>1, <3>1, LateFinite
  <2>3. ASSUME NEW p \in Peers
        PROVE  ipEntries[p].failures < IPFailureLimit + Cardinality(Handlers)
    <3>1. ipEntries[p] \in Entries /\ BlockOK(ipEntries[p], IPFailureLimit, PeerLate(p))
      BY DEF IInv, TypeOK, LimiterTypeOK, BlockInv
    <3> QED  BY <2>1, <3>1, LateFinite
  <2> QED  BY <2>2, <2>3 DEF FailuresAreBounded, Keys
<1> QED  BY <1>1, Invariant, PTL

\* A block keeps its end, but for the exceptions that BlocksLast lists
\* (limiter.go recordFailure, removeOne, Clear).
THEOREM BlocksKept == Spec => BlocksLast
<1> DEFINE Last ==
      serving /\ serving' =>
       /\ \A name \in Names, peer \in Peers :
            LET e == accountEntries[<<name, peer>>]
                end == accountEntries'[<<name, peer>>].blockedUntil
            IN InForce(e) /\ end < e.blockedUntil - Delay =>
                 \/ Evicted(<<name, peer>>, accountEntries, accountEntries')
                 \/ \E h \in Pending(name, peer) :
                      \/ handler'[h] # Idle /\ handler'[h].pc = "create"
                      \/ ResetsWindow(h, e)
       /\ \A peer \in Peers :
            LET e == ipEntries[peer]
                end == ipEntries'[peer].blockedUntil
            IN InForce(e) /\ end < e.blockedUntil - Delay =>
                 \/ Evicted(peer, ipEntries, ipEntries')
                 \/ \E h \in LoggingIn : handler[h].peer = peer /\ ResetsWindow(h, e)
<1>1. IInv /\ [Next]_vars => [Last]_vars
  <2> SUFFICES ASSUME IInv, Next, serving, serving' PROVE Last
    OBVIOUS
  <2> USE DEF limiterVars, accountVars
  <2>0. TypeOK /\ HandlerInv /\ LimiterInv
    BY DEF IInv
  <2>1. /\ clock \in Nat /\ Delay \in Nat
        /\ \A k \in Keys : accountEntries[k] \in Entries /\ accountEntries[k].blockedUntil \in Nat
        /\ \A p \in Peers : ipEntries[p] \in Entries /\ ipEntries[p].blockedUntil \in Nat
    BY <2>0 DEF TypeOK, LimiterTypeOK, Entries
  <2>2. ASSUME NEW e \in Entries, NEW h \in Handlers, EntryOK(e), InForce(e), h \in LoggingIn,
               handler'[h] = Idle, NEW limit \in Nat, NEW now \in Nat, now = handler[h].now,
               clock - now <= Delay,
               Counted(e, now, limit).blockedUntil < e.blockedUntil - Delay
        PROVE  ResetsWindow(h, e)
    <3>1. /\ e.windowStarted \in Nat /\ e.blockedUntil \in Nat /\ LoginBlockDuration \in Nat
          /\ LoginFailureWindow \in Nat
      BY DEF Entries
    <3>2. e # NoEntry
      BY <2>1, <2>2 DEF InForce, NoEntry
    <3>3. e.windowStarted >= 1 /\ e.blockedUntil <= clock + LoginBlockDuration
      BY <2>2, <3>2 DEF EntryOK
    <3>4. CASE now - e.windowStarted > LoginFailureWindow
      BY <2>2, <3>1, <3>4 DEF ResetsWindow
    <3>5. CASE ~(now - e.windowStarted > LoginFailureWindow)
      <4>1. ~(e.windowStarted = 0 \/ now - e.windowStarted > LoginFailureWindow)
        BY <3>1, <3>3, <3>5
      <4>2. Counted(e, now, limit).blockedUntil \in {now + LoginBlockDuration, e.blockedUntil}
        BY <4>1 DEF Counted
      <4> HIDE DEF Last
      <4> QED  BY <2>1, <2>2, <3>1, <3>3, <4>2
    <3> QED  BY <3>4, <3>5
  <2>3. ASSUME NEW h \in Handlers, FailLogin(h)
        PROVE  Last
    <3>1. PICK k, p, now : k = <<handler[h].name, handler[h].peer>>
                           /\ p = handler[h].peer /\ now = handler[h].now
      OBVIOUS
    <3>2. /\ h \in Pending(handler[h].name, handler[h].peer) /\ h \in LoggingIn
          /\ now \in Nat /\ now <= clock /\ clock - now <= Delay /\ handler'[h] = Idle
      BY <2>0, <2>3, <3>1, Failure DEF Pending
    <3>3. AccountFailureLimit \in Nat /\ IPFailureLimit \in Nat
      OBVIOUS
    <3>4. ASSUME NEW name \in Names, NEW peer \in Peers, NEW v, v = <<name, peer>>,
                 InForce(accountEntries[v]),
                 accountEntries'[v].blockedUntil < accountEntries[v].blockedUntil - Delay
          PROVE  \/ Evicted(v, accountEntries, accountEntries')
                 \/ \E r \in Pending(name, peer) : ResetsWindow(r, accountEntries[v])
      <4>1. v \in Keys /\ accountEntries[v].blockedUntil > now
        BY <2>1, <3>2, <3>4 DEF Keys, InForce
      <4>2. CASE v # k
        BY <2>0, <2>1, <2>3, <3>1, <3>4, <4>1, <4>2, FailureMaps
      <4>3. CASE v = k
        <5>1. PICK e : e = accountEntries[v]
          OBVIOUS
        <5>2. accountEntries'[v] = Counted(e, now, AccountFailureLimit)
          BY <2>0, <2>3, <3>1, <4>1, <4>3, <5>1, FailureMaps
        <5>3. e \in Entries /\ EntryOK(e) /\ InForce(e)
          BY <2>0, <2>1, <3>4, <4>1, <5>1 DEF LimiterInv
        <5>4. ResetsWindow(h, e)
          BY <2>2, <3>1, <3>2, <3>3, <3>4, <5>1, <5>2, <5>3
        <5>5. h \in Pending(name, peer)
          BY <3>1, <3>2, <3>4, <4>3
        <5> QED  BY <5>1, <5>4, <5>5
      <4> QED  BY <4>2, <4>3
    <3>5. ASSUME NEW v \in Peers, InForce(ipEntries[v]),
                 ipEntries'[v].blockedUntil < ipEntries[v].blockedUntil - Delay
          PROVE  \/ Evicted(v, ipEntries, ipEntries')
                 \/ \E r \in LoggingIn : handler[r].peer = v /\ ResetsWindow(r, ipEntries[v])
      <4>1. ipEntries[v].blockedUntil > now
        BY <2>1, <3>2, <3>5 DEF InForce
      <4>2. CASE v # p
        BY <2>0, <2>1, <2>3, <3>1, <3>5, <4>1, <4>2, FailureMaps
      <4>3. CASE v = p
        <5>1. PICK e : e = ipEntries[v]
          OBVIOUS
        <5>2. ipEntries'[v] = Counted(e, now, IPFailureLimit)
          BY <2>0, <2>3, <3>1, <4>1, <4>3, <5>1, FailureMaps
        <5>3. e \in Entries /\ EntryOK(e) /\ InForce(e)
          BY <2>0, <2>1, <3>5, <5>1 DEF LimiterInv
        <5>4. ResetsWindow(h, e)
          BY <2>2, <3>1, <3>2, <3>3, <3>5, <5>1, <5>2, <5>3
        <5> QED  BY <3>1, <3>2, <4>3, <5>1, <5>4
      <4> QED  BY <4>2, <4>3
    <3> QED  BY <3>4, <3>5
  <2>4. ASSUME NEW h \in Handlers, NEW name \in Names, NEW peer \in Peers,
               NEW guess \in Passwords \cup {Malformed}, NEW now \in Recent,
               BeginLogin(h, name, peer, guess, now)
        PROVE  Last
    <3>1. /\ accountEntries' = Cleaned(accountEntries, now)
          /\ ipEntries' = Cleaned(ipEntries, now) /\ now \in Nat /\ now <= clock
      BY <2>1, <2>4 DEF BeginLogin, Check, Recent
    <3>2. /\ \A k \in Keys : InForce(accountEntries[k]) => accountEntries'[k] = accountEntries[k]
          /\ \A p \in Peers : InForce(ipEntries[p]) => ipEntries'[p] = ipEntries[p]
      <4>1. /\ accountEntries \in [Keys -> Entries] /\ ipEntries \in [Peers -> Entries]
            /\ IsFiniteSet(Keys) /\ IsFiniteSet(Peers)
        BY <2>0, FiniteMaps DEF TypeOK, LimiterTypeOK
      <4>2. /\ \A k \in Keys : InForce(accountEntries[k]) => accountEntries[k].blockedUntil > now
            /\ \A p \in Peers : InForce(ipEntries[p]) => ipEntries[p].blockedUntil > now
        BY <2>1, <3>1 DEF InForce
      <4>3. \A k \in Keys : InForce(accountEntries[k]) => accountEntries'[k] = accountEntries[k]
        BY <3>1, <4>1, <4>2, CleanedMap
      <4>4. \A p \in Peers : InForce(ipEntries[p]) => ipEntries'[p] = ipEntries[p]
        BY <3>1, <4>1, <4>2, CleanedMap
      <4> QED  BY <4>3, <4>4
    <3> QED  BY <2>1, <3>2 DEF Keys
  <2>5. ASSUME NEW h \in Handlers, Succeed(h)
        PROVE  Last
    <3>1. /\ handler[h] \in Logins /\ h \in LoggingIn
          /\ handler[h].name \in Names /\ handler[h].peer \in Peers
      BY <2>0, <2>5, LoginAt DEF Succeed
    <3>2. /\ h \in Pending(handler[h].name, handler[h].peer)
          /\ handler'[h].pc = "create" /\ handler'[h] # Idle
      <4>1. handler'[h] = [handler[h] EXCEPT !.pc = "create"] /\ handler[h].pc = "verify"
        BY <2>0, <2>5 DEF Succeed, Goto, TypeOK, Running
      <4>2. handler'[h] \in Logins /\ handler'[h].pc = "create"
        BY <3>1, <4>1, Records DEF Logins
      <4> QED  BY <3>1, <4>1, <4>2, Kinds DEF Pending
    <3>3. /\ ipEntries' = ipEntries
          /\ \A k \in Keys : k # <<handler[h].name, handler[h].peer>> => accountEntries'[k] = accountEntries[k]
      BY <2>0, <2>5 DEF Succeed, Clear, TypeOK, LimiterTypeOK
    <3> QED  BY <2>1, <3>2, <3>3 DEF Keys
  <2>6. ASSUME UNCHANGED <<accountEntries, ipEntries>>
        PROVE  Last
    BY <2>1, <2>6 DEF Keys
  <2>7. ASSUME NEW h \in Handlers,
               \/ FindCredential(h) \/ AbandonLogin(h) \/ CreateSession(h)
               \/ \E s \in Sessions : BeginCall(h, s) \/ Revoke(h, s)
               \/ Judge(h) \/ UpdateLastSeen(h) \/ EndCall(h)
        PROVE  UNCHANGED <<accountEntries, ipEntries>>
    BY <2>7 DEF FindCredential, AbandonLogin, CreateSession, BeginCall, Judge, UpdateLastSeen,
       Revoke, EndCall
  <2>8. CASE Start \/ Stop \/ Tick \/ \E p \in Passwords : BootstrapOwner(p) \/ ResetCredentials(p)
    BY <2>6, <2>8 DEF Start, Stop, Tick, BootstrapOwner, ResetCredentials
  <2> HIDE DEF Last
  <2> QED  BY <2>3, <2>4, <2>5, <2>6, <2>7, <2>8 DEF Next, Login, Call
<1> QED  BY <1>1, Invariant, PTL DEF Spec, BlocksLast
=============================================================================
