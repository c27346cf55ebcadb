---------------------------- MODULE LoginLimiter ----------------------------
(***************************************************************************)
(* The in-memory login limiter (internal/auth/limiter.go): a bucket per    *)
(* username and peer and a looser one per peer.  Each action of this       *)
(* module is one critical section of its mutex; the time it works with is  *)
(* the one its caller read earlier.                                        *)
(*                                                                         *)
(* Time is a natural number; 0 is the zero time.Time.  The key a map does  *)
(* not hold has the zero entry, which no stored entry equals.              *)
(***************************************************************************)
EXTENDS Integers, FiniteSets

CONSTANTS
  Names,               \* usernames, the hashes of invalid ones included
  Peers,               \* remote addresses
  AccountFailureLimit, IPFailureLimit,
  LoginFailureWindow, LoginBlockDuration,
  CleanupInterval,     \* one minute
  MaxEntries           \* maxEntries, of each map

VARIABLES
  accountEntries,      \* a bucket per loginLimitKey
  ipEntries,           \* a bucket per remote address
  lastCleanup

limiterVars == <<accountEntries, ipEntries, lastCleanup>>

ASSUME LoginLimiterAssumption ==
  /\ {AccountFailureLimit, IPFailureLimit, MaxEntries} \subseteq Nat \ {0}
  /\ {LoginFailureWindow, LoginBlockDuration, CleanupInterval} \subseteq Nat
  /\ IsFiniteSet(Names) /\ IsFiniteSet(Peers)

Keys == Names \X Peers
NoEntry == [windowStarted |-> 0, blockedUntil |-> 0, lastSeen |-> 0, failures |-> 0]
Entries == [windowStarted : Nat, blockedUntil : Nat, lastSeen : Nat, failures : Nat]

Held(entries) == {k \in DOMAIN entries : entries[k] # NoEntry}

NewLimiter ==
  /\ accountEntries = [k \in Keys |-> NoEntry]
  /\ ipEntries = [p \in Peers |-> NoEntry]
  /\ lastCleanup = 0

ForgetLimiter ==
  /\ accountEntries' = [k \in Keys |-> NoEntry]
  /\ ipEntries' = [p \in Peers |-> NoEntry]
  /\ lastCleanup' = 0

-----------------------------------------------------------------------------

\* removeStale, when cleanupIfDue calls it.
Stale(e, now) ==
  /\ e.lastSeen < now - (LoginBlockDuration + LoginFailureWindow)
  /\ now >= e.blockedUntil

CleanupDue(now) == lastCleanup = 0 \/ now - lastCleanup >= CleanupInterval

Cleaned(entries, now) ==
  [k \in DOMAIN entries |->
     IF CleanupDue(now) /\ Stale(entries[k], now) THEN NoEntry ELSE entries[k]]

CleanupTime(now) == lastCleanup' = IF CleanupDue(now) THEN now ELSE lastCleanup

\* Mutant of Blocked: the bucket of the account is not asked.
BlockedPeer(name, peer, now) == now < ipEntries[peer].blockedUntil

Blocked(name, peer, now) ==
  \/ now < accountEntries[<<name, peer>>].blockedUntil
  \/ now < ipEntries[peer].blockedUntil

\* Check, whose verdict is Blocked.
Check(now) ==
  /\ accountEntries' = Cleaned(accountEntries, now)
  /\ ipEntries' = Cleaned(ipEntries, now)
  /\ CleanupTime(now)

\* recordFailure.
Counted(e, now, limit) ==
  LET fresh == e.windowStarted = 0 \/ now - e.windowStarted > LoginFailureWindow
      failures == IF fresh THEN 1 ELSE e.failures + 1
  IN [windowStarted |-> IF fresh THEN now ELSE e.windowStarted,
      failures |-> failures,
      lastSeen |-> now,
      blockedUntil |-> IF failures >= limit THEN now + LoginBlockDuration
                       ELSE IF fresh THEN 0 ELSE e.blockedUntil]

\* Mutant of WithRoomFor: the map grows.
WithoutEviction(k, entries) == {entries}

\* removeOne: room for a new key in a full map, at the cost of any other.
WithRoomFor(k, entries) ==
  IF entries[k] = NoEntry /\ Cardinality(Held(entries)) >= MaxEntries
  THEN {[entries EXCEPT ![v] = NoEntry] : v \in Held(entries)}
  ELSE {entries}

RecordFailure(name, peer, now) ==
  /\ \E a \in WithRoomFor(<<name, peer>>, Cleaned(accountEntries, now)) :
       accountEntries' = [a EXCEPT ![<<name, peer>>] = Counted(@, now, AccountFailureLimit)]
  /\ \E i \in WithRoomFor(peer, Cleaned(ipEntries, now)) :
       ipEntries' = [i EXCEPT ![peer] = Counted(@, now, IPFailureLimit)]
  /\ CleanupTime(now)

\* Mutant of Clear: the evidence against the peer is forgotten as well.
ClearBoth(name, peer) ==
  /\ accountEntries' = [accountEntries EXCEPT ![<<name, peer>>] = NoEntry]
  /\ ipEntries' = [ipEntries EXCEPT ![peer] = NoEntry]
  /\ UNCHANGED lastCleanup

Clear(name, peer) ==
  /\ accountEntries' = [accountEntries EXCEPT ![<<name, peer>>] = NoEntry]
  /\ UNCHANGED <<ipEntries, lastCleanup>>

-----------------------------------------------------------------------------

LimiterTypeOK ==
  /\ accountEntries \in [Keys -> Entries]
  /\ ipEntries \in [Peers -> Entries]
  /\ lastCleanup \in Nat
  /\ Cardinality(Held(accountEntries)) <= MaxEntries
  /\ Cardinality(Held(ipEntries)) <= MaxEntries
=============================================================================
