--------------------------- MODULE SessionManager ---------------------------
(***************************************************************************)
(* sessionManager (session.go): one session per API key, kept for 12 to 13 *)
(* hours, and one initialisation (fingerprint and lifecycle posts) per key *)
(* every 8 to 10 hours, shared by concurrent requests.                     *)
(*                                                                         *)
(* stateForKey, markInitialized and ensureSession are critical sections    *)
(* under one mutex; the two posts of ensureInitialized happen between the  *)
(* first two without it.  Time is a bounded counter; an eviction removes   *)
(* the sessions that expired, and the key states with them.                *)
(***************************************************************************)
EXTENDS Integers, FiniteSets

CONSTANTS
  Procs,        \* concurrent requests
  Keys,         \* API keys
  SessionCap,   \* 1024: above it ensureSession evicts
  SessionMin, SessionJitter,   \* sessionDuration, sessionJitter
  InitMin, InitJitter,         \* initRefresh, initJitter
  MaxTime       \* bound on the clock

ASSUME SessionAssumption ==
  /\ IsFiniteSet(Keys)
  /\ SessionCap \in Nat
  /\ SessionMin \in Nat \ {0} /\ SessionJitter \in Nat \ {0}
  /\ InitMin \in Nat \ {0} /\ InitJitter \in Nat \ {0}
  /\ MaxTime \in Nat

VARIABLES
  now,        \* time.Now
  sessions,   \* the map: the keys that have an entry, and the entries
  keyState,
  pc, key,    \* each request, and the key it works with
  seen,       \* the fingerprint of the keyInitState a request copied
  posted,     \* history: <<key, fingerprint>> sent to the upstream
  inited,     \* history: when a key was last marked, or -1
  robbed      \* history: keys evicted while an initialisation of them was in flight

sessionVars == << now, sessions, keyState, pc, key, seen, posted, inited, robbed >>

-----------------------------------------------------------------------------
\* generateFingerprint depends on the key and the configuration only, so a key has
\* one fingerprint; a keyInitState that was never filled in has a nil map.
Device == "device"
Nil    == "null"

NoSession == [created |-> -1, expiresAt |-> -1]
NoState   == [fingerprint |-> Nil, nextInitAt |-> -1]

HasSession == {k \in Keys : sessions[k] # NoSession}
HasState   == {k \in Keys : keyState[k] # NoState}

\* A request that is not running works with no key.
NoKey == "no key"

\* The keys whose initialisation has begun and is not over.
InFlight == {key[p] : p \in {q \in Procs : pc[q] \in {"post", "posted"}}}

SessionInit ==
  /\ now = 0
  /\ sessions = [k \in Keys |-> NoSession]
  /\ keyState = [k \in Keys |-> NoState]
  /\ pc = [p \in Procs |-> "idle"]
  /\ key = [p \in Procs |-> NoKey]
  /\ seen = [p \in Procs |-> Nil]
  /\ posted = {}
  /\ inited = [k \in Keys |-> -1]
  /\ robbed = {}

\* ensureInitialized begins: stateForKey creates the state of a new key, and the
\* initialisation is skipped while the last one is fresh.
stateForKey(p, k) ==
  /\ pc[p] = "idle"
  /\ key' = [key EXCEPT ![p] = k]
  /\ LET state == IF k \in HasState THEN keyState[k]
                  ELSE [fingerprint |-> Device, nextInitAt |-> 0]
     IN /\ keyState' = [keyState EXCEPT ![k] = state]
        /\ seen' = [seen EXCEPT ![p] = state.fingerprint]
        /\ pc' = [pc EXCEPT ![p] = IF now < state.nextInitAt THEN "session" ELSE "post"]
  /\ UNCHANGED << now, sessions, posted, inited, robbed >>

\* The two posts, in parallel, results ignored.
post(p) ==
  /\ pc[p] = "post"
  /\ posted' = posted \cup {<<key[p], seen[p]>>}
  /\ pc' = [pc EXCEPT ![p] = "posted"]
  /\ UNCHANGED << now, sessions, keyState, key, seen, inited, robbed >>

\* Mutant: the state is written back without the fingerprint it held.
MarkedBlank(state, next) == [fingerprint |-> Nil, nextInitAt |-> next]

\* A missing entry reads as the zero value, so its fingerprint is nil.
Marked(state, next) == [state EXCEPT !.nextInitAt = next]

\* The posts are over and the context is alive.
markInitialized(p) ==
  /\ pc[p] = "posted"
  /\ \E j \in 0 .. InitJitter - 1 :
       keyState' = [keyState EXCEPT ![key[p]] = Marked(@, now + InitMin + j)]
  /\ inited' = [inited EXCEPT ![key[p]] = now]
  /\ pc' = [pc EXCEPT ![p] = "session"]
  /\ UNCHANGED << now, sessions, key, seen, posted, robbed >>

\* Mutant: a cancelled initialisation counts as one.
leaveMarked(p) ==
  /\ pc[p] = "posted"
  /\ keyState' = [keyState EXCEPT ![key[p]] = Marked(@, now + InitMin)]
  /\ pc' = [pc EXCEPT ![p] = "session"]
  /\ UNCHANGED << now, sessions, key, seen, posted, inited, robbed >>

\* The posts are over and the request was cancelled meanwhile.
leaveUnmarked(p) ==
  /\ pc[p] = "posted"
  /\ pc' = [pc EXCEPT ![p] = "session"]
  /\ UNCHANGED << now, sessions, keyState, key, seen, posted, inited, robbed >>

\* sessionFor has its answer: the request is over as far as this component goes.
Leave(p) ==
  /\ pc' = [pc EXCEPT ![p] = "idle"]
  /\ key' = [key EXCEPT ![p] = NoKey]
  /\ seen' = [seen EXCEPT ![p] = Nil]

\* sessionFor returns an identifier the client supplied.
clientSession(p) ==
  /\ pc[p] = "session"
  /\ Leave(p)
  /\ UNCHANGED << now, sessions, keyState, posted, inited, robbed >>

\* Mutant: eviction drops every session, expired or not.
EvictedAll == IF Cardinality(HasSession) > SessionCap THEN HasSession ELSE {}

\* The keys an eviction removes.
Evicted ==
  IF Cardinality(HasSession) > SessionCap
  THEN {k \in HasSession : now > sessions[k].expiresAt} ELSE {}

\* Mutant: the jitter replaces the duration instead of extending it.
LifetimeJitter(j) == j

Lifetime(j) == SessionMin + j

Live(entry) == now < entry.expiresAt

ensureSession(p) ==
  LET k == key[p]
      kept == [q \in Keys |-> IF q \in Evicted THEN NoSession ELSE sessions[q]]
  IN /\ pc[p] = "session"
     /\ keyState' = [q \in Keys |-> IF q \in Evicted THEN NoState ELSE keyState[q]]
     /\ \/ /\ kept[k] # NoSession /\ Live(kept[k])
           /\ sessions' = kept
        \/ /\ ~(kept[k] # NoSession /\ Live(kept[k]))
           /\ \E j \in 0 .. SessionJitter - 1 :
                sessions' = [kept EXCEPT ![k] =
                               [created |-> now, expiresAt |-> now + Lifetime(j)]]
     /\ robbed' = robbed \cup (Evicted \cap InFlight)
     /\ Leave(p)
     /\ UNCHANGED << now, posted, inited >>

tick ==
  /\ now < MaxTime
  /\ now' = now + 1
  /\ UNCHANGED << sessions, keyState, pc, key, seen, posted, inited, robbed >>

Request(p) ==
  \/ \E k \in Keys : stateForKey(p, k)
  \/ post(p) \/ markInitialized(p) \/ leaveUnmarked(p)
  \/ clientSession(p) \/ ensureSession(p)

SessionNext == tick \/ \E p \in Procs : Request(p)

SessionSpec == SessionInit /\ [][SessionNext]_sessionVars

-----------------------------------------------------------------------------
SessionType == [created : Nat, expiresAt : Nat] \cup {NoSession}
StateType   == [fingerprint : {Device, Nil}, nextInitAt : Nat] \cup {NoState}

\* Every variable has its type, and a session lives 12 to 13 hours.
TypeOK ==
  /\ now \in Nat
  /\ sessions \in [Keys -> SessionType]
  /\ \A k \in HasSession : sessions[k].expiresAt - sessions[k].created
                             \in SessionMin .. SessionMin + SessionJitter
  /\ keyState \in [Keys -> StateType]
  /\ pc \in [Procs -> {"idle", "post", "posted", "session"}]
  /\ key \in [Procs -> Keys \cup {NoKey}]
  /\ \A p \in Procs : pc[p] # "idle" => key[p] \in Keys
  /\ seen \in [Procs -> {Device, Nil}]
  /\ posted \subseteq Keys \X {Device, Nil}
  /\ inited \in [Keys -> Nat \cup {-1}]
  /\ robbed \subseteq Keys

\* README.md:86: "one API key always reports one device".  Violated by an eviction
\* during an initialisation.
DeviceStable == \A k \in Keys : <<k, Nil>> \notin posted

\* A key reports one device, the fingerprint sent for it is its own, unless its state
\* was evicted during an initialisation of that key: no other interleaving of
\* evictions and initialisations, of this key or of others, does any harm
\* (session.go:80-87, 103-125).
DeviceUnlessRobbed == \A k \in Keys \ robbed : <<k, Nil>> \notin posted

\* The session of a key does not change before it expires, whoever evicts.
SessionSticky ==
  [][\A k \in Keys : sessions[k] # NoSession /\ sessions'[k] # sessions[k]
                       => now >= sessions[k].expiresAt]_sessionVars

\* A request that leaves ensureInitialized without being cancelled works with a key
\* that was initialised at most InitMin + InitJitter ago, by whichever request.
InitFresh ==
  [][\A p \in Procs :
       pc[p] \in {"idle", "posted"} /\ pc'[p] = "session"
         /\ keyState'[key'[p]].nextInitAt > now =>
       inited'[key'[p]] >= 0 /\ now < inited'[key'[p]] + InitMin + InitJitter]_sessionVars

=============================================================================
