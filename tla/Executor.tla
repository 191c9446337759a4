------------------------------ MODULE Executor ------------------------------
(***************************************************************************)
(* Execute and ExecuteStream of executor.go, for any number of concurrent  *)
(* requests that share one Executor: admission under max_inflight, the     *)
(* failover loop over the key pool, the read of an error body, the read of *)
(* a 2xx response under the idle watchdog (collectNonStream, or the        *)
(* goroutine of streamLoop to which ExecuteStream hands its slot), and the *)
(* shared counter of consecutive timeouts.                                 *)
(*                                                                         *)
(* One step is one atomic access to shared state or one return from a      *)
(* blocking call.  What a 2xx response says is abstracted to the verdict   *)
(* it ends with (CCProtocol has the parsing); the consumer of a stream     *)
(* keeps reading here (StreamRelay has the one that does not).             *)
(***************************************************************************)
EXTENDS CCErrors, Sequences, FiniteSets

CONSTANTS
  Requests,        \* calls made by the host, each at most once
  StreamRequests,  \* the ones that call ExecuteStream
  Members,         \* APIKeyEntry values: a key with its proxy_url
  Pools,           \* what cfg.members(req) may return, as sequences of entries
  BadClients,      \* entries whose proxy_url clientFor cannot turn into a client
  MaxInflight,     \* cfg.MaxInflight; <= 0 means unlimited
  Statuses,        \* HTTP statuses the upstream may answer with
  Cancellable,     \* requests whose caller holds a cancellable context
  HintAfter,       \* 3 in timeoutMessage
  MaxChunks,       \* bound: chunks one response body may have
  ErrBodyLimit     \* chunks that make up the 1 MiB of readStreamErrorBody

ASSUME ConstantsAssumption ==
  /\ StreamRequests \subseteq Requests
  /\ IsFiniteSet(Requests)
  /\ Pools \subseteq Seq(Members)
  /\ MaxInflight \in Int
  /\ Statuses \subseteq Nat
  /\ HintAfter \in Nat \ {0}
  /\ MaxChunks \in Nat /\ ErrBodyLimit \in Nat

VARIABLES
  inflight,   \* Executor.inflight
  timeouts,   \* Executor.timeouts
  pc,         \* where each call is
  members,    \* the entries the call resolved; a key may occur twice
  pool,       \* positions in members still to be tried, in any order (pool.order)
  cur,        \* the position of the current iteration; 0 before the first
  status,     \* its answer, while the error body is read
  chunks,     \* chunks received of the current response
  fired,      \* timer.C is ready
  cancelled,  \* ctx.Err() # nil
  lastErr,    \* lastErr of the loop
  outcome,    \* what the caller, or the stream's consumer, ends up with
  attempts    \* history: the decisions of the failover loop, in order

vars == << inflight, timeouts, pc, members, pool, cur, status, chunks, fired,
           cancelled, lastErr, outcome, attempts >>

-----------------------------------------------------------------------------
Result(k, c) == [kind |-> k, code |-> c]
None         == Result("none", 0)

Kinds == {"none", "ok", "overloaded", "missingKey", "client", "dial", "status",
          "ctx", "plain", "hint", "readErr", "cc", "exhausted"}

Holding == {"resolve", "next", "init", "dial", "errbody", "collect",
            "streaming", "return"}
Phases  == Holding \cup {"idle", "rejecting", "done"}

\* The requests that own a slot, and the ones that have incremented the
\* counter only to find it above the limit and have not yet decremented it.
Holders   == {r \in Requests : pc[r] \in Holding}
Rejecting == {r \in Requests : pc[r] = "rejecting"}
Reading   == {"collect", "streaming"}

\* A decision of the loop that lets it go on to another member.
Retried(a) == a.kind \in {"client", "dial"} \/ (a.kind = "status" /\ retryable(a.code))

Attempt(r, k, c) ==
  [at |-> cur[r], kind |-> k, code |-> c, late |-> cancelled[r]]

Init ==
  /\ inflight  = 0
  /\ timeouts  = 0
  /\ pc        = [r \in Requests |-> "idle"]
  /\ members   = [r \in Requests |-> << >>]
  /\ pool      = [r \in Requests |-> {}]
  /\ cur       = [r \in Requests |-> 0]
  /\ status    = [r \in Requests |-> 0]
  /\ chunks    = [r \in Requests |-> 0]
  /\ fired     = [r \in Requests |-> FALSE]
  /\ cancelled = [r \in Requests |-> FALSE]
  /\ lastErr   = [r \in Requests |-> None]
  /\ outcome   = [r \in Requests |-> None]
  /\ attempts  = [r \in Requests |-> << >>]

-----------------------------------------------------------------------------
\* Admission: atomic Add(1), compared with the limit, undone by a second atomic Add(-1).

\* Mutant: the limit is compared with the value before the increment.
OverLimitBefore(n) == n - 1 > MaxInflight

\* Mutant: the last slot is never given out.
OverLimitEarly(n) == n >= MaxInflight

OverLimit(n) == n > MaxInflight

acquireInflight(r) ==
  /\ pc[r] = "idle"
  /\ IF MaxInflight <= 0
     THEN pc' = [pc EXCEPT ![r] = "resolve"] /\ UNCHANGED inflight
     ELSE /\ inflight' = inflight + 1
          /\ pc' = [pc EXCEPT ![r] = IF OverLimit(inflight + 1)
                                     THEN "rejecting" ELSE "resolve"]
  /\ UNCHANGED << timeouts, members, pool, cur, status, chunks, fired, cancelled,
                  lastErr, outcome, attempts >>

\* Mutant: the rejected call also runs the deferred release.
rejectInflightTwice(r) ==
  /\ pc[r] = "rejecting"
  /\ inflight' = inflight - 2
  /\ pc' = [pc EXCEPT ![r] = "done"]
  /\ outcome' = [outcome EXCEPT ![r] = Result("overloaded", 503)]
  /\ UNCHANGED << timeouts, members, pool, cur, status, chunks, fired, cancelled,
                  lastErr, attempts >>

rejectInflight(r) ==
  /\ pc[r] = "rejecting"
  /\ inflight' = inflight - 1
  /\ pc' = [pc EXCEPT ![r] = "done"]
  /\ outcome' = [outcome EXCEPT ![r] = Result("overloaded", 503)]
  /\ UNCHANGED << timeouts, members, pool, cur, status, chunks, fired, cancelled,
                  lastErr, attempts >>

\* Mutant: streamLoop does not release the slot it was handed.
releaseInflightCallOnly(r) ==
  /\ pc[r] = "return"
  /\ inflight' = IF MaxInflight > 0 /\ r \notin StreamRequests
                 THEN inflight - 1 ELSE inflight
  /\ pc' = [pc EXCEPT ![r] = "done"]
  /\ UNCHANGED << timeouts, members, pool, cur, status, chunks, fired, cancelled,
                  lastErr, outcome, attempts >>

\* The deferred release of Execute, of an ExecuteStream that fails before its
\* stream starts, and of the goroutine of streamLoop.
releaseInflight(r) ==
  /\ pc[r] = "return"
  /\ inflight' = IF MaxInflight > 0 THEN inflight - 1 ELSE inflight
  /\ pc' = [pc EXCEPT ![r] = "done"]
  /\ UNCHANGED << timeouts, members, pool, cur, status, chunks, fired, cancelled,
                  lastErr, outcome, attempts >>

-----------------------------------------------------------------------------
\* The failover loop.

Return(r, o) ==
  /\ pc' = [pc EXCEPT ![r] = "return"]
  /\ outcome' = [outcome EXCEPT ![r] = o]

\* cfg.members keeps the entries as they are listed: a key listed twice is two
\* entries, and is dialled once for each (config.go:306-334, 357-396).
resolveMembers(r) ==
  /\ pc[r] = "resolve"
  /\ \/ /\ << >> \in Pools
        /\ Return(r, Result("missingKey", 401))
        /\ UNCHANGED << members, pool >>
     \/ \E ms \in Pools \ {<< >>} :
          /\ members' = [members EXCEPT ![r] = ms]
          /\ pool' = [pool EXCEPT ![r] = DOMAIN ms]
          /\ pc' = [pc EXCEPT ![r] = "next"]
          /\ UNCHANGED outcome
  /\ UNCHANGED << inflight, timeouts, cur, status, chunks, fired, cancelled,
                  lastErr, attempts >>

\* Next index of pool.order: every weight is at least 1, so every permutation
\* is possible.  A client that cannot be built is recorded and skipped, with
\* no look at the context.
nextMember(r) ==
  /\ pc[r] = "next"
  /\ \E m \in pool[r] :
       /\ pool' = [pool EXCEPT ![r] = @ \ {m}]
       /\ cur' = [cur EXCEPT ![r] = m]
       /\ IF members[r][m] \in BadClients
          THEN /\ lastErr' = [lastErr EXCEPT ![r] = Result("client", 0)]
               /\ attempts' = [attempts EXCEPT ![r] =
                    Append(@, [at |-> m, kind |-> "client", code |-> 0,
                               late |-> cancelled[r]])]
               /\ UNCHANGED pc
          ELSE /\ pc' = [pc EXCEPT ![r] = "init"]
               /\ UNCHANGED << lastErr, attempts >>
  /\ UNCHANGED << inflight, timeouts, members, status, chunks, fired, cancelled, outcome >>

\* The loop runs out of members.
poolExhausted(r) ==
  /\ pc[r] = "next"
  /\ pool[r] = {}
  /\ Return(r, IF lastErr[r] # None THEN lastErr[r] ELSE Result("exhausted", 502))
  /\ UNCHANGED << inflight, timeouts, members, pool, cur, status, chunks, fired,
                  cancelled, lastErr, attempts >>

\* ensureInitialized returns whatever its two posts answered (SessionManager).
initialized(r) ==
  /\ pc[r] = "init"
  /\ pc' = [pc EXCEPT ![r] = "dial"]
  /\ UNCHANGED << inflight, timeouts, members, pool, cur, status, chunks, fired,
                  cancelled, lastErr, outcome, attempts >>

\* client.doStream fails.
dialFails(r) ==
  /\ pc[r] = "dial"
  /\ lastErr' = [lastErr EXCEPT ![r] = Result("dial", 0)]
  /\ attempts' = [attempts EXCEPT ![r] = Append(@, Attempt(r, "dial", 0))]
  /\ IF cancelled[r]
     THEN Return(r, Result("dial", 0))
     ELSE pc' = [pc EXCEPT ![r] = "next"] /\ UNCHANGED outcome
  /\ UNCHANGED << inflight, timeouts, members, pool, cur, status, chunks, fired, cancelled >>

\* client.doStream answers: a 2xx is collected, or handed with the slot to
\* the goroutine of streamLoop; any other status has its body read first.
dialAnswers(r) ==
  /\ pc[r] = "dial"
  /\ \E s \in Statuses :
       /\ status' = [status EXCEPT ![r] = s]
       /\ IF Success(s)
          THEN /\ pc' = [pc EXCEPT ![r] = IF r \in StreamRequests
                                          THEN "streaming" ELSE "collect"]
               /\ attempts' = [attempts EXCEPT ![r] = Append(@, Attempt(r, "status", s))]
          ELSE /\ pc' = [pc EXCEPT ![r] = "errbody"]
               /\ UNCHANGED attempts
  /\ chunks' = [chunks EXCEPT ![r] = 0]
  /\ UNCHANGED << inflight, timeouts, members, pool, cur, fired, cancelled, lastErr, outcome >>

-----------------------------------------------------------------------------
\* readStreamErrorBody, and what the loop does with the body.

\* Mutants: the loop forgets the context; a rejected or throttled key ends it.
ContinueAnyway(r)      == retryable(status[r])
ContinueServerError(r) == status[r] >= 500 /\ ~cancelled[r]

Continue(r) == retryable(status[r]) /\ ~cancelled[r]

bodyRead(r) ==
  LET e == Result("status", mappedCCStatus(status[r]))
  IN /\ lastErr' = [lastErr EXCEPT ![r] = e]
     /\ attempts' = [attempts EXCEPT ![r] = Append(@, Attempt(r, "status", status[r]))]
     /\ IF Continue(r)
        THEN pc' = [pc EXCEPT ![r] = "next"] /\ UNCHANGED outcome
        ELSE Return(r, e)

\* A payload; the one that reaches the limit ends the read.
errBodyChunk(r) ==
  /\ pc[r] = "errbody"
  /\ chunks[r] < MaxChunks
  /\ chunks' = [chunks EXCEPT ![r] = @ + 1]
  /\ IF chunks[r] + 1 >= ErrBodyLimit
     THEN bodyRead(r)
     ELSE UNCHANGED << lastErr, attempts, pc, outcome >>
  /\ UNCHANGED << inflight, timeouts, members, pool, cur, status, fired, cancelled >>

\* The upstream closes the body or breaks off.
errBodyEnds(r) ==
  /\ pc[r] = "errbody"
  /\ bodyRead(r)
  /\ UNCHANGED << inflight, timeouts, members, pool, cur, status, chunks, fired, cancelled >>

errBodyCancelled(r) ==
  /\ pc[r] = "errbody"
  /\ cancelled[r]
  /\ bodyRead(r)
  /\ UNCHANGED << inflight, timeouts, members, pool, cur, status, chunks, fired, cancelled >>

-----------------------------------------------------------------------------
\* The select of collectNonStream and of streamLoop.  timer.Reset also drops
\* an expiry that has not been received (Go 1.23 and later).

readChunk(r) ==
  /\ pc[r] \in Reading
  /\ chunks[r] < MaxChunks
  /\ chunks' = [chunks EXCEPT ![r] = @ + 1]
  /\ fired' = [fired EXCEPT ![r] = FALSE]
  /\ UNCHANGED << inflight, timeouts, pc, members, pool, cur, status, cancelled,
                  lastErr, outcome, attempts >>

readError(r) ==
  /\ pc[r] \in Reading
  /\ Return(r, Result("readErr", 502))
  /\ UNCHANGED << inflight, timeouts, members, pool, cur, status, chunks, fired,
                  cancelled, lastErr, attempts >>

\* Closed: an error event, which may report any status the upstream has, an
\* incomplete or an empty response, or success, which is what clears the shared
\* timeout counter.
readClosed(r) ==
  /\ pc[r] \in Reading
  /\ \/ \E code \in {429, 502} \cup {mappedCCStatus(s) : s \in Statuses} :
          Return(r, Result("cc", code)) /\ UNCHANGED timeouts
     \/ Return(r, Result("ok", 200)) /\ timeouts' = 0
  /\ UNCHANGED << inflight, members, pool, cur, status, chunks, fired, cancelled,
                  lastErr, attempts >>

readCancelled(r) ==
  /\ pc[r] \in Reading
  /\ cancelled[r]
  /\ Return(r, Result("ctx", 0))
  /\ UNCHANGED << inflight, timeouts, members, pool, cur, status, chunks, fired,
                  cancelled, lastErr, attempts >>

\* Mutant: the hint comes one timeout early.
TimeoutKindEarly(count) == IF count + 1 >= HintAfter THEN "hint" ELSE "plain"

TimeoutKind(count) == IF count >= HintAfter THEN "hint" ELSE "plain"

\* timeoutMessage under timeoutsMu.
timeoutMessage(r) ==
  /\ pc[r] \in Reading
  /\ fired[r]
  /\ timeouts' = timeouts + 1
  /\ Return(r, Result(TimeoutKind(timeouts + 1), 429))
  /\ UNCHANGED << inflight, members, pool, cur, status, chunks, fired, cancelled,
                  lastErr, attempts >>

\* Mutant: only the streaming read arms a watchdog.
WatchedStream == {"streaming"}

\* The waits that have an idle timer: executor.go:266 and executor.go:401.
Watched == {"collect", "streaming"}

timerFires(r) ==
  /\ pc[r] \in Watched
  /\ ~fired[r]
  /\ fired' = [fired EXCEPT ![r] = TRUE]
  /\ UNCHANGED << inflight, timeouts, pc, members, pool, cur, status, chunks,
                  cancelled, lastErr, outcome, attempts >>

\* The caller cancels the context it passed in.
cancel(r) ==
  /\ r \in Cancellable
  /\ pc[r] \in Holding \ {"return"}
  /\ ~cancelled[r]
  /\ cancelled' = [cancelled EXCEPT ![r] = TRUE]
  /\ UNCHANGED << inflight, timeouts, pc, members, pool, cur, status, chunks, fired,
                  lastErr, outcome, attempts >>

-----------------------------------------------------------------------------
\* Nothing is left to do.
Quiescent ==
  /\ \A r \in Requests : pc[r] = "done"
  /\ UNCHANGED vars

Step(r) ==
  \/ acquireInflight(r) \/ rejectInflight(r) \/ releaseInflight(r)
  \/ resolveMembers(r)  \/ nextMember(r)     \/ poolExhausted(r)
  \/ initialized(r)     \/ dialFails(r)      \/ dialAnswers(r)
  \/ errBodyChunk(r)    \/ errBodyEnds(r)    \/ errBodyCancelled(r)
  \/ readChunk(r)       \/ readError(r)      \/ readClosed(r)
  \/ readCancelled(r)   \/ timeoutMessage(r) \/ timerFires(r)
  \/ cancel(r)

Next == (\E r \in Requests : Step(r)) \/ Quiescent

Spec == Init /\ [][Next]_vars

\* What the code and the host guarantee: the goroutine of a call is scheduled, a
\* timer that is not reset fires, and a context that is done is noticed by the
\* selects that listen to it.  Nothing is assumed of the upstream: neither that a
\* post or a dial returns (the clients have no timeout, pool.go:198) nor that the
\* body of an error ends (readStreamErrorBody has no timer, executor.go:577).
PluginFairness(r) ==
  /\ WF_vars(rejectInflight(r))
  /\ WF_vars(releaseInflight(r))
  /\ WF_vars(resolveMembers(r))
  /\ WF_vars(nextMember(r))
  /\ WF_vars(poolExhausted(r))
  /\ WF_vars(timerFires(r))
  /\ WF_vars(timeoutMessage(r))
  /\ WF_vars(readCancelled(r))
  /\ WF_vars(errBodyCancelled(r))

FairSpec == Spec /\ \A r \in Requests : PluginFairness(r)

-----------------------------------------------------------------------------
AttemptType == [at : Nat, kind : {"client", "dial", "status"},
                code : Nat, late : BOOLEAN]
ResultType  == [kind : Kinds, code : Nat]

\* Every variable has its type.
TypeOK ==
  /\ inflight  \in Nat
  /\ timeouts  \in Nat
  /\ pc        \in [Requests -> Phases]
  /\ members   \in [Requests -> Seq(Members)]
  /\ pool      \in [Requests -> SUBSET Nat]
  /\ cur       \in [Requests -> Nat]
  /\ status    \in [Requests -> Nat]
  /\ chunks    \in [Requests -> 0..MaxChunks]
  /\ fired     \in [Requests -> BOOLEAN]
  /\ cancelled \in [Requests -> BOOLEAN]
  /\ lastErr   \in [Requests -> ResultType]
  /\ outcome   \in [Requests -> ResultType]
  /\ attempts  \in [Requests -> Seq(AttemptType)]

\* The counter is exactly the slots in use plus the increments about to be
\* undone: no return path of Execute, ExecuteStream or streamLoop leaks a slot
\* or gives one back twice, whoever owns it (executor.go:88-104, 210, 315-320, 397).
InflightExact ==
  IF MaxInflight > 0
  THEN inflight = Cardinality(Holders) + Cardinality(Rejecting)
  ELSE inflight = 0 /\ Rejecting = {}

\* max_inflight is never exceeded by the requests that are let in, although the
\* counter itself overshoots the limit while rejections are undone.
CapRespected == MaxInflight > 0 => Cardinality(Holders) <= MaxInflight

\* A request goes on to another entry only after a failure that retryable()
\* accepts, and never after its context was cancelled during the failed attempt
\* (executor.go:235-249, 346-358).
FailoverOrder ==
  \A r \in Requests :
    LET a == attempts[r]
    IN \A i \in 1 .. Len(a) - 1 : Retried(a[i]) /\ (a[i].kind # "client" => ~a[i].late)

\* Every entry of the call's list has been tried.
Tried(r)    == {attempts[r][i].at : i \in 1 .. Len(attempts[r])}
AllTried(r) == DOMAIN members[r] \subseteq Tried(r)

\* What the caller is told is the last attempt's own failure, and a retryable
\* failure is only reported once every entry was tried or the caller has gone;
\* the "all pool members failed" fallback (executor.go:260, 372) is dead code.
FailoverComplete ==
  \A r \in Requests :
    LET last == attempts[r][Len(attempts[r])]
        k == outcome[r].kind
    IN /\ k # "exhausted"
       /\ k \in {"client", "dial"} => last.kind = k /\ (AllTried(r) \/ last.late)
       /\ k = "status" => /\ last.kind = "status" /\ ~Success(last.code)
                          /\ outcome[r].code = mappedCCStatus(last.code)
                          /\ retryable(last.code) => AllTried(r) \/ last.late
       /\ k \in {"ok", "cc", "readErr", "plain", "hint", "ctx"} =>
            last.kind = "status" /\ Success(last.code)

TimedOut  == {r \in Requests : outcome[r].kind \in {"plain", "hint"}}
Succeeded == {r \in Requests : outcome[r].kind = "ok"}

\* The "reduce the request" hint is only given after HintAfter requests have
\* really timed out, and the shared counter loses none of them as long as no
\* request succeeded (executor.go:106-121).
TimeoutsCounted ==
  /\ timeouts <= Cardinality(TimedOut)
  /\ Succeeded = {} => timeouts = Cardinality(TimedOut)
  /\ (\E r \in Requests : outcome[r].kind = "hint") => Cardinality(TimedOut) >= HintAfter

\* Admission is what max_inflight promises to concurrent callers: Executor
\* implements it, with the slots in use as the places, the increments about to be
\* undone as the calls in the door, and what the caller is told as the answer.
Gate == INSTANCE Admission WITH
  Calls <- Requests, Cap <- MaxInflight, Answers <- ResultType, NoAnswer <- None,
  Busy <- Result("overloaded", 503),
  inside <- Holders, turned <- Rejecting, answer <- outcome

\* The executor behaves like that room: a call is turned away only while Cap others
\* are inside or in the door, leaves once, after it was answered, and is answered
\* once, with the rejection only if it was turned away (executor.go:88-104, 207-217).
ImplementsAdmission == Gate!Spec

\* A wait inside a body ends, and its slot is free again: a 2xx response whose
\* upstream falls silent is ended by the watchdog (executor.go:266, 401), and the
\* read of an error body by its caller's leaving, the only end to it that the plugin
\* itself provides (executor.go:577).
ReadsEnd ==
  \A r \in Requests :
    (pc[r] \in Reading \/ (pc[r] = "errbody" /\ cancelled[r])) ~> pc[r] = "done"

=============================================================================
