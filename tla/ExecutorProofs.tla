--------------------------- MODULE ExecutorProofs ---------------------------
(***************************************************************************)
(* Proofs about Executor, for any finite set of requests, any pools and    *)
(* any max_inflight.                                                       *)
(*                                                                         *)
(* The counter is a sum of two cardinalities, so every step is classified  *)
(* by what it does to the set of slot owners and to the set of calls about *)
(* to undo their increment; TypeOK (inflight is never negative) and        *)
(* CapRespected both rest on InflightExact.                                *)
(*                                                                         *)
(* The failover loop and the timeout counter rest on an invariant about    *)
(* each call alone (CallInv): no call touches another's locals             *)
(* (OthersKeep).  Executor implements Admission.                           *)
(***************************************************************************)
EXTENDS Executor, FiniteSetTheorems, TLAPS

\* The types that do not depend on the counting argument.
Types ==
  /\ inflight  \in Int
  /\ timeouts  \in Nat
  /\ pc        \in [Requests -> Phases]
  /\ members   \in [Requests -> Seq(Members)]
  /\ pool      \in [Requests -> SUBSET Nat]
  /\ cur       \in [Requests -> Nat]
  /\ status    \in [Requests -> Nat]
  /\ chunks    \in [Requests -> 0..MaxChunks]
  /\ fired     \in [Requests -> BOOLEAN]
  /\ cancelled \in [Requests -> BOOLEAN]
  /\ lastErr   \in [Requests -> ResultType]
  /\ outcome   \in [Requests -> ResultType]
  /\ attempts  \in [Requests -> Seq(AttemptType)]

IInv == Types /\ InflightExact /\ CapRespected

-----------------------------------------------------------------------------
\* mappedCCStatus always yields an HTTP status, whatever the upstream answered.
LEMMA MappedStatusType ==
  ASSUME NEW s \in Nat PROVE mappedCCStatus(s) \in Nat
<1> DEFINE D == {400, 401, 402, 403, 404, 422, 429, 500, 502, 503}
<1>1. CASE s \in D
  <2>1. DOMAIN ccStatusMap = D BY DEF ccStatusMap
  <2>2. ccStatusMap[s] \in Nat BY <1>1 DEF ccStatusMap
  <2> QED BY <2>1, <2>2, <1>1 DEF mappedCCStatus
<1>2. CASE s \notin D
  BY <1>2 DEF mappedCCStatus, ccStatusMap
<1> QED BY <1>1, <1>2

\* A result built from one of the kinds is a result.
LEMMA ResultIsResult ==
  ASSUME NEW k \in Kinds, NEW c \in Nat PROVE Result(k, c) \in ResultType
BY DEF Result, ResultType

\* The initial states satisfy the types.
LEMMA InitTypes == Init => Types
<1> SUFFICES ASSUME Init PROVE Types OBVIOUS
<1> USE ConstantsAssumption DEF Init
<1>1. None \in ResultType BY ResultIsResult DEF None, Kinds
<1>2. << >> \in Seq(AttemptType) OBVIOUS
<1>3. "idle" \in Phases BY DEF Phases
<1>4. << >> \in Seq(Members) OBVIOUS
<1> QED BY <1>1, <1>2, <1>3, <1>4 DEF Types

\* Recording a decision about the entry at hand keeps the history well typed.
LEMMA AttemptIsAttempt ==
  ASSUME Types, NEW r \in Requests,
         NEW k \in {"client", "dial", "status"}, NEW c \in Nat
  PROVE  Append(attempts[r], Attempt(r, k, c)) \in Seq(AttemptType)
<1>1. Attempt(r, k, c) \in AttemptType BY DEF Types, Attempt, AttemptType
<1>2. attempts[r] \in Seq(AttemptType) BY DEF Types
<1> QED BY <1>1, <1>2

\* The end of an error body keeps the types.
LEMMA BodyReadTypes ==
  ASSUME Types, NEW r \in Requests, pc[r] = "errbody", bodyRead(r)
  PROVE  /\ pc' \in [Requests -> Phases]
         /\ lastErr' \in [Requests -> ResultType]
         /\ outcome' \in [Requests -> ResultType]
         /\ attempts' \in [Requests -> Seq(AttemptType)]
         /\ \A q \in Requests : pc'[q] # pc[q] => pc'[q] \in {"next", "return"}
<1> DEFINE e == Result("status", mappedCCStatus(status[r]))
<1>1. e \in ResultType
  <2>1. status[r] \in Nat BY DEF Types
  <2>2. "status" \in Kinds BY DEF Kinds
  <2> QED BY <2>1, <2>2, MappedStatusType, ResultIsResult
<1>2. Append(attempts[r], Attempt(r, "status", status[r])) \in Seq(AttemptType)
  <2>1. status[r] \in Nat BY DEF Types
  <2> QED BY <2>1, AttemptIsAttempt
<1>3. {"next", "return"} \subseteq Phases BY DEF Phases, Holding
<1> HIDE DEF e
<1>4. /\ lastErr' = [lastErr EXCEPT ![r] = e]
      /\ attempts' = [attempts EXCEPT ![r] = Append(@, Attempt(r, "status", status[r]))]
      /\ \/ pc' = [pc EXCEPT ![r] = "next"] /\ outcome' = outcome
         \/ pc' = [pc EXCEPT ![r] = "return"] /\ outcome' = [outcome EXCEPT ![r] = e]
  BY DEF bodyRead, Return, e
<1> QED BY <1>1, <1>2, <1>3, <1>4 DEF Types

\* Every step of the executor keeps the types.
LEMMA NextTypes == Types /\ [Next]_vars => Types'
<1> SUFFICES ASSUME Types, [Next]_vars PROVE Types'
  OBVIOUS
<1>k. /\ \A k \in Kinds, c \in Nat : Result(k, c) \in ResultType
      /\ {"ok", "overloaded", "missingKey", "client", "dial", "ctx", "plain", "hint",
          "readErr", "cc", "exhausted"} \subseteq Kinds
      /\ Holding \subseteq Phases
      /\ {"rejecting", "done"} \subseteq Phases
      /\ {"resolve", "next", "init", "dial", "errbody", "collect",
          "streaming", "return"} \subseteq Holding
  BY ResultIsResult DEF Kinds, Phases, Holding
<1>c. MaxInflight \in Int /\ Statuses \subseteq Nat /\ Pools \subseteq Seq(Members)
      /\ MaxChunks \in Nat /\ HintAfter \in Nat
  BY ConstantsAssumption
<1>p. {"resolve", "next", "init", "dial", "errbody", "collect", "streaming", "return",
       "rejecting", "done"} \subseteq Phases
  BY DEF Phases, Holding
<1>1. ASSUME NEW r \in Requests, acquireInflight(r) PROVE Types'
  <2>1. \/ inflight' = inflight /\ pc' = [pc EXCEPT ![r] = "resolve"]
        \/ inflight' = inflight + 1 /\ pc' = [pc EXCEPT ![r] = "rejecting"]
        \/ inflight' = inflight + 1 /\ pc' = [pc EXCEPT ![r] = "resolve"]
    BY <1>1 DEF acquireInflight
  <2>2. UNCHANGED << timeouts, members, pool, cur, status, chunks, fired, cancelled,
                     lastErr, outcome, attempts >>
    BY <1>1 DEF acquireInflight
  <2>a. pc' \in [Requests -> Phases] BY <1>p, <2>1 DEF Types
  <2>b. inflight' \in Int BY <2>1 DEF Types
  <2> QED BY <2>a, <2>b, <2>2 DEF Types
<1>2. ASSUME NEW r \in Requests, rejectInflight(r) PROVE Types'
  BY <1>2, <1>k, <1>c DEF rejectInflight, Types
<1>3. ASSUME NEW r \in Requests, releaseInflight(r) PROVE Types'
  BY <1>3, <1>k, <1>c DEF releaseInflight, Types
<1>4. ASSUME NEW r \in Requests, resolveMembers(r) PROVE Types'
  <2>1. \/ /\ pc' = [pc EXCEPT ![r] = "return"] /\ pool' = pool /\ members' = members
           /\ outcome' = [outcome EXCEPT ![r] = Result("missingKey", 401)]
        \/ /\ pc' = [pc EXCEPT ![r] = "next"] /\ outcome' = outcome
           /\ \E ms \in Seq(Members) : /\ members' = [members EXCEPT ![r] = ms]
                                      /\ pool' = [pool EXCEPT ![r] = DOMAIN ms]
    BY <1>4, <1>c DEF resolveMembers, Return
  <2>d. \A ms \in Seq(Members) : DOMAIN ms \in SUBSET Nat OBVIOUS
  <2>2. pool' \in [Requests -> SUBSET Nat] /\ members' \in [Requests -> Seq(Members)]
    BY <2>1, <2>d DEF Types
  <2>3. Result("missingKey", 401) \in ResultType BY <1>k
  <2>4. UNCHANGED << inflight, timeouts, cur, status, chunks, fired, cancelled,
                     lastErr, attempts >>
    BY <1>4 DEF resolveMembers
  <2>c. pc' = [pc EXCEPT ![r] = "return"] \/ pc' = [pc EXCEPT ![r] = "next"]
    BY <2>1
  <2>a. pc' \in [Requests -> Phases] BY <1>p, <2>c DEF Types
  <2>o. outcome' = outcome \/ outcome' = [outcome EXCEPT ![r] = Result("missingKey", 401)]
    BY <2>1
  <2>b. outcome' \in [Requests -> ResultType] BY <2>o, <2>3 DEF Types
  <2> QED BY <2>a, <2>b, <2>2, <2>4 DEF Types
<1>5. ASSUME NEW r \in Requests, nextMember(r) PROVE Types'
  <2>1. PICK m \in pool[r] : nextMember(r)!2!(m)
    BY <1>5 DEF nextMember
  <2>2. m \in Nat BY DEF Types
  <2> DEFINE a == [at |-> m, kind |-> "client", code |-> 0, late |-> cancelled[r]]
  <2>3. a \in AttemptType
    <3>1. cancelled[r] \in BOOLEAN BY DEF Types
    <3> QED BY <2>2, <3>1 DEF AttemptType
  <2>4. attempts[r] \in Seq(AttemptType) BY DEF Types
  <2>5. Append(attempts[r], a) \in Seq(AttemptType) BY <2>3, <2>4
  <2>6. /\ pool' = [pool EXCEPT ![r] = @ \ {m}]
        /\ cur' = [cur EXCEPT ![r] = m]
        /\ \/ /\ pc' = pc
              /\ lastErr' = [lastErr EXCEPT ![r] = Result("client", 0)]
              /\ attempts' = [attempts EXCEPT ![r] = Append(@, a)]
           \/ /\ pc' = [pc EXCEPT ![r] = "init"]
              /\ lastErr' = lastErr /\ attempts' = attempts
    BY <2>1
  <2> HIDE DEF a
  <2>7. Result("client", 0) \in ResultType BY <1>k
  <2>8. UNCHANGED << inflight, timeouts, members, status, chunks, fired, cancelled, outcome >>
    BY <1>5 DEF nextMember
  <2> QED BY <1>k, <2>2, <2>5, <2>6, <2>7, <2>8 DEF Types
<1>6. ASSUME NEW r \in Requests, poolExhausted(r) PROVE Types'
  BY <1>6, <1>k, <1>c DEF poolExhausted, Return, Types
<1>7. ASSUME NEW r \in Requests, initialized(r) PROVE Types'
  BY <1>7, <1>k, <1>c DEF initialized, Types
<1>8. ASSUME NEW r \in Requests, dialFails(r) PROVE Types'
  <2>1. Append(attempts[r], Attempt(r, "dial", 0)) \in Seq(AttemptType)
    BY <1>8, AttemptIsAttempt DEF dialFails
  <2>2. Result("dial", 0) \in ResultType BY <1>k
  <2>3. \/ pc' = [pc EXCEPT ![r] = "next"] /\ outcome' = outcome
        \/ /\ pc' = [pc EXCEPT ![r] = "return"]
           /\ outcome' = [outcome EXCEPT ![r] = Result("dial", 0)]
    BY <1>8 DEF dialFails, Return
  <2> QED BY <1>8, <1>k, <2>1, <2>2, <2>3 DEF dialFails, Types
<1>9. ASSUME NEW r \in Requests, dialAnswers(r) PROVE Types'
  <2>1. \A s \in Nat : Append(attempts[r], Attempt(r, "status", s)) \in Seq(AttemptType)
    BY <1>9, AttemptIsAttempt DEF dialAnswers
  <2>3. PICK s \in Nat :
          /\ status' = [status EXCEPT ![r] = s]
          /\ \/ /\ \E p \in Reading : pc' = [pc EXCEPT ![r] = p]
                /\ attempts' = [attempts EXCEPT ![r] = Append(@, Attempt(r, "status", s))]
             \/ pc' = [pc EXCEPT ![r] = "errbody"] /\ attempts' = attempts
    BY <1>9, <1>c DEF dialAnswers, Reading
  <2>4. attempts' \in [Requests -> Seq(AttemptType)] BY <2>1, <2>3 DEF Types
  <2>p. Reading \subseteq Phases BY <1>p DEF Reading
  <2>5. pc' \in [Requests -> Phases] BY <1>p, <2>p, <2>3 DEF Types
  <2> QED BY <1>9, <1>c, <2>3, <2>4, <2>5 DEF dialAnswers, Types
<1>10. ASSUME NEW r \in Requests, errBodyChunk(r) PROVE Types'
  <2>1. CASE chunks[r] + 1 >= ErrBodyLimit
    <3>1. pc[r] = "errbody" /\ bodyRead(r)
      BY <1>10, <2>1 DEF errBodyChunk, bodyRead, Return
    <3>2. chunks' \in [Requests -> 0..MaxChunks] BY <1>10, <1>c DEF errBodyChunk, Types
    <3> QED BY <1>10, <3>1, <3>2, BodyReadTypes DEF errBodyChunk, Types
  <2>2. CASE ~(chunks[r] + 1 >= ErrBodyLimit)
    BY <1>10, <1>c, <2>2 DEF errBodyChunk, Types
  <2> QED BY <2>1, <2>2
<1>11. ASSUME NEW r \in Requests, errBodyEnds(r) PROVE Types'
  BY <1>11, BodyReadTypes DEF errBodyEnds, Types
<1>12. ASSUME NEW r \in Requests, errBodyCancelled(r) PROVE Types'
  BY <1>12, BodyReadTypes DEF errBodyCancelled, Types
<1>13. ASSUME NEW r \in Requests, readChunk(r) PROVE Types'
  BY <1>13, <1>k, <1>c DEF readChunk, Types
<1>14. ASSUME NEW r \in Requests, readError(r) PROVE Types'
  BY <1>14, <1>k, <1>c DEF readError, Return, Types
<1>15. ASSUME NEW r \in Requests, readClosed(r) PROVE Types'
  <2>c. {429, 502} \cup {mappedCCStatus(s) : s \in Statuses} \subseteq Nat
    BY <1>c, MappedStatusType
  <2>1. Result("ok", 200) \in ResultType /\ \A c \in Nat : Result("cc", c) \in ResultType
    BY <1>k
  <2>2. /\ pc' = [pc EXCEPT ![r] = "return"]
        /\ \E o \in ResultType : outcome' = [outcome EXCEPT ![r] = o]
        /\ timeouts' \in {timeouts, 0}
    BY <1>15, <2>c, <2>1 DEF readClosed, Return
  <2> QED BY <1>15, <1>p, <2>2 DEF readClosed, Types
<1>16. ASSUME NEW r \in Requests, readCancelled(r) PROVE Types'
  BY <1>16, <1>k, <1>c DEF readCancelled, Return, Types
<1>17. ASSUME NEW r \in Requests, timeoutMessage(r) PROVE Types'
  BY <1>17, <1>k, <1>c DEF timeoutMessage, Return, TimeoutKind, Types
<1>18. ASSUME NEW r \in Requests, timerFires(r) PROVE Types'
  BY <1>18, <1>k, <1>c DEF timerFires, Types
<1>19. ASSUME NEW r \in Requests, cancel(r) PROVE Types'
  BY <1>19, <1>k, <1>c DEF cancel, Types
<1>20. CASE UNCHANGED vars
  BY <1>20 DEF vars, Types
<1> QED
  BY <1>1, <1>2, <1>3, <1>4, <1>5, <1>6, <1>7, <1>8, <1>9, <1>10, <1>11, <1>12, <1>13, <1>14, <1>15, <1>16, <1>17, <1>18, <1>19, <1>20 DEF Next, Step, Quiescent

-----------------------------------------------------------------------------
\* The two sets the counter adds up are finite.
LEMMA SlotSetsFinite ==
  /\ IsFiniteSet(Holders) /\ IsFiniteSet(Rejecting)
  /\ Cardinality(Holders) \in Nat /\ Cardinality(Rejecting) \in Nat
<1>1. IsFiniteSet(Requests) BY ConstantsAssumption
<1>2. IsFiniteSet(Holders) /\ IsFiniteSet(Rejecting)
  BY <1>1, FS_Subset DEF Holders, Rejecting
<1> QED BY <1>2, FS_CardinalityType

\* A step of a call that owns its slot before and after, whatever else it does.
Inner(r) ==
  /\ inflight' = inflight
  /\ \/ pc' = pc
     \/ pc[r] \in Holding /\ \E p \in Holding : pc' = [pc EXCEPT ![r] = p]

\* Between admission and the deferred release no step touches the counter.
LEMMA InnerSteps ==
  ASSUME NEW r \in Requests,
         \/ resolveMembers(r) \/ poolExhausted(r) \/ initialized(r) \/ dialFails(r)
         \/ dialAnswers(r) \/ readError(r) \/ readClosed(r) \/ readCancelled(r)
         \/ timeoutMessage(r) \/ nextMember(r) \/ errBodyChunk(r) \/ errBodyEnds(r)
         \/ errBodyCancelled(r) \/ readChunk(r) \/ timerFires(r) \/ cancel(r)
  PROVE  Inner(r)
<1>1. CASE resolveMembers(r) BY <1>1 DEF resolveMembers, Return, Reading, Inner, Holding
<1>2. CASE poolExhausted(r) BY <1>2 DEF poolExhausted, Return, Reading, Inner, Holding
<1>3. CASE initialized(r) BY <1>3 DEF initialized, Return, Reading, Inner, Holding
<1>4. CASE dialFails(r) BY <1>4 DEF dialFails, Return, Reading, Inner, Holding
<1>5. CASE dialAnswers(r) BY <1>5 DEF dialAnswers, Return, Reading, Inner, Holding
<1>6. CASE readError(r) BY <1>6 DEF readError, Return, Reading, Inner, Holding
<1>7. CASE readClosed(r) BY <1>7 DEF readClosed, Return, Reading, Inner, Holding
<1>8. CASE readCancelled(r) BY <1>8 DEF readCancelled, Return, Reading, Inner, Holding
<1>9. CASE timeoutMessage(r) BY <1>9 DEF timeoutMessage, Return, Reading, Inner, Holding
<1>10. CASE nextMember(r) BY <1>10 DEF nextMember, Return, Reading, Inner, Holding
<1>11. CASE errBodyChunk(r) BY <1>11 DEF errBodyChunk, bodyRead, Return, Inner, Holding
<1>12. CASE errBodyEnds(r) BY <1>12 DEF errBodyEnds, bodyRead, Return, Inner, Holding
<1>13. CASE errBodyCancelled(r) BY <1>13 DEF errBodyCancelled, bodyRead, Return, Inner, Holding
<1>14. CASE readChunk(r) BY <1>14 DEF readChunk, Return, Reading, Inner, Holding
<1>15. CASE timerFires(r) BY <1>15 DEF timerFires, Return, Reading, Inner, Holding
<1>16. CASE cancel(r) BY <1>16 DEF cancel, Return, Reading, Inner, Holding
<1> QED BY <1>1, <1>2, <1>3, <1>4, <1>5, <1>6, <1>7, <1>8, <1>9, <1>10, <1>11, <1>12, <1>13, <1>14, <1>15, <1>16

\* Such a step moves no request into or out of the two sets.
LEMMA InnerKeepsSets ==
  ASSUME Types, NEW r \in Requests, Inner(r)
  PROVE  Holders' = Holders /\ Rejecting' = Rejecting
<1>1. "rejecting" \notin Holding BY DEF Holding
<1>2. CASE pc' = pc BY <1>2 DEF Holders, Rejecting
<1>3. ASSUME pc[r] \in Holding, NEW p \in Holding, pc' = [pc EXCEPT ![r] = p]
      PROVE  Holders' = Holders /\ Rejecting' = Rejecting
  <2>1. \A q \in Requests : pc'[q] = IF q = r THEN p ELSE pc[q] BY <1>3 DEF Types
  <2>2. Holders' = Holders BY <1>3, <2>1 DEF Holders
  <2>3. Rejecting' = Rejecting BY <1>1, <1>3, <2>1 DEF Rejecting
  <2> QED BY <2>2, <2>3
<1> QED BY <1>2, <1>3 DEF Inner

\* The counter invariant and the cap survive every step.
LEMMA NextCounts ==
  Types /\ InflightExact /\ CapRespected /\ [Next]_vars
    => InflightExact' /\ CapRespected'
<1> SUFFICES ASSUME Types, InflightExact, CapRespected, [Next]_vars
             PROVE  InflightExact' /\ CapRespected'
  OBVIOUS
<1> DEFINE h == Cardinality(Holders)
           j == Cardinality(Rejecting)
<1>f. /\ IsFiniteSet(Holders) /\ IsFiniteSet(Rejecting) /\ h \in Nat /\ j \in Nat
  BY SlotSetsFinite
<1>m. MaxInflight \in Int BY ConstantsAssumption
<1>s. ASSUME Holders' = Holders, Rejecting' = Rejecting, inflight' = inflight
      PROVE  InflightExact' /\ CapRespected'
  BY <1>s DEF InflightExact, CapRespected
<1>1. ASSUME NEW r \in Requests, acquireInflight(r) PROVE InflightExact' /\ CapRespected'
  <2>1. /\ "resolve" \in Holding /\ "idle" \notin Holding /\ "rejecting" \notin Holding
    BY DEF Holding
  <2>2. pc[r] = "idle" /\ r \notin Holders /\ r \notin Rejecting
    BY <1>1, <2>1 DEF acquireInflight, Holders, Rejecting
  <2>3. ASSUME pc' = [pc EXCEPT ![r] = "resolve"]
        PROVE  Holders' = Holders \cup {r} /\ Rejecting' = Rejecting
    <3>1. \A q \in Requests : pc'[q] = IF q = r THEN "resolve" ELSE pc[q]
      BY <2>3 DEF Types
    <3> QED BY <2>1, <2>2, <3>1 DEF Holders, Rejecting
  <2>4. ASSUME pc' = [pc EXCEPT ![r] = "rejecting"]
        PROVE  Holders' = Holders /\ Rejecting' = Rejecting \cup {r}
    <3>1. \A q \in Requests : pc'[q] = IF q = r THEN "rejecting" ELSE pc[q]
      BY <2>4 DEF Types
    <3> QED BY <2>1, <2>2, <3>1 DEF Holders, Rejecting
  <2>5. /\ Cardinality(Holders \cup {r}) = h + 1
        /\ Cardinality(Rejecting \cup {r}) = j + 1
    BY <1>f, <2>2, FS_AddElement
  <2>6. CASE MaxInflight <= 0
    <3>1. inflight' = inflight /\ pc' = [pc EXCEPT ![r] = "resolve"]
      BY <1>1, <2>6 DEF acquireInflight
    <3> QED BY <1>m, <2>3, <2>6, <3>1 DEF InflightExact, CapRespected
  <2>7. CASE MaxInflight > 0 /\ OverLimit(inflight + 1)
    <3>1. inflight' = inflight + 1 /\ pc' = [pc EXCEPT ![r] = "rejecting"]
      BY <1>1, <1>m, <2>7 DEF acquireInflight
    <3>2. Cardinality(Holders') = h /\ Cardinality(Rejecting') = j + 1
      BY <2>4, <2>5, <3>1
    <3>3. inflight = h + j BY <2>7 DEF InflightExact
    <3>4. inflight' = Cardinality(Holders') + Cardinality(Rejecting')
      BY <1>f, <3>1, <3>2, <3>3
    <3> QED BY <2>7, <3>2, <3>4 DEF InflightExact, CapRespected
  <2>8. CASE MaxInflight > 0 /\ ~OverLimit(inflight + 1)
    <3>1. inflight' = inflight + 1 /\ pc' = [pc EXCEPT ![r] = "resolve"]
      BY <1>1, <1>m, <2>8 DEF acquireInflight
    <3>2. inflight + 1 <= MaxInflight BY <1>m, <2>8 DEF OverLimit, Types
    <3>3. Cardinality(Holders') = h + 1 /\ Cardinality(Rejecting') = j
      BY <2>3, <2>5, <3>1
    <3>4. inflight = h + j BY <2>8 DEF InflightExact
    <3>5. inflight' = Cardinality(Holders') + Cardinality(Rejecting')
      BY <1>f, <3>1, <3>3, <3>4
    <3>6. Cardinality(Holders') <= MaxInflight
      BY <1>f, <1>m, <3>2, <3>3, <3>4
    <3> QED BY <2>8, <3>5, <3>6 DEF InflightExact, CapRespected
  <2> QED BY <1>m, <2>6, <2>7, <2>8
<1>2. ASSUME NEW r \in Requests, rejectInflight(r) PROVE InflightExact' /\ CapRespected'
  <2>1. "done" \notin Holding /\ "rejecting" \notin Holding BY DEF Holding
  <2>2. \A q \in Requests : pc'[q] = IF q = r THEN "done" ELSE pc[q]
    BY <1>2 DEF rejectInflight, Types
  <2>3. r \in Rejecting /\ pc[r] = "rejecting" BY <1>2 DEF rejectInflight, Rejecting
  <2>4. Holders' = Holders /\ Rejecting' = Rejecting \ {r}
    BY <2>1, <2>2, <2>3 DEF Holders, Rejecting
  <2>5. Cardinality(Rejecting \ {r}) = j - 1 BY <1>f, <2>3, FS_RemoveElement
  <2>6. CASE MaxInflight > 0
    BY <1>2, <1>f, <1>m, <2>4, <2>5, <2>6 DEF rejectInflight, InflightExact, CapRespected
  <2>7. CASE ~(MaxInflight > 0)
    BY <1>m, <2>3, <2>7 DEF InflightExact
  <2> QED BY <2>6, <2>7
<1>3. ASSUME NEW r \in Requests, releaseInflight(r) PROVE InflightExact' /\ CapRespected'
  <2>1. "done" \notin Holding /\ "return" \in Holding BY DEF Holding
  <2>2. \A q \in Requests : pc'[q] = IF q = r THEN "done" ELSE pc[q]
    BY <1>3 DEF releaseInflight, Types
  <2>3. r \in Holders /\ pc[r] = "return" BY <1>3, <2>1 DEF releaseInflight, Holders
  <2>4. Holders' = Holders \ {r} /\ Rejecting' = Rejecting
    BY <2>1, <2>2, <2>3 DEF Holders, Rejecting
  <2>5. Cardinality(Holders \ {r}) = h - 1 BY <1>f, <2>3, FS_RemoveElement
  <2> QED BY <1>3, <1>f, <1>m, <2>4, <2>5 DEF releaseInflight, InflightExact, CapRespected
<1>4. ASSUME NEW r \in Requests, Inner(r) PROVE InflightExact' /\ CapRespected'
  BY <1>4, <1>s, InnerKeepsSets DEF Inner
<1>5. CASE UNCHANGED vars
  BY <1>5, <1>s DEF vars, Holders, Rejecting
<1> QED
  BY <1>1, <1>2, <1>3, <1>4, <1>5, InnerSteps DEF Next, Step, Quiescent

-----------------------------------------------------------------------------
\* The strengthened invariant holds initially ...
LEMMA InitIInv == Init => IInv
<1> SUFFICES ASSUME Init PROVE IInv OBVIOUS
<1>1. Holders = {} /\ Rejecting = {} BY DEF Init, Holders, Rejecting, Holding
<1>2. Cardinality(Holders) = 0 /\ Cardinality(Rejecting) = 0 BY <1>1, FS_EmptySet
<1>3. MaxInflight \in Int BY ConstantsAssumption
<1>4. InflightExact /\ CapRespected
  BY <1>1, <1>2, <1>3 DEF Init, InflightExact, CapRespected
<1> QED BY <1>4, InitTypes DEF IInv

\* ... and is kept by every step.
LEMMA NextIInv == IInv /\ [Next]_vars => IInv'
BY NextTypes, NextCounts DEF IInv

\* The strengthened invariant gives the type invariant, with a counter that is
\* never negative.
LEMMA IInvTypeOK == IInv => TypeOK
<1> SUFFICES ASSUME IInv PROVE TypeOK OBVIOUS
<1>1. inflight \in Nat BY SlotSetsFinite DEF IInv, InflightExact
<1> QED BY <1>1 DEF IInv, Types, TypeOK

\* In every behaviour the strengthened invariant always holds.
THEOREM Invariance == Spec => []IInv
BY InitIInv, NextIInv, PTL DEF Spec

\* Every variable keeps its type, and the atomic counter never goes below zero:
\* no path of Execute, ExecuteStream or streamLoop gives a slot back twice.
THEOREM TypeCorrect == Spec => []TypeOK
BY Invariance, IInvTypeOK, PTL

\* The in-flight counter is always the slots in use plus the increments about to
\* be undone, whichever goroutine owns the slot.
THEOREM CounterExact == Spec => []InflightExact
<1>1. IInv => InflightExact BY DEF IInv
<1> QED BY <1>1, Invariance, PTL

\* max_inflight holds for every number of concurrent calls, although the counter
\* itself overshoots it.
THEOREM CapHolds == Spec => []CapRespected
<1>1. IInv => CapRespected BY DEF IInv
<1> QED BY <1>1, Invariance, PTL

-----------------------------------------------------------------------------
(* The failover loop.                                                      *)

\* A decision after which the loop may take another key.
GoesOn(a) == Retried(a) /\ (a.kind # "client" => ~a.late)

\* What lastErr is after such a decision.
ErrorOf(a) ==
  IF a.kind = "status" THEN Result("status", mappedCCStatus(a.code)) ELSE Result(a.kind, 0)

\* Nothing was tried before the loop.
Fresh(r) ==
  pc[r] \in {"idle", "rejecting", "resolve"} => attempts[r] = << >> /\ lastErr[r] = None

\* A call has an answer exactly when it is on its way out.
Settled(r) == outcome[r] = None <=> pc[r] \notin {"return", "done"}

\* Inside the loop every attempt so far was one to go on after and lastErr is the last
\* one's; every entry of the list, which is not empty, is still to be tried, or is the
\* one at hand, or has been tried.
Trying(r) ==
  LET a == attempts[r]
  IN pc[r] \in {"next", "init", "dial", "errbody"} =>
       /\ \A i \in 1 .. Len(a) : GoesOn(a[i])
       /\ lastErr[r] = IF a = << >> THEN None ELSE ErrorOf(a[Len(a)])
       /\ DOMAIN members[r] # {}
       /\ DOMAIN members[r] \subseteq
            pool[r] \cup Tried(r) \cup (IF pc[r] = "next" THEN {} ELSE {cur[r]})
       /\ pc[r] = "errbody" => ~Success(status[r])

\* A response is read after the attempt that brought it.
Accepted(r) ==
  pc[r] \in Reading =>
    /\ attempts[r] # << >>
    /\ attempts[r][Len(attempts[r])].kind = "status"
    /\ Success(attempts[r][Len(attempts[r])].code)

\* The body of FailoverOrder.
InOrder(r) ==
  LET a == attempts[r]
  IN \A i \in 1 .. Len(a) - 1 : GoesOn(a[i])

\* The body of FailoverComplete.
Truthful(r) ==
  LET last == attempts[r][Len(attempts[r])]
      k == outcome[r].kind
  IN /\ k # "exhausted"
     /\ k \in {"client", "dial"} => last.kind = k /\ (AllTried(r) \/ last.late)
     /\ k = "status" => /\ last.kind = "status" /\ ~Success(last.code)
                        /\ outcome[r].code = mappedCCStatus(last.code)
                        /\ retryable(last.code) => AllTried(r) \/ last.late
     /\ k \in {"ok", "cc", "readErr", "plain", "hint", "ctx"} =>
          last.kind = "status" /\ Success(last.code)

CallInv(r) == Fresh(r) /\ Settled(r) /\ Trying(r) /\ Accepted(r) /\ InOrder(r) /\ Truthful(r)

Locals(r) == << pc[r], members[r], pool[r], cur[r], status[r], chunks[r], fired[r], cancelled[r],
                lastErr[r], outcome[r], attempts[r] >>

-----------------------------------------------------------------------------
\* No status is both a success and worth another key.
LEMMA RetryableIsFailure ==
  ASSUME NEW s \in Nat, retryable(s) PROVE ~Success(s)
BY DEF retryable, Success

\* Every call starts fresh.
LEMMA InitCalls == ASSUME Init, NEW r \in Requests PROVE CallInv(r)
<1>1. /\ pc[r] = "idle" /\ attempts[r] = << >> /\ lastErr[r] = None /\ outcome[r] = None
  BY DEF Init
<1>2. outcome[r].kind = "none" BY <1>1 DEF None, Result
<1> QED
  BY <1>1, <1>2 DEF CallInv, Fresh, Settled, Trying, Accepted, InOrder, Truthful, Reading

\* A step of one call leaves the locals of every other as they are.
LEMMA OthersKeep ==
  ASSUME Types, NEW q \in Requests, Step(q), NEW r \in Requests, r # q
  PROVE  Locals(r)' = Locals(r)
<1> USE DEF Types, Locals
<1>1. CASE acquireInflight(q) BY <1>1 DEF acquireInflight
<1>2. CASE rejectInflight(q) BY <1>2 DEF rejectInflight
<1>3. CASE releaseInflight(q) BY <1>3 DEF releaseInflight
<1>4. CASE resolveMembers(q) BY <1>4 DEF resolveMembers, Return
<1>5. CASE nextMember(q) BY <1>5 DEF nextMember
<1>6. CASE poolExhausted(q) BY <1>6 DEF poolExhausted, Return
<1>7. CASE initialized(q) BY <1>7 DEF initialized
<1>8. CASE dialFails(q) BY <1>8 DEF dialFails, Return
<1>9. CASE dialAnswers(q) BY <1>9 DEF dialAnswers
<1>10. CASE errBodyChunk(q) BY <1>10 DEF errBodyChunk, bodyRead, Return
<1>11. CASE errBodyEnds(q) BY <1>11 DEF errBodyEnds, bodyRead, Return
<1>12. CASE errBodyCancelled(q) BY <1>12 DEF errBodyCancelled, bodyRead, Return
<1>13. CASE readChunk(q) BY <1>13 DEF readChunk
<1>14. CASE readError(q) BY <1>14 DEF readError, Return
<1>15. CASE readClosed(q) BY <1>15 DEF readClosed, Return
<1>16. CASE readCancelled(q) BY <1>16 DEF readCancelled, Return
<1>17. CASE timeoutMessage(q) BY <1>17 DEF timeoutMessage, Return
<1>18. CASE timerFires(q) BY <1>18 DEF timerFires
<1>19. CASE cancel(q) BY <1>19 DEF cancel
<1> QED
  BY <1>1, <1>2, <1>3, <1>4, <1>5, <1>6, <1>7, <1>8, <1>9, <1>10, <1>11, <1>12, <1>13,
     <1>14, <1>15, <1>16, <1>17, <1>18, <1>19 DEF Step

\* What an attempt adds to the history of a call in the loop.
LEMMA AppendAttempt ==
  ASSUME Types, NEW r \in Requests, pc[r] \in {"next", "init", "dial", "errbody"},
         Trying(r), NEW e \in AttemptType,
         attempts'[r] = Append(attempts[r], e)
  PROVE  /\ InOrder(r)'
         /\ attempts'[r] # << >> /\ attempts'[r][Len(attempts'[r])] = e
         /\ Tried(r)' = Tried(r) \cup {e.at}
         /\ GoesOn(e) => \A i \in 1 .. Len(attempts'[r]) : GoesOn(attempts'[r][i])
<1> DEFINE a == attempts[r]
           b == attempts'[r]
<1>1. a \in Seq(AttemptType) BY DEF Types
<1>2. /\ Len(b) = Len(a) + 1 /\ b[Len(a) + 1] = e /\ Len(a) \in Nat
      /\ \A i \in 1 .. Len(a) : b[i] = a[i]
  BY <1>1
<1>3. \A i \in 1 .. Len(a) : GoesOn(a[i])
  BY DEF Trying
<1>4. Tried(r) = {a[i].at : i \in 1 .. Len(a)} /\ Tried(r)' = {b[i].at : i \in 1 .. Len(b)}
  BY DEF Tried
<1> HIDE DEF a
<1>5. \A i \in 1 .. Len(b) : i \in 1 .. Len(a) \/ i = Len(a) + 1
  BY <1>2
<1>6. Tried(r)' = Tried(r) \cup {e.at}
  <2>1. Tried(r)' \subseteq Tried(r) \cup {e.at} BY <1>2, <1>4, <1>5
  <2>2. Len(a) + 1 \in 1 .. Len(b) /\ \A i \in 1 .. Len(a) : i \in 1 .. Len(b) BY <1>2
  <2>3. Tried(r) \cup {e.at} \subseteq Tried(r)' BY <1>2, <1>4, <2>2
  <2> QED BY <2>1, <2>3
<1>7. \A i \in 1 .. Len(b) - 1 : GoesOn(b[i])
  BY <1>2, <1>3
<1>8. InOrder(r)' BY <1>7 DEF InOrder, GoesOn, Retried
<1>9. b # << >>
  <2>1. Len(<< >>) = 0 OBVIOUS
  <2> QED BY <2>1, <1>2
<1>10. ASSUME GoesOn(e) PROVE \A i \in 1 .. Len(b) : GoesOn(b[i])
  BY <1>2, <1>3, <1>5, <1>10
<1> QED BY <1>2, <1>6, <1>8, <1>9, <1>10

\* A step of a call keeps what is true of that call.
LEMMA OwnStep ==
  ASSUME Types, NEW r \in Requests, CallInv(r), Step(r)
  PROVE  CallInv(r)'
<1> USE DEF CallInv
<1>t. /\ attempts[r] \in Seq(AttemptType) /\ pc[r] \in Phases /\ status[r] \in Nat
      /\ r \in DOMAIN pc /\ r \in DOMAIN outcome /\ r \in DOMAIN pool /\ r \in DOMAIN members
      /\ r \in DOMAIN attempts /\ r \in DOMAIN lastErr /\ r \in DOMAIN cur
      /\ r \in DOMAIN cancelled /\ r \in DOMAIN status
  BY DEF Types
<1>n. None = [kind |-> "none", code |-> 0] BY DEF None, Result
\* Steps that only move the call, or touch what the invariant does not mention.
<1>1. CASE acquireInflight(r)
  BY <1>1, <1>t DEF acquireInflight, Fresh, Settled, Trying, Accepted, InOrder, Truthful, Tried, AllTried, Reading
<1>2. CASE rejectInflight(r)
  BY <1>2, <1>t, <1>n DEF rejectInflight, Fresh, Settled, Trying, Accepted, InOrder, Truthful, Tried, AllTried, Reading, Result
<1>3. CASE releaseInflight(r)
  BY <1>3, <1>t DEF releaseInflight, Fresh, Settled, Trying, Accepted, InOrder, Truthful, Tried, AllTried, Reading
<1>4. CASE initialized(r)
  BY <1>4, <1>t DEF initialized, Fresh, Settled, Trying, Accepted, InOrder, Truthful, Tried, AllTried, Reading
<1>5. CASE readChunk(r)
  BY <1>5, <1>t DEF readChunk, Fresh, Settled, Trying, Accepted, InOrder, Truthful, Tried, AllTried, Reading
<1>6. CASE timerFires(r)
  BY <1>6, <1>t DEF timerFires, Fresh, Settled, Trying, Accepted, InOrder, Truthful, Tried, AllTried, Reading
<1>7. CASE cancel(r)
  BY <1>7, <1>t DEF cancel, Fresh, Settled, Trying, Accepted, InOrder, Truthful, Tried, AllTried, Reading
\* The answer to a response that was being read.
<1>8. ASSUME pc[r] \in Reading, NEW o, Return(r, o), attempts'[r] = attempts[r],
             o.kind \in {"ok", "cc", "readErr", "plain", "hint", "ctx"}
      PROVE  CallInv(r)'
  BY <1>8, <1>t, <1>n DEF Return, Fresh, Settled, Trying, Accepted, InOrder, Truthful, Tried, AllTried, Reading
<1>9. CASE readError(r)
  BY <1>8, <1>9 DEF readError, Result
<1>10. CASE readClosed(r)
  BY <1>8, <1>10 DEF readClosed, Result
<1>11. CASE readCancelled(r)
  BY <1>8, <1>11 DEF readCancelled, Result
<1>12. CASE timeoutMessage(r)
  BY <1>8, <1>12 DEF timeoutMessage, Result, TimeoutKind
<1>13. CASE resolveMembers(r)
  <2>1. \A ms \in Pools : ms # << >> => DOMAIN ms # {}
    <3>1. \A ms \in Seq(Members) : ms # << >> => 1 \in 1 .. Len(ms) OBVIOUS
    <3>2. \A ms \in Seq(Members) : DOMAIN ms = 1 .. Len(ms) OBVIOUS
    <3> QED BY <3>1, <3>2, ConstantsAssumption
  <2> QED
   BY <1>13, <2>1, <1>t, <1>n DEF resolveMembers, Return, Result, Fresh, Settled, Trying, Accepted, InOrder, Truthful, Tried, AllTried, Reading
<1>14. CASE poolExhausted(r)
  <2>a. pool[r] = {} /\ pc[r] = "next" BY <1>14 DEF poolExhausted
  <2>b. AllTried(r) /\ Tried(r) # {} BY <2>a DEF Trying, AllTried
  <2>1. attempts[r] # << >> BY <2>b DEF Tried
  <2> DEFINE last == attempts[r][Len(attempts[r])]
  <2>2. Len(attempts[r]) \in 1 .. Len(attempts[r]) /\ last \in AttemptType
    BY <2>1, <1>t
  <2>3. GoesOn(last) /\ lastErr[r] = ErrorOf(last)
    BY <1>14, <2>1, <2>2 DEF poolExhausted, Trying
  <2>4. lastErr[r] # None
    BY <2>2, <2>3, <1>n DEF ErrorOf, Result, AttemptType
  <2>5. Return(r, lastErr[r]) BY <1>14, <2>4 DEF poolExhausted
  <2>6. last.kind = "status" => ~Success(last.code)
    BY <2>2, <2>3, RetryableIsFailure DEF GoesOn, Retried, AttemptType
  <2>7. AllTried(r)' BY <1>14, <2>b DEF poolExhausted, AllTried, Tried
  <2>8. Truthful(r)'
    BY <1>14, <1>t, <2>2, <2>3, <2>5, <2>6, <2>7, <2>a
    DEF poolExhausted, Return, Truthful, ErrorOf, Result, AttemptType
  <2> QED
    BY <1>14, <1>t, <2>4, <2>5, <2>8 DEF poolExhausted, Return, Fresh, Settled, Trying, Accepted, InOrder, Reading
<1>15. CASE nextMember(r)
  <2>1. PICK m \in pool[r] : nextMember(r)!2!(m)
    BY <1>15 DEF nextMember
  <2> DEFINE e == [at |-> m, kind |-> "client", code |-> 0, late |-> cancelled[r]]
  <2>2. e \in AttemptType /\ GoesOn(e) /\ ErrorOf(e) = Result("client", 0) /\ e.at = m
    BY DEF Types, AttemptType, GoesOn, Retried, ErrorOf
  <2>3. /\ pc[r] = "next" /\ pool'[r] = pool[r] \ {m} /\ outcome' = outcome
        /\ cur'[r] = m /\ status' = status /\ members' = members
    BY <1>15, <1>t, <2>1 DEF nextMember
  <2>4. /\ DOMAIN members[r] \subseteq pool'[r] \cup Tried(r) \cup {m}
        /\ \A i \in 1 .. Len(attempts[r]) : GoesOn(attempts[r][i])
        /\ DOMAIN members[r] # {}
        /\ lastErr[r] = IF attempts[r] = << >> THEN None
                         ELSE ErrorOf(attempts[r][Len(attempts[r])])
    BY <2>3 DEF Trying
  <2>5. CASE members[r][m] \in BadClients
    <3>1. /\ attempts'[r] = Append(attempts[r], e) /\ pc' = pc
          /\ lastErr'[r] = Result("client", 0)
      BY <1>t, <2>1, <2>5
    <3> HIDE DEF e
    <3>2. /\ InOrder(r)' /\ attempts'[r] # << >> /\ attempts'[r][Len(attempts'[r])] = e
          /\ Tried(r)' = Tried(r) \cup {m}
          /\ \A i \in 1 .. Len(attempts'[r]) : GoesOn(attempts'[r][i])
      BY <2>2, <2>3, <3>1, AppendAttempt
    <3>3. Trying(r)' BY <2>2, <2>3, <2>4, <3>1, <3>2 DEF Trying, GoesOn, Retried, ErrorOf
    <3>4. outcome'[r].kind = "none" BY <2>3, <1>n DEF Settled
    <3> QED BY <2>3, <3>1, <3>2, <3>3, <3>4 DEF Fresh, Settled, Accepted, Reading, Truthful
  <2>6. CASE members[r][m] \notin BadClients
    <3>1. attempts' = attempts /\ lastErr' = lastErr /\ pc'[r] = "init"
      BY <1>t, <2>1, <2>6
    <3>t. Tried(r)' = Tried(r) BY <3>1 DEF Tried
    <3>2. Trying(r)' BY <2>3, <2>4, <3>1, <3>t DEF Trying, GoesOn, Retried, ErrorOf
    <3>3. outcome'[r].kind = "none" BY <2>3, <1>n DEF Settled
    <3> QED BY <2>3, <3>1, <3>2, <3>3 DEF Fresh, Settled, Accepted, Reading, InOrder, Truthful, Tried, AllTried
  <2> QED BY <2>5, <2>6
\* An attempt that failed: the loop goes on, or the call is answered with it.
<1>16. ASSUME pc[r] \in {"dial", "errbody"}, NEW e \in AttemptType, e.at = cur[r],
              e.kind # "client",
              attempts'[r] = Append(attempts[r], e), lastErr'[r] = ErrorOf(e),
              pool'[r] = pool[r], members'[r] = members[r], e.kind = "status" => ~Success(e.code),
              \/ pc'[r] = "next" /\ outcome' = outcome /\ GoesOn(e)
              \/ Return(r, ErrorOf(e)) /\ (Retried(e) => e.late)
       PROVE  CallInv(r)'
  <2>1. /\ InOrder(r)' /\ attempts'[r] # << >> /\ attempts'[r][Len(attempts'[r])] = e
        /\ Tried(r)' = Tried(r) \cup {cur[r]}
        /\ GoesOn(e) => \A i \in 1 .. Len(attempts'[r]) : GoesOn(attempts'[r][i])
    BY <1>16, AppendAttempt
  <2>2. CASE pc'[r] = "next" /\ outcome' = outcome /\ GoesOn(e)
    <3>1. outcome'[r].kind = "none" BY <1>16, <2>2, <1>n DEF Settled
    <3>2. Trying(r)' BY <1>16, <2>1, <2>2 DEF Trying, GoesOn, Retried, ErrorOf
    <3> QED BY <1>16, <2>1, <2>2, <3>1, <3>2 DEF Fresh, Settled, Accepted, Reading, Truthful
  <2>3. CASE Return(r, ErrorOf(e)) /\ (Retried(e) => e.late)
    <3>1. pc'[r] = "return" /\ outcome'[r] = ErrorOf(e) BY <2>3, <1>t DEF Return
    <3>2. Truthful(r)'
      BY <1>16, <2>1, <2>3, <3>1 DEF Truthful, ErrorOf, Result, AttemptType, Retried
    <3>3. ErrorOf(e) # None BY <1>16, <1>n DEF ErrorOf, Result, AttemptType
    <3> QED BY <2>1, <3>1, <3>2, <3>3 DEF Fresh, Settled, Trying, Accepted, Reading
  <2> QED BY <1>16, <2>2, <2>3
<1>17. CASE dialFails(r)
  <2> DEFINE e == Attempt(r, "dial", 0)
  <2>1. e \in AttemptType /\ e.at = cur[r] /\ e.kind = "dial" /\ e.late = cancelled[r]
        /\ ErrorOf(e) = Result("dial", 0) /\ Retried(e)
    BY <1>17 DEF dialFails, Types, Attempt, AttemptType, Retried, ErrorOf
  <2>2. /\ pc[r] = "dial" /\ attempts'[r] = Append(attempts[r], e) /\ pool' = pool
        /\ members' = members /\ lastErr'[r] = Result("dial", 0)
        /\ \/ cancelled[r] /\ Return(r, Result("dial", 0))
           \/ ~cancelled[r] /\ pc'[r] = "next" /\ outcome' = outcome
    BY <1>17, <1>t DEF dialFails
  <2> HIDE DEF e
  <2> QED BY <1>16, <2>1, <2>2 DEF GoesOn
<1>18. ASSUME pc[r] = "errbody", bodyRead(r), pool' = pool, members' = members PROVE CallInv(r)'
  <2> DEFINE e == Attempt(r, "status", status[r])
  <2>1. e \in AttemptType /\ e.at = cur[r] /\ e.kind = "status" /\ e.late = cancelled[r]
        /\ ErrorOf(e) = Result("status", mappedCCStatus(status[r])) /\ e.code = status[r]
        /\ (Retried(e) <=> retryable(status[r]))
    BY <1>18 DEF Types, Attempt, AttemptType, Retried, ErrorOf
  <2>2. /\ attempts'[r] = Append(attempts[r], e) /\ ~Success(status[r])
        /\ lastErr'[r] = Result("status", mappedCCStatus(status[r]))
        /\ \/ ~Continue(r) /\ Return(r, Result("status", mappedCCStatus(status[r])))
           \/ Continue(r) /\ pc'[r] = "next" /\ outcome' = outcome
    BY <1>18, <1>t DEF bodyRead, Trying
  <2>3. cancelled[r] \in BOOLEAN BY DEF Types
  <2> HIDE DEF e
  <2>4. CASE ~Continue(r)
    BY <1>16, <1>18, <2>1, <2>2, <2>3, <2>4 DEF Continue
  <2>5. CASE Continue(r)
    BY <1>16, <1>18, <2>1, <2>2, <2>3, <2>5 DEF Continue, GoesOn
  <2> QED BY <2>4, <2>5
<1>19. CASE errBodyEnds(r) BY <1>18, <1>19 DEF errBodyEnds
<1>20. CASE errBodyCancelled(r) BY <1>18, <1>20 DEF errBodyCancelled
<1>21. CASE errBodyChunk(r)
  <2>1. CASE chunks[r] + 1 >= ErrBodyLimit
    BY <1>18, <1>21, <2>1 DEF errBodyChunk, bodyRead, Return
  <2>2. CASE ~(chunks[r] + 1 >= ErrBodyLimit)
    <3>1. /\ chunks' = [chunks EXCEPT ![r] = @ + 1]
          /\ UNCHANGED << pc, members, pool, cur, status, cancelled, lastErr, outcome, attempts >>
      BY <1>21, <2>2 DEF errBodyChunk
    <3> QED BY <3>1 DEF Fresh, Settled, Trying, Accepted, InOrder, Truthful, Tried, AllTried, GoesOn, Retried, ErrorOf
  <2> QED BY <2>1, <2>2
<1>22. CASE dialAnswers(r)
  <2>1. PICK s \in Statuses : dialAnswers(r)!2!(s)
    BY <1>22 DEF dialAnswers
  <2>2. pc[r] = "dial" /\ pool' = pool /\ outcome' = outcome /\ lastErr' = lastErr /\ cur' = cur
        /\ members' = members
    BY <1>22 DEF dialAnswers
  <2>3. outcome'[r].kind = "none" BY <2>2, <1>n DEF Settled
  <2>4. s \in Nat BY ConstantsAssumption
  <2>5. CASE Success(s)
    <3> DEFINE e == Attempt(r, "status", s)
    <3>1. e \in AttemptType /\ e.at = cur[r] /\ e.kind = "status" /\ e.code = s
      BY <2>2, <2>4 DEF Types, Attempt, AttemptType
    <3>2. attempts'[r] = Append(attempts[r], e) /\ pc'[r] \in Reading
      BY <1>t, <2>1, <2>5 DEF Reading
    <3> HIDE DEF e
    <3>3. /\ InOrder(r)' /\ attempts'[r] # << >>
          /\ attempts'[r][Len(attempts'[r])] = e
      BY <2>2, <3>1, <3>2, AppendAttempt DEF Trying
    <3>4. Accepted(r)' BY <2>5, <3>1, <3>3 DEF Accepted, Success
    <3> QED BY <2>2, <2>3, <3>2, <3>3, <3>4 DEF Fresh, Settled, Trying, Reading, Truthful
  <2>6. CASE ~Success(s)
    <3>1. attempts' = attempts /\ pc'[r] = "errbody" /\ status'[r] = s
      BY <1>t, <2>1, <2>6
    <3>t. Tried(r)' = Tried(r) BY <3>1 DEF Tried
    <3>2. Trying(r)' BY <2>2, <2>6, <3>1, <3>t DEF Trying, GoesOn, Retried, ErrorOf, Success
    <3> QED BY <2>2, <2>3, <3>1, <3>2 DEF Fresh, Settled, Accepted, Reading, InOrder, Truthful, Tried, AllTried
  <2> QED BY <2>5, <2>6
<1> QED
  BY <1>1, <1>2, <1>3, <1>4, <1>5, <1>6, <1>7, <1>9, <1>10, <1>11, <1>12, <1>13, <1>14,
     <1>15, <1>17, <1>19, <1>20, <1>21, <1>22 DEF Step

Calls == \A r \in Requests : CallInv(r)

\* Every step keeps what is true of every call.
LEMMA NextCalls == Types /\ Calls /\ [Next]_vars => Calls'
<1> SUFFICES ASSUME Types, Calls, [Next]_vars, NEW r \in Requests
             PROVE  CallInv(r)'
  BY DEF Calls
<1>1. CallInv(r) BY DEF Calls
<1>2. ASSUME Locals(r)' = Locals(r) PROVE CallInv(r)'
  BY <1>1, <1>2 DEF Locals, CallInv, Fresh, Settled, Trying, Accepted, InOrder, Truthful,
                    Tried, AllTried, GoesOn, Retried, ErrorOf
<1>3. ASSUME NEW q \in Requests, Step(q) PROVE CallInv(r)'
  <2>1. CASE q = r BY <1>1, <1>3, <2>1, OwnStep
  <2>2. CASE q # r BY <1>2, <1>3, <2>2, OthersKeep
  <2> QED BY <2>1, <2>2
<1>4. CASE UNCHANGED vars BY <1>2, <1>4 DEF vars, Locals
<1> QED BY <1>3, <1>4 DEF Next, Quiescent

\* In every behaviour both invariants hold.
THEOREM CallsInvariance == Spec => [](IInv /\ Calls)
<1>1. Init => Calls BY InitCalls DEF Calls
<1>2. IInv /\ Calls /\ [Next]_vars => Calls' BY NextCalls DEF IInv
<1> QED BY <1>1, <1>2, InitIInv, NextIInv, PTL DEF Spec

\* A call goes on to another entry of its list only after a failure that another key
\* may cure, and while its caller is still there, for any list and any statuses.
THEOREM FailoverInOrder == Spec => []FailoverOrder
<1>1. Calls => FailoverOrder BY DEF Calls, CallInv, InOrder, GoesOn, FailoverOrder
<1> QED BY <1>1, CallsInvariance, PTL

\* A caller is told the last attempt's failure, after every entry of the list that
\* could have helped was tried, for any list and any statuses; "all pool members
\* failed" is never the answer.
THEOREM FailoverTruthful == Spec => []FailoverComplete
<1>1. Calls => FailoverComplete BY DEF Calls, CallInv, Truthful, FailoverComplete
<1> QED BY <1>1, CallsInvariance, PTL

-----------------------------------------------------------------------------
\* The answers that count for the counter, or that admission gives.
Special == {"none", "overloaded", "plain", "hint", "ok"}

\* What a step does to the timeout counter and to the answers.
CountsRight(r) ==
  \/ timeouts' = timeouts /\ outcome' = outcome
  \/ /\ timeouts' = timeouts /\ outcome[r] = None /\ pc[r] = "rejecting"
     /\ outcome' = [outcome EXCEPT ![r] = Result("overloaded", 503)]
  \/ /\ timeouts' = timeouts /\ outcome[r] = None
     /\ \E o \in ResultType : /\ o.kind \notin Special
                            /\ outcome' = [outcome EXCEPT ![r] = o]
  \/ /\ timeouts' = 0 /\ outcome[r] = None
     /\ outcome' = [outcome EXCEPT ![r] = Result("ok", 200)]
  \/ /\ timeouts' = timeouts + 1 /\ outcome[r] = None
     /\ outcome' = [outcome EXCEPT ![r] = Result(TimeoutKind(timeouts + 1), 429)]

\* Only a timeout counts, only a success clears the counter.
LEMMA StepCounts ==
  ASSUME IInv, Calls, NEW r \in Requests, Step(r) PROVE CountsRight(r)
<1>t. /\ Types /\ CallInv(r) /\ status[r] \in Nat
  BY DEF IInv, Calls, Types
<1>k. \A k \in Kinds, c \in Nat : Result(k, c) \in ResultType
  BY ResultIsResult
<1>s. pc[r] \notin {"return", "done"} => outcome[r] = None
  BY <1>t DEF CallInv, Settled
<1>a. ASSUME NEW k \in Kinds \ Special, NEW c \in Nat,
             pc[r] \notin {"return", "done"}, timeouts' = timeouts,
             outcome' = [outcome EXCEPT ![r] = Result(k, c)]
      PROVE  CountsRight(r)
  <2>1. Result(k, c) \in ResultType /\ Result(k, c).kind = k BY <1>k DEF Result
  <2> QED BY <1>a, <1>s, <2>1 DEF CountsRight
<1>c. \A k \in {"missingKey", "dial", "ctx", "readErr", "cc", "status"} : k \in Kinds \ Special
  BY DEF Kinds, Special
<1>b. ASSUME pc[r] = "errbody", bodyRead(r), timeouts' = timeouts PROVE CountsRight(r)
  <2>1. mappedCCStatus(status[r]) \in Nat BY <1>t, MappedStatusType
  <2>2. \/ outcome' = outcome
        \/ outcome' = [outcome EXCEPT ![r] = Result("status", mappedCCStatus(status[r]))]
    BY <1>b DEF bodyRead, Return
  <2>3. CASE outcome' = outcome BY <1>b, <2>3 DEF CountsRight
  <2>4. CASE outcome' = [outcome EXCEPT ![r] = Result("status", mappedCCStatus(status[r]))]
    <3>1. "status" \in Kinds \ Special BY <1>c
    <3> QED BY <1>a, <1>b, <2>1, <2>4, <3>1
  <2> QED BY <2>2, <2>3, <2>4
<1>1. CASE acquireInflight(r) BY <1>1 DEF acquireInflight, CountsRight
<1>2. CASE rejectInflight(r)
  <2>1. /\ pc[r] = "rejecting" /\ timeouts' = timeouts
        /\ outcome' = [outcome EXCEPT ![r] = Result("overloaded", 503)]
    BY <1>2 DEF rejectInflight
  <2> QED BY <2>1, <1>s DEF CountsRight
<1>3. CASE releaseInflight(r) BY <1>3 DEF releaseInflight, CountsRight
<1>4. CASE resolveMembers(r)
  <2>1. /\ pc[r] = "resolve" /\ timeouts' = timeouts
        /\ \/ outcome' = outcome
           \/ outcome' = [outcome EXCEPT ![r] = Result("missingKey", 401)]
    BY <1>4 DEF resolveMembers, Return
  <2>2. CASE outcome' = outcome BY <2>1, <2>2 DEF CountsRight
  <2> QED BY <2>1, <2>2, <1>a, <1>c
<1>5. CASE nextMember(r) BY <1>5 DEF nextMember, CountsRight
<1>6. CASE poolExhausted(r)
  <2>1. lastErr[r] \in ResultType /\ pc[r] = "next" BY <1>6, <1>t DEF Types, poolExhausted
  <2>2. lastErr[r] # None => lastErr[r].kind \notin Special
    <3>1. Trying(r) /\ attempts[r] \in Seq(AttemptType) BY <1>t DEF CallInv, Types
    <3>2. lastErr[r] = IF attempts[r] = << >> THEN None
                       ELSE ErrorOf(attempts[r][Len(attempts[r])])
      BY <2>1, <3>1 DEF Trying
    <3>3. attempts[r] # << >> => attempts[r][Len(attempts[r])] \in AttemptType
      BY <3>1
    <3>4. lastErr[r] # None => lastErr[r].kind \in {"client", "dial", "status"}
      BY <3>2, <3>3 DEF ErrorOf, Result, AttemptType
    <3> QED BY <3>4 DEF Special
  <2>3. timeouts' = timeouts /\ outcome[r] = None BY <1>6, <1>s DEF poolExhausted
  <2>4. Result("exhausted", 502) \in ResultType
        /\ Result("exhausted", 502).kind \notin Special
    <3>1. "exhausted" \in Kinds BY DEF Kinds
    <3>2. Result("exhausted", 502).kind = "exhausted" BY DEF Result
    <3> QED BY <1>k, <3>1, <3>2 DEF Special
  <2>5. \E o \in ResultType : /\ o.kind \notin Special
                            /\ outcome' = [outcome EXCEPT ![r] = o]
    <3>1. CASE lastErr[r] # None BY <1>6, <2>1, <2>2, <3>1 DEF poolExhausted, Return
    <3>2. CASE lastErr[r] = None BY <1>6, <2>4, <3>2 DEF poolExhausted, Return
    <3> QED BY <3>1, <3>2
  <2> QED BY <2>3, <2>5 DEF CountsRight
<1>7. CASE initialized(r) BY <1>7 DEF initialized, CountsRight
<1>8. CASE dialFails(r)
  <2>1. /\ pc[r] = "dial" /\ timeouts' = timeouts
        /\ \/ outcome' = outcome
           \/ outcome' = [outcome EXCEPT ![r] = Result("dial", 0)]
    BY <1>8 DEF dialFails, Return
  <2>2. CASE outcome' = outcome BY <2>1, <2>2 DEF CountsRight
  <2> QED BY <2>1, <2>2, <1>a, <1>c
<1>9. CASE dialAnswers(r) BY <1>9 DEF dialAnswers, CountsRight
<1>10. CASE errBodyChunk(r)
  BY <1>10, <1>b DEF errBodyChunk, CountsRight
<1>11. CASE errBodyEnds(r) BY <1>11, <1>b DEF errBodyEnds
<1>12. CASE errBodyCancelled(r) BY <1>12, <1>b DEF errBodyCancelled
<1>13. CASE readChunk(r) BY <1>13 DEF readChunk, CountsRight
<1>14. CASE readError(r)
  <2>1. /\ pc[r] \in Reading /\ timeouts' = timeouts
        /\ outcome' = [outcome EXCEPT ![r] = Result("readErr", 502)]
    BY <1>14 DEF readError, Return
  <2>2. "readErr" \in Kinds \ Special BY <1>c
  <2>3. pc[r] \notin {"return", "done"} BY <2>1 DEF Reading
  <2>4. 502 \in Nat OBVIOUS
  <2> QED BY <2>1, <2>2, <2>3, <2>4, <1>a, Zenon
<1>15. CASE readClosed(r)
  <2>1. outcome[r] = None BY <1>15, <1>s DEF readClosed, Reading
  <2>2. CASE /\ timeouts' = 0
             /\ outcome' = [outcome EXCEPT ![r] = Result("ok", 200)]
    BY <2>1, <2>2 DEF CountsRight
  <2>3. ASSUME NEW code \in Nat, timeouts' = timeouts,
               outcome' = [outcome EXCEPT ![r] = Result("cc", code)]
        PROVE  CountsRight(r)
    <3>1. "cc" \in Kinds \ Special BY <1>c
    <3>2. pc[r] \notin {"return", "done"} BY <1>15 DEF readClosed, Reading
    <3> QED BY <2>3, <3>1, <3>2, <1>a, Zenon
  <2>4. {429, 502} \cup {mappedCCStatus(s) : s \in Statuses} \subseteq Nat
    BY ConstantsAssumption, MappedStatusType
  <2>5. ASSUME NEW code \in {429, 502} \cup {mappedCCStatus(s) : s \in Statuses},
               Return(r, Result("cc", code)), UNCHANGED timeouts
        PROVE  CountsRight(r)
    BY <2>3, <2>4, <2>5 DEF Return
  <2>6. CASE Return(r, Result("ok", 200)) /\ timeouts' = 0
    BY <2>2, <2>6 DEF Return
  <2> QED BY <1>15, <2>5, <2>6 DEF readClosed
<1>16. CASE readCancelled(r)
  BY <1>16, <1>a, <1>c DEF readCancelled, Return, Reading
<1>17. CASE timeoutMessage(r)
  BY <1>17, <1>s DEF timeoutMessage, Return, CountsRight, Reading
<1>18. CASE timerFires(r) BY <1>18 DEF timerFires, CountsRight
<1>19. CASE cancel(r) BY <1>19 DEF cancel, CountsRight
<1> QED
  BY <1>1, <1>2, <1>3, <1>4, <1>5, <1>6, <1>7, <1>8, <1>9, <1>10, <1>11, <1>12, <1>13,
     <1>14, <1>15, <1>16, <1>17, <1>18, <1>19 DEF Step

\* The timeout counter loses no timeout and counts nothing else.
LEMMA NextTimeouts ==
  IInv /\ Calls /\ TimeoutsCounted /\ [Next]_vars => TimeoutsCounted'
<1> SUFFICES ASSUME IInv, Calls, TimeoutsCounted, [Next]_vars PROVE TimeoutsCounted'
  OBVIOUS
<1>t. timeouts \in Nat /\ outcome \in [Requests -> ResultType] /\ HintAfter \in Nat
  BY ConstantsAssumption DEF IInv, Types
<1>f. IsFiniteSet(TimedOut) /\ Cardinality(TimedOut) \in Nat
  BY ConstantsAssumption, FS_Subset, FS_CardinalityType DEF TimedOut
<1>1. CASE timeouts' = timeouts /\ outcome' = outcome
  BY <1>1 DEF TimeoutsCounted, TimedOut, Succeeded
<1>2. ASSUME NEW r \in Requests, Step(r) PROVE TimeoutsCounted'
  <2>1. CountsRight(r) BY <1>2, StepCounts
  <2>n. None.kind = "none" BY DEF None, Result
  <2>2. CASE timeouts' = timeouts /\ outcome' = outcome BY <1>1, <2>2
  <2>3. ASSUME timeouts' = timeouts, outcome[r] = None, NEW o \in ResultType,
               o.kind \notin {"plain", "hint", "ok"}, outcome' = [outcome EXCEPT ![r] = o]
        PROVE  TimeoutsCounted'
    <3>1. \A q \in Requests : outcome'[q] = IF q = r THEN o ELSE outcome[q]
      BY <1>t, <2>3
    <3>2. TimedOut' = TimedOut /\ Succeeded' = Succeeded
      BY <2>3, <2>n, <3>1 DEF TimedOut, Succeeded
    <3>3. \A q \in Requests : outcome'[q].kind = "hint" => outcome[q].kind = "hint"
      BY <2>3, <3>1
    <3> QED BY <2>3, <3>2, <3>3 DEF TimeoutsCounted
  <2>4. CASE /\ timeouts' = 0 /\ outcome[r] = None
             /\ outcome' = [outcome EXCEPT ![r] = Result("ok", 200)]
    <3>1. \A q \in Requests :
            outcome'[q].kind = IF q = r THEN "ok" ELSE outcome[q].kind
      BY <1>t, <2>4 DEF Result
    <3>2. TimedOut' = TimedOut BY <2>4, <2>n, <3>1 DEF TimedOut
    <3>3. r \in Succeeded' BY <3>1 DEF Succeeded
    <3>4. \A q \in Requests : outcome'[q].kind = "hint" => outcome[q].kind = "hint"
      BY <3>1
    <3> QED BY <1>f, <2>4, <3>2, <3>3, <3>4 DEF TimeoutsCounted
  <2>5. CASE /\ timeouts' = timeouts + 1 /\ outcome[r] = None
             /\ outcome' = [outcome EXCEPT ![r] = Result(TimeoutKind(timeouts + 1), 429)]
    <3>1. \A q \in Requests : outcome'[q].kind =
            IF q = r THEN TimeoutKind(timeouts + 1) ELSE outcome[q].kind
      BY <1>t, <2>5 DEF Result
    <3>2. r \notin TimedOut /\ TimedOut' = TimedOut \cup {r} /\ Succeeded' = Succeeded
      BY <2>5, <2>n, <3>1 DEF TimedOut, Succeeded, TimeoutKind
    <3>3. Cardinality(TimedOut') = Cardinality(TimedOut) + 1
      BY <1>f, <3>2, FS_AddElement
    <3>4. ASSUME NEW q \in Requests, outcome'[q].kind = "hint"
          PROVE  Cardinality(TimedOut') >= HintAfter
      <4>1. CASE q = r
        BY <1>t, <1>f, <3>1, <3>3, <3>4, <4>1 DEF TimeoutKind, TimeoutsCounted
      <4>2. CASE q # r
        BY <1>t, <1>f, <3>1, <3>3, <3>4, <4>2 DEF TimeoutsCounted
      <4> QED BY <4>1, <4>2
    <3>5. timeouts' <= Cardinality(TimedOut')
          /\ (Succeeded' = {} => timeouts' = Cardinality(TimedOut'))
      BY <1>t, <1>f, <2>5, <3>2, <3>3 DEF TimeoutsCounted
    <3> QED BY <3>4, <3>5 DEF TimeoutsCounted
  <2>6. Result("overloaded", 503) \in ResultType
        /\ Result("overloaded", 503).kind \notin {"plain", "hint", "ok"}
    BY DEF Result, ResultType, Kinds
  <2> QED BY <2>1, <2>2, <2>3, <2>4, <2>5, <2>6 DEF CountsRight, Special
<1> QED BY <1>1, <1>2 DEF Next, Quiescent, vars

\* The hint to reduce the request is given only after that many requests have really
\* timed out, however calls and successes interleave.
THEOREM HintIsEarned == Spec => []TimeoutsCounted
<1>1. Init => TimeoutsCounted
  <2> SUFFICES ASSUME Init PROVE TimeoutsCounted OBVIOUS
  <2>1. TimedOut = {} /\ \A r \in Requests : outcome[r].kind = "none"
    BY DEF Init, TimedOut, None, Result
  <2> QED BY <2>1, FS_EmptySet DEF Init, TimeoutsCounted
<1> QED BY <1>1, NextTimeouts, CallsInvariance, PTL DEF Spec
-----------------------------------------------------------------------------
\* The executor starts like the room.
LEMMA InitGate == Init => Gate!Init
BY DEF Init, Gate!Init, Holders, Rejecting, Holding

\* A step between admission and release is an answer, or nothing the room can see.
LEMMA InnerGate ==
  ASSUME IInv, Calls, NEW r \in Requests, Inner(r), Step(r), pc[r] \in Holding
  PROVE  [Gate!Next]_(Gate!vars)
<1>1. Types /\ pc \in [Requests -> Phases] /\ outcome \in [Requests -> ResultType]
  BY DEF IInv, Types
<1>2. Holders' = Holders /\ Rejecting' = Rejecting BY <1>1, InnerKeepsSets
<1>3. CASE outcome' = outcome BY <1>2, <1>3 DEF Gate!vars
<1>4. ASSUME outcome[r] = None, NEW o \in ResultType \ {None, Result("overloaded", 503)},
             outcome' = [outcome EXCEPT ![r] = o]
      PROVE  Gate!Next
  <2>1. outcome'[r] = o BY <1>1, <1>4
  <2>2. r \in Holders BY DEF Holders
  <2>3. Gate!Answer(r) BY <1>2, <1>4, <2>1, <2>2 DEF Gate!Answer
  <2> QED BY <2>3 DEF Gate!Next
<1>5. CountsRight(r) BY StepCounts
<1>6. pc[r] # "rejecting" BY DEF Holding
<1>7. \A o \in ResultType :
        o.kind \notin {"none", "overloaded"} => o \notin {None, Result("overloaded", 503)}
  BY DEF None, Result
<1>8. /\ Result("ok", 200) \in ResultType /\ Result("ok", 200).kind = "ok"
      /\ \A n : /\ Result(TimeoutKind(n), 429) \in ResultType
               /\ Result(TimeoutKind(n), 429).kind \in {"plain", "hint"}
  BY DEF Result, ResultType, Kinds, TimeoutKind
<1> QED BY <1>3, <1>4, <1>5, <1>6, <1>7, <1>8 DEF CountsRight, Special
\* Every step of the executor is a step of the room, or nothing the room can see.
LEMMA NextGate ==
  IInv /\ Calls /\ [Next]_vars => [Gate!Next]_(Gate!vars)
<1> SUFFICES ASSUME IInv, Calls, [Next]_vars PROVE [Gate!Next]_(Gate!vars)
  OBVIOUS
<1>t. /\ Types /\ InflightExact /\ MaxInflight \in Int /\ pc \in [Requests -> Phases]
      /\ \A r \in Requests : Settled(r)
  BY ConstantsAssumption DEF IInv, Types, Calls, CallInv
<1>f. /\ IsFiniteSet(Holders) /\ IsFiniteSet(Rejecting)
      /\ Cardinality(Holders) \in Nat /\ Cardinality(Rejecting) \in Nat
  BY SlotSetsFinite
<1>h. /\ "resolve" \in Holding /\ "return" \in Holding /\ "idle" \notin Holding
      /\ "rejecting" \notin Holding /\ "done" \notin Holding
  BY DEF Holding
<1>1. ASSUME NEW r \in Requests, acquireInflight(r) PROVE Gate!Next
  <2>1. pc[r] = "idle" /\ outcome[r] = None /\ outcome' = outcome
    BY <1>1, <1>t DEF acquireInflight, Settled
  <2>2. Gate!New(r) BY <2>1, <1>h DEF Gate!New, Holders, Rejecting
  <2>3. Gate!Taken = Cardinality(Holders) + Cardinality(Rejecting)
    BY DEF Gate!Taken, Gate!Cardinality, Cardinality
  <2>4. ASSUME pc' = [pc EXCEPT ![r] = "resolve"], MaxInflight > 0 => Gate!Taken < MaxInflight
        PROVE  Gate!Next
    <3>1. \A q \in Requests : pc'[q] = IF q = r THEN "resolve" ELSE pc[q]
      BY <1>t, <2>4
    <3>2. Holders' = Holders \cup {r} /\ Rejecting' = Rejecting
      BY <2>1, <3>1, <1>h DEF Holders, Rejecting
    <3>3. Gate!Enter(r) BY <2>1, <2>2, <2>4, <3>2 DEF Gate!Enter
    <3> QED BY <3>3 DEF Gate!Next
  <2>5. ASSUME pc' = [pc EXCEPT ![r] = "rejecting"], MaxInflight > 0, Gate!Taken >= MaxInflight
        PROVE  Gate!Next
    <3>1. \A q \in Requests : pc'[q] = IF q = r THEN "rejecting" ELSE pc[q]
      BY <1>t, <2>5
    <3>2. Holders' = Holders /\ Rejecting' = Rejecting \cup {r}
      BY <2>1, <3>1, <1>h DEF Holders, Rejecting
    <3>3. Gate!TurnAway(r) BY <2>1, <2>2, <2>5, <3>2 DEF Gate!TurnAway
    <3> QED BY <3>3 DEF Gate!Next
  <2>6. CASE MaxInflight <= 0 BY <1>1, <1>t, <2>4, <2>6 DEF acquireInflight
  <2>7. CASE MaxInflight > 0
    <3>1. inflight = Gate!Taken BY <1>t, <2>3, <2>7 DEF InflightExact
    <3>2. CASE OverLimit(inflight + 1)
      <4>1. Gate!Taken >= MaxInflight BY <1>t, <1>f, <2>3, <3>1, <3>2 DEF OverLimit
      <4> QED BY <1>1, <1>t, <2>5, <2>7, <3>2, <4>1 DEF acquireInflight
    <3>3. CASE ~OverLimit(inflight + 1)
      <4>1. Gate!Taken < MaxInflight BY <1>t, <1>f, <2>3, <3>1, <3>3 DEF OverLimit
      <4> QED BY <1>1, <1>t, <2>4, <2>7, <3>3, <4>1 DEF acquireInflight
    <3> QED BY <3>2, <3>3
  <2> QED BY <1>t, <2>6, <2>7
<1>2. ASSUME NEW r \in Requests, rejectInflight(r) PROVE Gate!Next
  <2>1. \A q \in Requests : pc'[q] = IF q = r THEN "done" ELSE pc[q]
    BY <1>2, <1>t DEF rejectInflight
  <2>2. pc[r] = "rejecting" BY <1>2 DEF rejectInflight
  <2>3. Holders' = Holders /\ Rejecting' = Rejecting \ {r} /\ r \in Rejecting
    BY <1>h, <2>1, <2>2 DEF Holders, Rejecting
  <2>4. Gate!Refuse(r) BY <1>2, <2>3 DEF rejectInflight, Gate!Refuse
  <2> QED BY <2>4 DEF Gate!Next
<1>3. ASSUME NEW r \in Requests, releaseInflight(r) PROVE Gate!Next
  <2>1. \A q \in Requests : pc'[q] = IF q = r THEN "done" ELSE pc[q]
    BY <1>3, <1>t DEF releaseInflight
  <2>2. pc[r] = "return" /\ outcome' = outcome BY <1>3 DEF releaseInflight
  <2>3. Holders' = Holders \ {r} /\ Rejecting' = Rejecting /\ r \in Holders
    BY <1>h, <2>1, <2>2 DEF Holders, Rejecting
  <2>4. outcome[r] # None BY <1>t, <2>2 DEF Settled
  <2>5. Gate!Leave(r) BY <2>2, <2>3, <2>4 DEF Gate!Leave
  <2> QED BY <2>5 DEF Gate!Next
<1>4. ASSUME NEW r \in Requests, Step(r), pc[r] \in Holding, Inner(r)
      PROVE  [Gate!Next]_(Gate!vars)
  BY <1>4, InnerGate
<1>5. ASSUME NEW r \in Requests, Step(r) PROVE [Gate!Next]_(Gate!vars)
  <2>1. CASE acquireInflight(r) \/ rejectInflight(r) \/ releaseInflight(r)
    BY <1>1, <1>2, <1>3, <2>1
  <2>2. CASE ~(acquireInflight(r) \/ rejectInflight(r) \/ releaseInflight(r))
    <3>1. Inner(r) BY <1>5, <2>2, InnerSteps DEF Step
    <3>2. pc[r] \in Holding
      BY <1>5, <2>2 DEF Step, Holding, resolveMembers, poolExhausted, initialized, dialFails,
         dialAnswers, readError, readClosed, readCancelled, timeoutMessage, nextMember,
         errBodyChunk, errBodyEnds, errBodyCancelled, readChunk, timerFires, cancel,
         Reading, Watched
    <3> QED BY <1>4, <1>5, <3>1, <3>2
  <2> QED BY <2>1, <2>2
<1>6. CASE UNCHANGED vars BY <1>6 DEF vars, Gate!vars, Holders, Rejecting
<1> QED BY <1>5, <1>6 DEF Next, Quiescent

\* The executor implements admission: for any number of calls and any cap a call is
\* turned away only while the room is full, leaves once, and is answered once.
THEOREM Admits == Spec => ImplementsAdmission
<1>1. IInv /\ Calls /\ [Next]_vars => [Gate!Next]_(Gate!vars) BY NextGate
<1> QED BY <1>1, InitGate, CallsInvariance, PTL DEF Spec, ImplementsAdmission, Gate!Spec

=============================================================================
