# Models and proofs of the Command Code provider plugin

This directory holds TLA+ models of the plugin in `src/`: a Go library loaded by
CLIProxyAPI through a C ABI that serves OpenAI-style requests from the private
`/alpha/generate` protocol of commandcode.ai. Each component with state has a
module, each module has TLC configurations, and the safety properties that do
not depend on the size of the instance are proved with TLAPS,
except two about routing. `PROJECT.json` lists components, runs, mutants, the map from
definitions to source lines, the findings and the hazards.

    tlc -config MCExecutorCalls.cfg MCExecutor    # one run
    tlapm ExecutorProofs.tla                      # one proof module

## The system

| part | code | state | operations |
|---|---|---|---|
| executor | `executor.go` | in-flight counter, counter of timeouts in a row | `Execute`, `ExecuteStream` (admission, failover over the keys, read of the answer), `CountTokens`, `HttpRequest` |
| key pool | `pool.go` | cached proxy clients, a random source | `order`, `clientFor`, `retryable` |
| stream relay | `executor.go` (`streamLoop`), `cmd/commandcode/abi.go` (`readHostHTTPStream`, `pumpABIStream`) | three goroutines, two channels, one idle timer | read from the host, parse, emit to the host |
| wire protocol | `protocol.go` | `ccStreamState`, `ccAccumulator`, one of each per response | `parseLine`, `feed`, `build`, status and reason maps |
| session manager | `session.go` | sessions and initialisation state by key | `ensureInitialized`, `sessionFor` |
| plugin instance | `plugin.go`, `models.go` (`startRefresh`, `Close`), `cmd/commandcode/abi.go` | `abiState` (host, plugin), one refresh worker per instance | register, reconfigure, shut down, call |
| managed auth files | `managed_auth.go`, `cmd/commandcode/managed_auth.go` | files of the host's auth directory | list, save, remove |
| model catalog and routing | `models.go`, `router.go`, `config.go`, `translator.go` | the snapshot of the provider's model endpoint | `ModelsForAuth`, `refreshHTTP`, `RouteModel`, name rewriting |
| request translation | `request.go`, `anthropic.go`, `responses.go`, `translator.go` | none; the conversation it rewrites is the client's | `TranslateRequest`, `buildCcRequest` |
| auth provider | `auth.go` | none; the records and the file are the host's | `ParseAuth`, `RefreshAuth` |
| configuration | `config.go` | none once parsed | `members`, `endpointForRequest`, cooldown policy |
| fingerprint, JSON helpers | `fingerprint.go`, `json.go` | none | pure functions |

How they interact. The host calls the plugin from any number of threads
(`CommandCodePluginCall`, always with `context.Background()`). An executor call
takes the current instance under the read lock, takes a slot of that instance's
counter, asks the session manager to introduce the key upstream, and sends the
request through the host's HTTP client or, for a key with a proxy, its own. A
streamed answer goes through a reader (`readHostHTTPStream`, or the goroutine of
`stdDoer.doStream` for a key with a proxy) → unbuffered channel →
`streamLoop` → channel of capacity 1 → `pumpABIStream` → the host's sink, and the
slot travels with `streamLoop`. A registration builds a new instance, exchanges
it under the lock, stops the worker of the old one, and after the unlock brings
the managed auth files in line. The catalog snapshot is written by the refresh
worker and by the discovery of every auth record, and read by both the lists
advertised to the host and the router. An auth file becomes one record per key,
which the host schedules, refreshes and may save over the file it came from. A
client sends the whole conversation with each request, in its own format, and
what it sends is made of what the plugin has answered before.

What is hard to get right and hard to test: concurrent admission and the hand-off
of the slot; the idle timer against a slow consumer; three goroutines that end in
any order; chunk boundaries anywhere in a line; two readers of one protocol that
have to agree; evictions during an initialisation; overlapping reconfigurations,
each a sequence of fallible callbacks; a shared snapshot that changes after it
was advertised; an auth file that goes through many loads, saves and refreshes;
and a conversation of several turns through three formats. `PROJECT.json` lists these under `hazards`, each at its line.

What makes each part correct: the cap is respected and no slot leaks (executor);
another key is tried only after a failure worth one, and the caller is told the
last (failover);
payloads arrive in order and a truncated stream never looks complete (relay);
where chunks end does not matter and both readers agree (protocol); a session
lives its time and a key reports one device (sessions); no worker is orphaned,
files match the configuration, a user's file is never touched (lifecycle); an
advertised model leads back to the model it stands for (catalog); a pool keeps
its keys and every key its settings, whatever the host saves (auth records); the
upstream is told the conversation as it was (translation).

## The modules

| module | models | state ↔ code |
|---|---|---|
| `CCErrors` | `retryable`, `ccStatusMap` | no state |
| `Executor` | `Execute`, `ExecuteStream`, `collectNonStream`, `readStreamErrorBody`, the waits of `streamLoop` | `inflight`, `timeouts` are the fields; `members` are the entries of the pool, `pool` the positions still to try; `pc`, `cur`, `lastErr`, … are locals of each call; `attempts` is history |
| `Admission` | what the executor promises: a room with `Cap` places (abstract) | refined by `Executor` |
| `StreamRelay` | the three goroutines of one stream, with either kind of reader (`via`) | `rd`, `lp`, `pp` are their positions; `out` is the channel; `fired` is `timer.C`; `upstream` and `sink` are host streams |
| `Relay` | what one stream promises: a source, a client and one close (abstract) | refined by `StreamRelay` |
| `CCProtocol` | `parseLine`, `feed`, `build`, the verdicts | records with the fields of `ccStreamState` and `ccAccumulator` |
| `Normalizer` | one response read by both readers, cut into chunks anywhere | `streamPending`, `accPending` are the two `pending` buffers |
| `RequestTranslation` | `TranslateRequest`, both converters, `buildCcRequest` | no state; requests and messages are records |
| `Conversation` | the loop of a client: answer, tools, next request | `history`, `format`, `opening` are the client's; the response is `Normalizer`'s |
| `SessionManager` | `sessionManager` with concurrent requests | `sessions`, `keyState` are the maps; `now` is time in ticks |
| `PluginLifecycle` | registrations, shutdown, file synchronisation, refresh workers, the per-instance counter | `plugin`, `hostUp` are `abiState`; `dir` is the auth directory; `stop` the stop channels |
| `ModelCatalog` | the catalog, the lists per auth record, routing | `dynamic` is the snapshot; `offered` what the host was last given |
| `AuthRecords` | from an auth file to the key, proxy and address of a call: `ParseAuth`, `RefreshAuth`, `members`, `clientFor`, `HttpRequest`, `ManagedAuthFiles` | `file`, `records` are the host's; `cfg` the instance's configuration; `clients` is `pool.clients` |
| `MC…` | instances for TLC | |
| `LeftFold` | how a loop over a sequence can be reasoned about: theorems about `FoldLeft`, for any body | no state |
| `…Proofs` | theorems about the module of that name; `KeyProofs` is about `AuthRecords`, `SessionManager` and `ModelCatalog`, `ConversationProofs` about `Normalizer` and the readers, `TranslationProofs` about `RequestTranslation`, and `HistoryProofs` puts the two together for whole conversations | |

`Normalizer` composes `CCProtocol` with the splitting of both readers, and
`Conversation` composes `Normalizer` with `RequestTranslation`: the answers in its
history are what the two readers have made of the responses, and the identifiers
of its tool calls are the ones the plugin has given or passed on. The others
meet at an abstraction: in `Executor` a 2xx body is a number of chunks and a
verdict (which ones are possible is `CCProtocol`'s business) and the consumer of a
stream keeps reading; `StreamRelay` has the consumer that does not, and numbers
payloads instead of parsing them. `Executor` passes over `ensureInitialized` in
one step, which is `SessionManager`. `PluginLifecycle` has the counter of each
instance with admission in one step; the two-step admission is in `Executor`.

One action is one atomic access to shared state or one return from a blocking
call. A critical section is one action with all it does. Exceptions: the random
choice of `pool.order` is made one member at a time (every weight is at least 1,
so every permutation is possible); and `CommandCodePlugin.Build` with the start
of its worker is one action, as nothing of it is visible before.

Modelling decisions worth knowing:

- `timer.Reset` drops an expiry that was not received: `go.mod` says Go 1.26, and
  that is what timers do since 1.23. Likewise `<-timer.C` after a failed
  `timer.Stop` in `startRefresh`.
- Through the ABI no context is ever cancelled from outside, so `StreamRelay` has
  no such action; `Executor` has it (`Cancellable`), since the Go API takes any
  context.
- `StreamRelay`'s timer expires while the loop waits for the upstream or is held
  up in `emit` by a full channel and a host call in progress. It does not expire
  while the loop merely has not been scheduled yet; idle periods are seconds.
- The 4 MiB branch of `streamLoop` splits a buffer without a newline, which
  changes nothing, and has no counterpart.
- Names in `ModelCatalog` are pairs of namespace and base. Case, spaces and the
  suffix in parentheses are left out; `normalizeModel` drops the namespace.
- `Conversation`'s client is not in this repository. It keeps what it is sent and
  writes it back the way its format does: OpenAI messages, Anthropic blocks with
  the results in the user's next message, Responses items. A text is a sequence of
  tokens, joined but never cut.
- In `AuthRecords` the spellings of a field and the space around it are gone: a
  field is a value or `""`. Positions of the pool are those of its members; which
  one is tried first is any choice, as in `Executor`.
- In `PluginLifecycle` files of a configuration are named by the key. Files that
  cannot be parsed, that have no path, or that carry another marker are all
  `Foreign`.

## The runs

Passing runs:

| run | question | instance |
|---|---|---|
| `ExecutorCalls` | is the counter exact on every return path, the cap respected, the timeout count right; when is another key tried, what is the caller told, do reads of bodies end; is it an `Admission`? | 1 + 1 calls, 1 slot, lists of up to 2 entries (a key listed twice, with and without a proxy; a key with an unusable proxy), statuses 200, 401, 403, cancellation |
| `StreamRelayFaults` | order, truthful close, no abandoned stream or reader, slot free at the end, every stream ends; is it a `Relay`? | both kinds of reader, 2 reads, up to 2 payloads each, abort, stall and shutdown at any time, an upstream that may fall silent |
| `ConversationTurns` | do cuts matter, do stream and message agree, do both readers reach the same verdict on a disciplined response; does the upstream get the conversation that took place, with the right tool on every result? | all responses of up to 4 lines from 7 kinds of content, and of up to 3 lines from 20 that end in every way, chunks of up to 4 pieces; then 2 replies in each of three formats, with two more kinds of response |
| `SessionManagerEvicting` | one device per key, sessions stick, initialisations are fresh | 2 requests, 2 keys, cap 1, clock to 3 |
| `PluginLifecycleRegistrations` | does a registration that went through leave exactly its files; no orphan worker, foreign files kept, replaced workers end | 3 configurations; two registrations and a shutdown, one after the other with failures and a request, or all at once |
| `ModelCatalogRoutes` | does an advertised model lead home? | 4 configured models in every form, 2 auth records, listings with new, known and unusable items |
| `AuthRecordsSaved` | does the pool survive, does every entry keep its settings, does every call go out with its own key through its own proxy, does a disabled key stay unused? | 6 files (pools with overrides, defaults, gaps and disabled entries, one with nothing else, single keys), 3 configurations with their managed files, one proxy that is refused |

What the properties say that a test would hardly reach:

- `ImplementsAdmission`: a call is turned away only while the holders and the calls
  just turned away fill the cap; calls that have left never count.
- `ImplementsRelay`: the goroutines, channels, timer and blocking host calls of a
  stream look from outside like one source and one client.
- `ConversationArrives`: every text, picture, call and result is told once and in
  order, whatever the format and whether the answers were streamed or collected.
- `ResultsNamed`: a result that the upstream gets follows its call and names its
  tool. Excepted are calls of a collected response without an identifier of their
  own, where the plugin's identifiers may collide (see below).
- `PoolSurvives`, `OwnSettings`: a record saved over the file of all leaves the
  file its keys, and what it brings up to the file only fills gaps of the others.
- `DialsOwn`: clients are shared by all records, as each scheduled record has the
  first position of a pool of one; the proxy in the cache key keeps them apart. A
  file whose whole pool is disabled and which is scheduled as such is the one
  exception to *own* (see below).
- `DisabledStays`: a key that was written as disabled is not used.

Why the bounds are enough. The counter interacts only through its value: one slot
and two calls give a rejection next to a holder, and the theorems have no
bound. Failover has entries that answer well or badly and one without a client; a
key is listed twice since nothing removes duplicates (`config.go:306`), and its two
entries are dialled one after the other. The
relay's channels hold one item each, so two reads of two payloads fill every
place and leave some in the queue; the abort takes a third read, for a payload
that waits behind a full pipeline. A line is two halves and a newline, which has every
kind of cut; four lines give two content lines of different kinds around junk
and an end. In a conversation two replies are the least that put an answer, its
results and another answer into one request; the first response has up to three
calls without identifiers, the second one with and one without. Two requests and
two keys are what an eviction race takes (one initialises, the other evicts), and
three ticks let a session expire after its
shortest and before its longest life. Two overlapping registrations are the
smallest race; one after the other they let a failure be followed by a repair. A
pool of three entries, of which one sets everything, one nothing and one is
disabled, lets every setting leak that can; the state of `AuthRecords` has no
counter, so its runs are of any length, and its properties have theorems.

Fairness. Goroutines are scheduled, a ready `select` case is taken, a timer that
is not reset fires, and a host call returns: weak fairness of each of those
actions. In `Executor` nothing is assumed of the upstream or of the host: posts and
dials need not return (a proxied key's client has no timeout, `pool.go:198`), bodies
need not end. What the plugin itself sees to is `ReadsEnd`: a 2xx body that falls
silent is ended by the watchdog, an error body that does only by its caller's
leaving, which no call through the ABI does. In `PluginLifecycle`
the stop of a worker has strong fairness: the `select` picks at random between a
ready stop channel and a ready timer, so it does not pass over the stop for ever.

`CHECK_DEADLOCK FALSE` is used where the system may really stop: the host makes
no more calls (`PluginLifecycle`), or goroutines block for good after the client
has left (`StreamRelay` with aborts and stalls, which is itself a finding).

Every property of a passing run has a mutant: a plausible error in a mapped
definition that makes TLC find the property violated.

### Where code and documentation disagree

Each of these runs states what the documentation or a comment promises, and TLC
finds it violated by what the code does.

| run | promise | what the code does |
|---|---|---|
| `StreamRelayAbort` | client abort propagation, in-flight caps (README) | after an abort `streamLoop` blocks with its slot |
| `NormalizerBrokenOff` | incomplete-stream 502 mapping (README) | a `finish` that names an upstream failure, with output tokens in its usage, is a 502 when collected and a success when streamed |
| `SessionManagerDevice` | one API key always reports one device (README) | an eviction during the posts leaves a null fingerprint |
| `PluginLifecycleCap` | process-wide cap (`max_inflight`) | the counter belongs to the instance |
| `AuthRecordsCooling` | a managed file's `false` forces cooldowns on (`managed_auth.go:36`) | `ParseAuth` overwrites it with the plugin-wide policy |

Known disagreements that no run states, met while the models were written. They
are read off the code, or come from TLC runs of an instance not kept here:

| where | promise | what the code does |
|---|---|---|
| `executor.go:577` | idle watchdogs (README) | an error body is read without a timer: if the upstream holds it open the call and its slot wait for ever |
| `session.go:154`, `pool.go:198` | idle watchdogs (README) | for a proxied key the introducing posts and the wait for response headers have no timeout, and hold the slot |
| `protocol.go:169` | zero-output 429 guard (README) | a response with a `finish-step` and no `finish` is a 429 when streamed, as output tokens are counted at the `finish` only, and a success when collected (`executor.go:302`); `Disciplined` leaves such responses out |
| `executor.go:441` | *read* idle timeout (`stream_idle_ms`) | the timer runs on while the consumer is slow |
| `cmd/commandcode/abi.go:467` | idle watchdogs (README) | the host reader, blocked in its send, and the host stream outlive the watchdog; the reader of a proxied key does not (`ProxiedReaderEnds`) |
| `config.go:460` | drop stalled clients (`client_drain_timeout_ms`) | the option is never read |
| `executor.go:282` | normalises the NDJSON stream | an unterminated last line is dropped when not streaming, and parsed when streaming |
| `cmd/commandcode/managed_auth.go:37` | managed files are removed with their key (README) | a failed callback is logged and not tried again |
| `cmd/commandcode/abi.go:387` | the same | of two overlapping reconfigurations the one that lost may save last |
| `config.go:178` | an alias maps to the vendor's name | an alias from the endpoint is sent upstream as it is |
| `config.go:191` | vendor namespaces are preserved (`models.go:549`) | two configured models of one base name are rewritten to the last |
| `models.go:377` | aliases of an auth record are not discarded | they are, once the endpoint lists the model |
| `auth.go:54` | keep the source pool intact (`auth.go:48`) | the keys survive, but a saved record's `disabled`, `proxy_url` and `base_url` become the file's, and so reach entries that set none |
| `protocol.go:298` | tool calls have identifiers of their own | calls of one collected response without an identifier get one and the same, and a result may be given the other's tool name |
| `request.go:299` | the upstream has names of its own for some tools (`toolNameAliases`) | they are used in `tools` only: history and `tool_choice` keep the client's names |
| `responses.go:62` | the conversation is sent as it is | reasoning without a text or call is dropped; of two texts in a row the second replaces the first |
| `config.go:312` | the scheduler's choice is preferred to the configured keys (`config.go:310`) | a scheduled file whose pool is all disabled chooses nothing, and the call goes out with a configured key |
| `models.go:384` | each configured model is advertised by its alias | one of two aliases is missing for an auth record with models of its own |

## The proofs

| theorem | property |
|---|---|
| `ExecutorProofs!TypeCorrect`, `CounterExact`, `CapHolds` | `TypeOK`, `InflightExact`, `CapRespected` |
| `ExecutorProofs!FailoverInOrder`, `FailoverTruthful` | `FailoverOrder`, `FailoverComplete` |
| `ExecutorProofs!HintIsEarned` | `TimeoutsCounted` |
| `ExecutorProofs!Admits` | `ImplementsAdmission` |
| `StreamRelayProofs!TypeCorrect` | `TypeOK` |
| `StreamRelayProofs!NothingLostAlways`, `CloseTellsTheTruthAlways` | `NothingLost`, `CloseTellsTheTruth` |
| `StreamRelayProofs!SlotFreeAfterSuccessAlways`, `NoAbandonedStreamAlways` | `SlotFreeAfterSuccess`, `NoAbandonedStream` |
| `StreamRelayProofs!Relays` | `ImplementsRelay` |
| `KeyProofs!TypeCorrect`, `OneDevicePerKey` | `TypeOK`, `DeviceUnlessRobbed` |
| `KeyProofs!SessionsSticky`, `InitsFresh` | `SessionSticky`, `InitFresh` |
| `PluginLifecycleProofs!TypeCorrect`, `WorkersOwned`, `UnmarkedUntouched` | `TypeOK`, `NoOrphanWorker`, `ForeignKept` |
| `PluginLifecycleProofs!SyncedExactly` | `SyncExact` |
| `KeyProofs!PoolSurvivesAlways`, `OwnSettingsAlways`, `DisabledStaysAlways` | `PoolSurvives`, `OwnSettings`, `DisabledStays` |
| `KeyProofs!DialsOwnAlways` | `DialsOwn` |
| `ConversationProofs!TypeTheorem`, `CutsTheorem` | `TypeOK`, `CutsDoNotMatter` of `Normalizer` |
| `ConversationProofs!VerdictTheorem`, `MessageTheorem`, `RoleTheorem` | `SameVerdict`, `SameMessage`, `RoleOnce` |
| `HistoryProofs!ArrivesTheorem` | `ConversationArrives` |
| `HistoryProofs!ResultsTheorem` | `ResultsNamed` |
| `KeyProofs!CatalogTypeCorrect` | `CatalogTypeOK` |
| `KeyProofs!ConfiguredAdvertisedAlways` | `ConfiguredAdvertised`, for auth records whose models are apart from the configured ones |

Each assumes only what its module assumes of its constants (`ConstantsAssumption`,
`SessionAssumption` in `SessionManager`, `CatalogAssumption` in `ModelCatalog`, in `PluginLifecycle` also `NoneAssumption`,
in `Conversation` also `OpeningsAssumption`: what a client can open with, and
`CallsAssumption`: the upstream names the tool of a call, and gives no identifier to
calls of two tools), except `ConfiguredAdvertisedAlways`, whose
hypothesis is explained below. `LeftFold` has lemmas only.

*Executor.* `TypeOK` is not inductive: that the counter is a natural number
needs that a call about to decrement it has incremented it before, so types
with an integer counter (`Types`) are proved first. The
inductive invariant `IInv` adds `InflightExact` and `CapRespected`: the cap alone
is not preserved by an admission, which compares the counter and not the number
of holders; with the counter exact, an increment that stays within the limit
bounds the holders. Each action either leaves the two sets of calls alone
(`InnerKeepsSets`) or moves one call between them (`NextCounts`), by the
library's facts about the cardinality of finite sets.

*Executor, failover.* No call touches another's locals (`OthersKeep`), so the
invariant is one about each call alone (`CallInv`): inside the loop every attempt
so far was one to go on after, each entry of the list is still to be tried, at hand
or tried, and `lastErr` is the last attempt's (`Trying`); a response is read after an attempt that was accepted
(`Accepted`); a call has an outcome exactly when it is on its way out
(`Settled`). The property about the outcome follows in the one step that
sets it. `Admits` maps the holders to the room, the calls rejected but not yet
decremented to the door, and needs `CounterExact`: what a call compares with the
limit is the number of both.

*StreamRelay.* The invariant says, for each position of the loop and of the pump,
what the channel and the verdict may be (`LoopStage`, `PumpStage`), where every
numbered payload is (`Lines`), and that a reader about to leave has seen to its
stream (`Source`). None is inductive alone: that the channel holds the payload
before the queue's first one (`Lines`) needs that nothing is emitted after the
error item (`PumpStage`), which needs that the loop emits it last (`LoopStage`).
`NothingLost` is the part of `Lines` about `delivered`; the truth of the close is
in `PumpStage`. For the refinement each action is a step of `Relay` or a stutter;
payloads in the channel or in the pump's hand count as sent and not yet got.

*SessionManager.* A key is *robbed* when an eviction takes its state while one of
its own initialisations is between `stateForKey` and the end of its posts; the
history variable `robbed` collects these keys. `SessionManagerDevice` shows that a
robbed key may report a null device; the theorem says that nothing else can make a
key do so. The property is not inductive: the invariant `DeviceInv` adds that a
state of a key not robbed has its fingerprint, and that a request in the posts of such
a key holds a copy of the fingerprint and has a state to write back to. The step
that needs the argument is the eviction (`EnsureSessionKeeps`): it takes states
away, but the keys in flight among them are robbed from then on. `SessionInv` adds that
every session has its type and a lifetime between the shortest and the longest
(`Sessions`): so a session just made is told from none, and what an eviction takes
has expired. It also adds that the mark of a state is bounded by the last
initialisation of its key that was not cancelled (`Marks`), which an eviction keeps,
since it takes mark and state together.

*PluginLifecycle.* `WorkersOwned` needs that a call that is not past its
critical section has not yet been installed or replaced (`Begun`).
`UnmarkedUntouched` needs that the file about to be removed was found to be
managed and, since every managed name is a key, is no foreign file (`OwnFiles`);
that a saved file is one of the configuration's keys is a lemma about
`ManagedAuthFiles`. `SyncedExactly` takes an invariant about one call and one file:
how far the loops have brought it, if nothing has failed (`Brought`). With a host
that waits, no two calls are in progress (`Alone`) and the one past its critical
section is the installed one (`Installed`), so no other call disturbs it, and the
calls done before are no longer installed; that a file which is listed and not
managed can only be a user's (`Marked`) makes passing over it right.

*AuthRecords.* The properties speak of the file as it was written; the invariant
`AInv` speaks of what a later file has *kept* of it: its pool or, if it has none,
its own key with all the key's settings; and that it is disabled (`Kept`). Keeping is what
composes: a file that keeps another has entries at the same positions with the
same keys and settings (`SamePositions`, `EntriesKept`), so what `ParseAuth` makes
of it is right for the other (`ParseKeeps`), and a record's metadata, which a save
makes the file, keep it again (`RecordKept`). Metadata do not keep the file's
`proxy_url` or `disabled` for a pool, which is why the theorems say nothing of
the gaps.

*AuthRecords, the call.* `DInv` adds to `AInv` where keys and clients come from
(`Registered`): a client goes through the proxy in its cache key (`Cached`), so a
shared position does no harm; the file has its own key or one of its entries; and
a managed file is a member of the pool configured now. What a request is answered
with is the same for every caller (`CallOf`: a member of its pool, through that
member's proxy), so what remains is which pool a request has: that of a record is
the entry's key alone (`RecordRequest`), that of a file its key or its usable
entries (`FileCall`), and only if there is neither the configured one. A managed
record's call has the proxy of a configured member because a member without one
means that there is no default either (`NoDefaultProxy`).

*Induction over data.* The readers and the lists of entries are loops over
sequences, in the models `FoldLeft`, which is recursive on finite sets. `LeftFold`
proves what such a loop does, for any body (a constant operator, replaced by the
body where the module is instantiated): the fold over no elements is the
start, over one more it is the body applied to the fold so far, over a
concatenation it is the one fold after the other, and a set of states that
the body keeps is kept by the loop. The library's induction theorems take a
predicate as parameter, which the provers cannot instantiate; here the predicate is
a set of naturals, and that one which has 0 and every successor has all of them
follows from strict inclusion being well-founded on the subsets of a finite set
(`SetInduction`).

*Conversation.* `CutInv` says, in every state, which lines have arrived whole:
`sent ÷ 3` of them, as a line is three pieces. Both readers hold in their pending
buffer exactly the pieces after those, and have parsed and fed exactly those lines
(`ParsePrefix`, `FeedPrefix`), unless the streaming reader has stopped at an error.
One more chunk is one more part of a fold (`FoldConcat`), which is why cuts do not
matter. What the readers make of the lines is then a fact about two folds
over the same script. The types and the numbering of calls are kept by every
line (`StreamOK`). For `SameVerdict` and `SameMessage` the two folds go side by side
(`Sides`): up to the finish line *p* of a disciplined response both have gathered
the same text, reasoning, calls and reasons, at *p* both end alike, and after it
nothing that either still hears changes the message or its verdict (`Before`,
`After`, `Clean`).

*Conversation, the request.* The three converters are related by what a chat request
*says*: the things its messages tell the upstream, in order, and its system texts
(`Says`). Messages one after the other say what each of them says (`SaysConcat`),
and `buildCcRequest` tells exactly what its messages say (`Built`), whatever tool names
its fold has gathered. What a client of a format may have in its history is
`AreTurns`: two answers never follow one another, and a result follows an answer or a
result. For each format, by induction over the turns, the chat request says what the
turns are: an OpenAI message says its turn (`OpenAIArrives`); Anthropic's client merges
turns of one side, so the induction carries the message that the next turn may be
added to (`Wrote`, `ClaudeArrives`); the Responses converter holds an assistant message
back until its reasoning, text and calls have come, so its state counts what is
pending as said (`Reads`, `ResponsesArrives`), and the condition that two answers
never follow one another is what makes this true (else `responses.go:62`). The
invariant `HistoryInv` says that the history is such a conversation; it holds because
what either reader has gathered is an answer (`StreamedIs`, `CollectedIs`, from
`CutInv`) and what a client adds to an answer never ends in one (`ReactionIs`).

*Conversation, the results.* `buildCcRequest` finds the tool of a result by the
identifier of its call, in a map that it fills while it goes through the messages
(`request.go:35-40`), and a later call replaces the name that an earlier one gave to the
same identifier. That the name is the right one is therefore about the identifiers of a whole
history. The invariant `FollowInv` says that every call in it is one of a response to
date, with the upstream's identifier or with one made of the response's number and the
call's index; that every result comes after its call; and that no identifier is that of two
tools, if those of collected responses are the upstream's. It is kept because
the calls of a stream are numbered 0, 1, 2 and so on (`Tokens`, by induction over
the lines), so two of one stream differ in the index and two of different
responses in the number (`MadeApart`), and because a client answers only calls
of the answer before (`ReactionAnswers`). The translation keeps all three: the things a
request says are in the order of the turns (`SpokenAnswered`), and by
induction over its messages the map has the names of exactly the calls so far
(`NamesOK`). The condition of `ResultsNamed` is needed: without it `protocol.go:298`
gives two calls one identifier.

*ModelCatalog.* `CInv` says that the snapshot has one named entry with an alias for
each name, that each is an item some listing has (`Snapshot`), and that what the host
was given was made of entries. `ConfiguredAdvertised` needs that a record with models of
its own has an alias for no configured entry without one, and that no two configured
entries have one name (`OwnModelsApart`; else `models.go:384` loses one of two
aliases). `RoutesHome` and `PinnedRoutesHome` are model-checked in a catalog where
entries that a request can confuse have one name (`Unambiguous`; else `config.go:191`
rewrites to the last) and the endpoint's aliases are of configured models
(`AliasesConfigured`; else `config.go:178` sends the alias upstream). The code prevents
neither clash, so there is no theorem about them: the run shows that the parts fit
together where nothing clashes, with snapshots that change between an offer and a
request. `MCWithoutClashes` has TLC evaluate the conditions.

Only model-checked: the two routing properties, for the reason given, and the
liveness properties, whose fairness, and ENABLED, is beyond this prover.

## Not modelled

- The fingerprint is a hash of key and configuration; the session model needs
  only that it is a function of them. The JSON helpers convert decoded values.
- Configuration parsing: YAML, defaults and the schema shown to the host. Its
  results enter the models as constants; what it is asked at run time is in
  `AuthRecords` and `ModelCatalog`.
- `CountTokens` is an estimate from lengths. `mapReasoningBody` renames fields of
  a response. The builders of Responses objects in `responses.go` have no caller.
- Weights in `pool.order`, which make some permutations likelier but none
  impossible; the transports behind a proxy; headers.
- The decoding of ABI envelopes and the dispatch of stateless methods in
  `abi.go`; the buffered form of a stream without an identifier.
- Display names, context lengths and thinking support in the model lists, and the
  static list of models.
- What the host does during a shutdown while calls are in progress is not in this
  repository, nor is what it translates before it calls the executor:
  `TranslateRequest` answers with the upstream's envelope for every target, and
  `buildCcRequest` applied to an envelope would find no messages, so the models
  take one of the two and not both.

## Plan

Done: every component with state has a module; two abstract specifications
(`Admission`, `Relay`) are refined by the detailed ones, by TLC and by proof; all
safety properties are proved, except the two about routing, which do not hold of every
catalog; `ConfiguredAdvertised` is proved under the condition it needs.

Left, models:

1. The buffered form of a stream in `abi.go`, and the dispatch of methods against a
   shutdown.
2. `pool.order` with weights against a reference definition of a weighted order.
3. A host that translates and then executes, once its contract is known.

Left, theorems:

1. Lemmas about the status maps and the finish reasons of `CCProtocol`.
