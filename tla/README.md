# A TLA+ model of kilo2dsh

kilo2dsh connects the DSH harness to two model gateways that are free to use
(Kilo, OpenCode Zen). It runs in one of two modes. In *adapter mode* the plugin
speaks to the gateway itself, in TypeScript. In the older *sidecar mode* it runs
a Go agent as a child process and points the harness at the agent's port. This
directory holds TLA+ modules translated from both, the TLC configurations that
check them, and proofs for TLAPS.

Paths below are relative to the repository. `catalog.ts`, `kilo-adapter.ts`,
`budget.ts`, `events.ts`, `messages.ts`, `ids.ts`, `zen-adapter.ts`,
`opencode-*.ts` are in `packages/plugin/src/adapter/`; `index.ts`,
`agent-process.ts`, `config.ts`, `provider.ts` in `packages/plugin/src/`;
`pool.go`, `gateway.go`, `models.go` in `legacy/internal/`.

    tlc -workers 2 -config ModelCatalog.cfg ModelCatalog.tla
    tlapm ModelCatalogProofs.tla

## The system

| Component | State it keeps | Operations | What must hold |
|---|---|---|---|
| Model directory, `catalog.ts` `ModelCatalog` | live models, last error, stopped flag, interval; a cache file shared by all DSH processes | `start` (bounded retries), `refreshOnce`, interval tick, cache save and load, `stop` | stop is final; overlapping refreshes never take the directory back; observers end up with the truth; an outage ends |
| Budget, `budget.ts` | none | token estimate, output ceiling, safety margin, calibration average, `resolveWireBudget` | prompt, answer and margin fit the window; a small prompt is not refused |
| Kilo adapter, `kilo-adapter.ts` | a calibration factor per model, shared by all sessions | `stream` (decision, images, budget, dispatch, usage) | the factor is an average of what was counted; refusals end |
| Stream translation, `events.ts` | ids and names of open tool calls | event to chunk, stop reasons, usage | what a model said can be sent back to it; overflow is told from success |
| Agent supervisor, `agent-process.ts` | child, state, READY answer, crash counter, backoff, timer | `start`, `stop`, `dispose`, `onExit` | no orphan, no restart after a stop, breaker and backoff agree, starts and stops return |
| Sidecar mode, `index.ts` `applySidecar` | supervisor, refresh timer, disposed flag | start once, refresh the provider route, teardown | the route points at the agent that runs; unload leaves nothing running |
| Adapter mode, `index.ts` `applyAdapter` | two independent catalogs and adapters, the fill timers, the optional `modelMeta` service | registration, status files, description fill on every refresh and a few times after boot | descriptions arrive and stay; an unload leaves nothing running |
| Provider route, `provider.ts` | the host's credential and settings | register, remove | credential and route agree |
| Files, `config.ts` | token file, agent config file | `ensureToken`, `writeAgentConfig` | written whole or not at all |
| Zen adapter, `zen-adapter.ts`, `opencode-capabilities.ts` | a memo of the capability document | complete each listing by the document, inject core tools into a request | completing hides and overwrites nothing and offers no more than was declared; known windows stay in use |
| Message conversion, `messages.ts` | none; the history is the harness's | read the images, convert the history | results keep their tool, requests only grow, no text is lost |
| Identifiers, `ids.ts` | none | session id from the first user message | a conversation keeps its session |
| Go exit pool, `pool.go` | per exit: healthy flag, failure count, cooldown, as separate atomics | cursor, `MarkSuccess`, `MarkFailure`, `CheckHealth` | every available exit is tried, once; exits come back |
| Go gateway, `gateway.go` | none of its own | inference with failover, model refresh, health, listing | every request is answered |
| Go model catalog, `models.go` | a map behind a lock | replace whole, route, list | only free models are routed |
| Go conversion, configuration, logs | none of interest | - | - |

Who talks to whom: the model directory is read by the adapter at two moments of
one call, with an await between them; it tells an observer in `index.ts` of each
refresh. Sessions of the harness meet only in the adapter's factor. The sidecar
owns one supervisor and learns of the agent by its READY line and its exit
event. In the agent, request goroutines and the refresh goroutine meet in the
exits' atomics, without a lock.

What is hard: awaits in which `stop()` or another refresh can land; answers
that arrive out of order; a cache file with several writers and no lock;
timeouts that race a late answer (READY, graceful stop); listeners that are
attached after the event or removed by somebody else; counters reset by one
actor and advanced by another; failures of one session that are charged to all.
`PROJECT.json` lists these hazards with their lines and the property that
watches each.

## The modules

### ModelCatalog (and ModelCatalogProofs)

`catalog.ts` 609-728 and 879-1030. An await is a boundary between two actions.
`pc[r]` is where refresh `r` waits: for its listing (`fetching`, `answered`),
for the two halves of the cache write (`saving`: before `rm`; `unlinked`:
before `rename`), for the cache read (`loading`, `loaded`), or nowhere before
it returns (`settled`). `startPc` is where `start()` waits. A slot is reused, so
only the *overlap* of refreshes is bounded, by `Refreshes`. A listing is the
instant it was taken; that is all that the properties need to tell an old one
from a new one. Concurrent saves of one process share a temporary file name, so
the rename may install any listing in flight or a torn file (counted as none).
Another DSH process may replace the file at any time.

`Directory` is what all this promises the rest of the plugin, in four actions: a
refresh begins while the directory is open, moves it only to content at least as
new as what it found, and ends by telling the observer what is served; every
refresh that begins ends. `ModelCatalog` implements it
(`ImplementsDirectory == Abstract!Promise`): open is not stopped, a refresh is
ongoing until it has returned, the observer is `onRefresh`.

### ModelRecords and AdapterMode (and MCAdapterMode, AdapterModeProofs)

`ModelRecords` holds the functions over one record: the free-model predicates,
`decodeKiloModels`, `decision`, `list`, `modelInfo`, what the adapter offers a
model with, and `opencode-capabilities.ts`. The answer a model is offered is the
least of what it advertises, its window, a quarter of that window and the
configured cap (`ModelMax`, in `OutputBudget`, which `WireBudget` shares);
`requireTools` is a constant. A field that a record may lack is a
set of at most one value, so that "is not published" is told from "is published
as nothing", as the code tells `undefined` from an empty list. The spellings of
one field are one field, but for those that the enrichment does not look at:
`nested` and `nestedMax`. So a document may add a limit beside a nested one, and
the smaller binds; and since the answer is a share of the window, a window that a
document gives may shorten an answer whose own limit the listing declared. That
is why `EnrichmentIsAdditive` does not say that offers stay the same: it says
that no field of the listing is overwritten, that no model appears or goes, and
that no offer exceeds a limit the listing declared, wherever it stands; an offer
stays the same where the listing itself decides it.

`AdapterMode` is `applyAdapter` with `enrichingZenFetcher`: per lane the rows,
and several refreshes in flight, each waiting for its listing (`listing`), for
the capability document (`documenting`), for the cache (`loading`) or for the
save that precedes its callback (`settled`). The memo of the document is shared
by the refreshes of Zen, so a refresh that fails may be served by what another
has stored during its await. When refreshes begin, and what the cache file may
hold, is the business of `ModelCatalog`; here a refresh may begin at any time.
`timer` is the chain of fill timers: how many fills came before. `modelMeta` is
looked up once: a service that is absent at boot stays absent, and
`DescriptionsArrive` is said of one that is there and loads late.

### Conversation (and MCConversation, ConversationProofs)

One conversation, turn by turn: `resolveRequestImages`, `toPiContext`,
`conversationSeed` and `toStreamChunks`.
The history grows by what users, tools and other adapters' models say and by the
replies that the harness builds from the chunks; it may be compacted. `turn` is
the reply in progress, its blocks interleaved, `toolIds` is the map of
`toStreamChunks`, `answer` what its block-end chunks have brought. Two fields are
history variables: `said`, what the model really said, and `tool` of a result,
the tool that really gave it; the code has neither, and the properties compare
with them what it reconstructs. `sent` is the last request. A text is a value.

### OutputBudget, WireBudget and KiloAdapter (and MCKiloAdapter, KiloAdapterProofs)

`OutputBudget` and `WireBudget` hold the functions of `budget.ts` in fixed-point arithmetic: a
factor of `f` is `f / Scale`, and divisions round as `Math.ceil` and
`Math.floor` do on the token counts. `Scale` stands for the precision of the
double; with a small scale an average rounds more than the code's does, which
the properties allow for. `KiloAdapter` is `stream()`: `idle`, `resolving`
(the await on images, between the decision and the reading of the model's
record), `waiting` for the gateway, `finishing` (all chunks yielded, the
generator not yet resumed). A session has a *density*, what the gateway counts
per estimated token, and a level, the length of its prompt, which grows with
each answer and shrinks by compaction. The harness's compaction is outside
`packages/`; that it follows an overflow is what the repository's README says
of DSH. The catalog is a lane that moves at any time. `Injected` is what
`decorateZenPayload` adds to a request after its budget is resolved; the gateway
counts it with the prompt, for which it is much beside a short prompt and little
beside a long one.

### AgentProcess (and AgentProcessProofs)

`agent-process.ts` whole. An event of the child runs all its listeners and the
microtasks they resolve in one step. `startPc` and `pc[k]` are the awaits of
`start()` and of each `stop()` or `dispose()` call. `status[c]` keeps what the
code can see of a child: an `exitCode` only after a coded exit, `null` while it
runs *and* after a signal. `hears` keeps the `terminate()` listeners, which
`detach()` removes with its own. `windows` is chosen initially: there the
polite kill is awaited before the listener is attached. The caller of `start()`
is the sidecar, which calls it once, so every later start is a restart.

### DataDir and Sidecar (and SidecarProofs)

`DataDir` is `ensureToken` and `writeAgentConfig` (`config.ts`) as every DSH
process of the user runs them on the same three files: `at[h]` is the await where
process `h` is. A token, and a configuration with it, is named by the process
that generated it. The token file may be found missing, empty, partly written or
unreadable; the content of the configuration is written in one step. `Sidecar` is
`applySidecar` (`index.ts`) with `registerProvider` and `removeProviderRoute`
(`provider.ts`). It instantiates `AgentProcess` and `DataDir`; a step of the
supervisor is a step of the sidecar (`Follows`), which hears the first `start()`
settle and whose ports close when their agent exits. `chain` is where
`startOnce()`, and afterwards the refresh it schedules, waits. `accepts[c]` is
the token agent `c` has read: it reads its file between its launch and its READY
line, when another process may have replaced or removed it. An earlier run may
have left the host a credential, and a route to an agent that is gone; while this
one runs, no other process writes the settings of its host. After the unload the
plugin may be loaded in adapter mode, which removes the route.

### AnonymousPool (and AnonymousPoolProofs)

`pool.go` with the two loops of `gateway.go` that use it. Goroutines interleave
between atomic operations: visiting one exit, judging its health, counting the
failure, storing the cooldown. A cursor is the rotation of the exits that it
still has to visit; where it starts (a hash or a counter) is free. Times are
ticks; what matters of a deadline is what is left of it. `Next()` reads the clock
once for all exits it visits, the model at each visit, so that it may also choose
an exit whose cooldown ends in between. `owed` is a history
variable: the exits that were available ever since a request began and that it
has not tried.

### Recursion

No part of the program: induction over the natural numbers and the existence of
recursive functions, for the proof modules.

## The runs

| Run | Shows | Bounds |
|---|---|---|
| `model_catalog` | the catalog implements `Directory`; safety of overlapping refreshes, saves, stop; `start()` ends, an outage ends, a stopped catalog falls silent | 2 overlapping refreshes, 1 retry, clock 1..2, cache life 1 |
| `model_catalog_cache` (violation) | an old cache replaces a newer live listing | 2 overlapping refreshes |
| `kilo_adapter` | the shared factor, budgets and refusals of two sessions | 2 sessions, 2 prompt lengths, 3000 tokens added by the decorator, window 16384, scale 2 |
| `kilo_adapter_fit` (violation) | a sparse session makes a dense one exceed the window | same, nothing added, honest estimates, scale 4 |
| `agent_process` | supervisor: no lost agent, no orphan, no spawn after a stop, backoff, liveness | 2 stopping callers, 2 live processes, breaker at 4 crashes |
| `agent_restart` (violation) | a restart that fails before READY is the last | same |
| `sidecar` | files, supervisor, registration and unload together: the credential opens the routed agent, no refresh after an unload | 1 other DSH process, 1 dispose, 2 live agents, breaker at 2 crashes |
| `sidecar_unload` (violation) | an unload during startup leaves an agent | same, no other process |
| `sidecar_route` (violation) | after a restart the route keeps the old port | same, no other process |
| `anonymous_pool` | failover: no exit passed over, requests end, cooldowns end | 2 exits, 1 request beside the refresh, one doubling, Retry-After 0 or 2 |
| `adapter_mode` | listings are completed without loss and offered within their limits, known windows stay in use, descriptions arrive and stay, an unload leaves nothing running | 2 overlapping refreshes of Zen beside 1 of Kilo, 2 editions of the document, 4 models, 1 retry of the fill |
| `conversation` | what was said is sent back, results keep their tool, requests only grow, no text is lost | 4 messages, 2 blocks per reply, 1 image, 2 call ids |

Why the bounds are enough. Two overlapping refreshes give every order of two
listings, two saves and a load beside a save; the third would only repeat one of
them. Two instants tell an older listing from a newer one and a fresh cache from
an expired one; the safety proofs cover any number of both. Two sessions with
opposite densities reach both limits of the factor. Four crashes reach the
maximum delay, a stable run at every count, and the breaker. Two stop calls give
one that listens and one that finds nothing to stop. One other process can
replace any file of ours at any point, and a breaker at two crashes lets one
agent be restarted, again and again if it runs stably in between. With two exits a request
can fail over, and the refresh can heal or condemn the exit it has left. In the adapter mode
two refreshes of one lane give every order of a document that arrives, fails or
ages, and of two callbacks; Zen's listing names one model twice, declares limits
at the top, nested, or one of the two only, and the documents give, deny and leave
out a limit, above and below the listing's. A prompt that the decorator makes much
heavier when it is short and little when it is long teaches the factor two ratios
in one session. Four messages are a question, a reply with
calls, their results, and a second reply or question that may reuse an id; two
calls may be streamed side by side. The
number of doublings is 1 instead of 3 in the larger run: the exponent only
scales the delay.

Deadlock is not checked for `ModelCatalog` (a stopped catalog at the last
instant), `AgentProcess` (a stopped supervisor), `Sidecar` and `AdapterMode` (an
unloaded plugin): they really stop.

### Disagreements found

* `catalog.ts:716` says a cached catalog never replaces a newer live snapshot.
  The size test is before the await on the cache, the assignment after it; a
  second refresh can install a live listing in between.
* `kilo-adapter.ts:456` says input and answer can never exceed the window. The
  factor is shared by all sessions of a model, and a sparse one halves the
  estimate of the next.
* `agent-process.ts:195` says a failed restart schedules the next one by the
  exit path. It has no exit path: `onExit` is attached after READY only.
* `index.ts:409` says that an unload reaps the agent. During the awaits on the
  token and the configuration there is no supervisor yet; `startOnce()` goes on
  afterwards and starts an agent that nobody stops.
* `provider.ts:112` says the route reflects the running agent. The refresh keeps
  the port of the first READY line; a restarted agent listens on another.

Seen while modelling, and not the subject of a run:

* `dispose()` may never return (`agent-process.ts:214`): after a crash by signal
  `exitCode` is null, so it waits for an exit that is over. `StopReturns` speaks
  of running agents only.
* A single default exit never comes back (`pool.go:104`): one timeout marks it
  unhealthy, only an answer over it could undo that, and it is not tried.
  `CheckHealth`, which would, is called by its test alone.
* The chain of fill timers ends at the first kick if no live row is there yet
  (`index.ts:237`), and one that `retryFill` has set survives the unload
  (`index.ts:239`). `modelMeta` is looked up once, where the comment at
  `index.ts:281` says that every refresh looks again.
* A capability document that parses to nothing replaces the memo for six hours
  (`catalog.ts:819`).
* Limits spelled `context` or `output` are read by `modelInfo` and overlooked by
  the enrichment, so a smaller one of the document wins
  (`opencode-capabilities.ts:130`).
* Images within tool results and system messages are read and charged 3200
  tokens each, and never sent (`messages.ts:264`).
* An image in an assistant message makes every later turn throw
  (`messages.ts:117`).
* Two conversations with the same first user message share a session, and a
  compaction that replaces it changes the session (`ids.ts:32`).
* The tools injected on the Zen lane are counted by the gateway and not by the
  estimate: a short chat teaches the factor 4, after which a prompt of 40000
  tokens is refused in a window of 131072.
* Status files are written without waiting for the write before
  (`index.ts:86`), so an older one may be the last.

## Fairness

* `ModelCatalog`: each refresh in flight and `start()` proceed (weak). Node runs
  what is ready, and every fetch ends, but with one assumption: the timeout of
  `fetchWithTimeout` is cleared when the headers arrive (`catalog.ts` 1009), so
  a body that stalls for ever is excluded. Ticks, the gateway and other
  processes are not fair; `RecoversFromOutage` assumes the gateway back for good
  in its own statement. The interval is fair while it is set.
* `KiloAdapter`: a call that can run runs; a refused session calls again, and
  compacts infinitely often if it infinitely often can (strong, because the call
  in between disables it). Nothing is assumed of the gateway.
* `AgentProcess`: timers fire (handshake, grace, backoff), a launched `taskkill`
  ends, and a forced kill kills. An agent may run, or be silent, for ever.
* `Sidecar`: that of `AgentProcess`; timers fire and requests end (weak). That a
  request which can infinitely often succeed does (strong) only serves
  `sidecar_route`, so that the counterexample is not a row of lost requests.
* `AdapterMode`: refreshes begin and go on (weak: the interval ticks, and fetches
  have timeouts), and timers fire. Nothing is assumed of the gateways, the
  document or `modelMeta`.
* `Conversation` has safety properties only.
* `AnonymousPool`: time passes and every attempt ends, because both contexts
  have deadlines (`gateway.go` 227 and 442). No request needs to begin.

## What is proved

The proofs hold for all values of the constants that satisfy the named
assumptions in the modules. Every invariant and every action property of the
passing runs has a theorem. TLC does not evaluate the invariants and action
properties that are stated in the `...Proofs` modules only; each was checked
with TLC on the instance of its component's run before it was proved.

* `ModelCatalogProofs`: type correctness; `NoTimerOnceStopped` and
  `NoRefreshOnceStopped` (the interval is only ever set by a `start()` that asks
  again); `NoRefreshRegressesItsStart` (each refresh remembers in `held` the
  content it began with; a listing taken after that is not older, and a cached
  one is installed only over content that cannot be newer than its own start);
  `ObserverIsCurrent`; and that with one refresh slot the comment on the cache is
  true, so that overlap is the cause of its violation. `ImplementsTheDirectory`:
  every step maps to a step of `Directory` or leaves it alone.
  `PollingGoesOn`: the interval is alive exactly from the end of `start()` to
  `stop()`, and `start()` waits only for a refresh in flight.
* `KiloAdapterProofs`: type correctness; `CalibrationInHull` (an average of two
  values lies between them, clamping is monotone, so the factor stays between
  the least and the greatest density learned); `FitsUnlessDiluted` (the
  invariant adds that the factor is at least the least density known at
  dispatch); and two facts about `resolveWireBudget` alone.
* `AgentProcessProofs`: `TypeOK`, `NoLostAgent`, `NoOrphanOnceStopped`,
  `NoSpawnOnceStopped`, `BackoffMatchesCrashes`. The second and the third are
  not inductive. The invariant `IInv` adds
  `Waits` (a caller waits for `this.child` or for one that a `start()` gave up),
  `Ended` (a stop leaves `stopping` set and no timer) and `Shepherd` (while a
  restart is to come no agent runs and the breaker has not tripped; a racing
  `start()` has a running child). `Shepherd` is what makes a launch safe;
  `Waits` is what makes the return of one caller speak for all agents. The
  schedule of delays is a recursive function, so `BackoffMatchesCrashes` first
  needs that there is one with its equations (`ScheduleDoubles`, from
  `Recursion`), and `Shepherd`: an agent can only crash below the limit.
* `SidecarProofs`: `SidecarSupervises` (each step of `Sidecar` is a step of
  `AgentProcess` or leaves its variables alone), by which the theorems of
  `AgentProcessProofs` are used inside the sidecar; `TypeOK`,
  `NoRefreshOnceUnloaded`, and `CredentialOpensAgent`. For the last the invariant
  says that our token is final before it is used (`Prepared`), that a closed
  port never opens again (`Ports`), that what a listing confirmed stays true
  (`Heard`) and that the credential is ours when a route is about to be set and
  while its agent runs (`Stored`; what an earlier run left may be another's).
  `UnloadFollowsUp` says what is true of `UnloadReapsAgent`, which a run refutes:
  an unload that finds a supervisor follows its agent up.
* `AdapterModeProofs`: `EnrichAdds`, for every listing and document (a document
  fills only what is missing, so the record keeps its limits, and the least of
  limits that include the declared ones is none above them; the share of the window
  and the configured cap only lower it); `TypeOK`;
  `DescribedAtRest` (beside it the invariant says only that a lane is current once
  `modelMeta` has loaded; a refresh that installs bare rows owes its callback); `EnrichmentIsAdditive` and
  `KnownWindowIsUsed`, which follow from the facts about one listing.
* `ConversationProofs`: `TypeOK`, `ResultNamesItsCall`, `ReplayIsFaithful`,
  `DeltasKeepTheirCall`, `RequestsOnlyGrow` and `TurnSendsItsText`. The invariant says of each result
  that its call stands in the message before it (or that a compaction has taken
  it), which makes it the latest of its id, and that only users' messages hold
  results; of the reply in progress, that `answer` holds what its
  closed blocks have become, `toolIds` the id of each call or none, and that the
  history it answers is one that `toPiContext` did not throw at; of `sent`,
  that it is a prefix of the history. That the conversion of a message depends on
  the messages before it only is a lemma (it fails for a conversion that looks at
  later calls). The last property speaks of the blocks a filter picks from a
  sequence, a recursive function over its length; by induction a filter keeps each
  picked element and adds no other.
* `AnonymousPoolProofs`: `NoExitPassedOver` (what a request is still owed is
  among what its cursor has not visited); `TypeOK`, whose bound on cooldowns
  follows from the growth of the doublings, by induction; `ExitsAreTriedOnce` (a
  cursor begins with each exit once and only loses some).

`Recursion` is what those inductions rest on. The library's induction theorems
take an operator, which the provers cannot instantiate; here they are stated of
sets and functions. Every set of natural numbers that is not empty has a least
element (well-foundedness); so a set that has 0 and each successor has them all;
so the beginnings of a recursive function exist and agree; so the function
exists.

Liveness is out of the prover's reach, but what makes it true is not. For the
liveness properties these theorems give, for all constants, that the way to the
end is finite and that somebody is always to take the next step; that it is taken is
the fairness, and stays with TLC.

| Liveness (TLC) | Proved |
|---|---|
| `StopLeavesNothingRunning` | `StopIsFollowedUp`: a running agent has been killed or a caller is about to kill it; `StopWindsDown`: no step goes back |
| `StartFinishes`, `StopQuiesces`, `RecoversFromOutage` | `CatalogAdvances`: a refresh and `start()` only move on; `PollingGoesOn` |
| `StopReturns` | `ListenersAreHeard`: once a stop listens outside a start, nothing takes its listener away before it returns |
| `UnloadQuiesces` | `UnloadWindsDown`: refreshes and fill timers only run down |
| `RefusalIsNotForever` | `RefusalsMakeRoom`: a prompt that is small enough is never refused, and a refused one does not grow |
| `RequestEnds` | `RequestsAdvance`: at most five steps for each exit |

Only model-checked: the liveness properties themselves, among them `StartSettles`,
`CooldownEnds` and `DescriptionsArrive`, of which nothing is
proved; and the liveness half of `ImplementsDirectory`.

## What is not modelled

* The estimate of a request (`budget.ts` 60-390), from the character classes of
  `estimateTokens` to the envelopes of `messageTokens`: that it is at or above the
  gateway's count is a measurement, which the repository makes sample by sample and
  no model of the gateway could replace. Here the estimate of a prompt is a
  constant, and the gateway may count more. The Zen encoding of a session id
  (`ids.ts` 62-118) is arithmetic on single characters.
* Writes of other processes to the host's settings: a second DSH process that
  shares them would replace the credential and the route.
* Tool schemas, headers and identities (`opencode-tools.ts`,
  `opencode-identity.ts`): constants. The choice of the wire API
  (`zen-adapter.ts` 87-113): a predicate on names.
* Status files: diagnostics that nothing in the program reads.
* The Go agent's own model catalog, protocol conversion, authentication,
  configuration, logs and start-up: what the plugin sees of the agent is the
  child of `AgentProcess`; the catalog is a map replaced whole behind a lock, and
  the free-model predicate is the twin of the one in `ModelRecords`.
* `config.ts` 215: a crash between `rm` and `rename` leaves no agent
  configuration until the next start writes one. `catalog.ts` 1010: a body that
  stalls after its headers is excluded by the fairness of `ModelCatalog`.

What would add most next: the usage observer of `stream.go` (lines cut at
arbitrary chunk boundaries), and a crash of the process in `DataDir`.
