# runpod-omp in TLA+

Specifications of the OMP extension that serves models from Runpod endpoints: a
stream dispatcher with retries and fallbacks over three kinds of backend, a
profile configuration shared by several sessions, a control plane used by a
person and by a model, and a cost service with caches. Every definition is
written from the source under `src/src`; the text quoted in comments is the
repository's own. TLC checks the specifications on small instances, and TLAPS
proves their safety for every instance: of the dispatcher, of its compositions
with the queue and the direct transports, of the keys their requests bear, of
profile validation, the configuration, the control plane and the cost service,
of the request a conversation becomes and the message an answer becomes.

Contents: [inventory](#inventory) · [modules](#modules-and-the-code) ·
[runs](#runs) · [fairness](#fairness) · [proofs](#proofs) ·
[departures](#where-the-code-departs-from-its-texts) ·
[not modelled](#not-modelled) · [plan](#plan)

## Inventory

| Component | State it keeps | Operations | Talks to |
| --- | --- | --- | --- |
| Stream dispatcher (`provider.ts`, `createRunpodStream`) | per turn: candidate, attempt, journal entries, the assistant stream; reads the session's profile map | one `run()` per turn: filter the fallbacks, resolve a key, call a transport, back off, replay or fail | transports, key resolver, journal, caller's `AbortSignal` |
| Queue transport (`transport/queue.ts`) | per call: mode, polling deadline | submit, read `/stream`, poll `/status`, sleep | Runpod job service |
| Direct transports (`transport/load-balanced.ts`, `pod.ts`) | per exchange: an abort scope (controller, timer, listener) | look up a pod, call a worker, read its body, probe | worker, pod API |
| Answers (`adapters/openai-shaped.ts`, `parseSse`, `executeStream`, `replayRunpodStream`) | fragments of tool calls by index | decode, reassemble, replay | transports to dispatcher |
| Conversation encoding (`provider.ts`, `adapters/`) | none | normalize, hoist, build the catalog, encode | dispatcher to transports |
| Key resolution (`config.ts`, `transport/types.ts`, `transport/load-balanced.ts`, `index.ts`) | none; a turn keeps the primary's key | four resolvers: of the dispatcher, the transports, a worker's bearer token, the control layer | environment, OMP, a shell |
| Profile validation (`profile-schema.ts`, `serializeProfile`) | none; the errors a session retains | parse a document, a profile, each field; write it again | configuration |
| Configuration (`config.ts`, `commands.ts`, `index.ts`) | two YAML layers; per session the state's map, the map registered with OMP, the default | load, configure, profile add, rm, default, reload | dispatcher (reads the registered map) |
| Control plane (`control.ts`, `operations.ts`, commands) | none of its own; the platform's jobs and pods | queue operations, ping, four pod operations, workers, catalog, billing | Runpod API, dialog |
| Cost service (`cost.ts`, `health.ts`) | two timed caches | estimate, billed, report | control plane, configuration |
| Retry policy library (`policy.ts`) | per run | `executeWithPolicy` | nobody calls it |
| Lifecycle (`lifecycle.ts`) | status text | refresher (suspended), shutdown | cost service |
| Journal, status report | log file; none | append; format | dispatcher; nobody |

What is hard about them, and what makes each correct:

- **Dispatcher.** Two nested loops (attempts, then fallbacks) in one `async`
  function, four kinds of await between which the caller may abort and the user
  may delete a profile from the very map the loop reads. Correct: the stream
  ends exactly once; calls are made in the configured order, within budget, and
  only after a transient failure; nothing is retried after an abort.
- **Queue transport.** A job lives on while answers about it travel; three
  modes downgrade to one polling loop; a job may never end. Correct: what a
  call reports is true of its job, one call submits one job, an abort silences
  it, the TTL ends it.
- **Direct transports.** A timer, a signal and a failure race, and the one that
  is named decides about a retry. Correct: aborts and timeouts are never
  retried, nothing outlives the call, every call ends, and with it the
  turn, though no worker ever answers (two awaits excepted, see `direct`).
- **Keys.** Four functions look for a key, with four orders of precedence, and a
  pod has two keys of different reach. Correct: a worker of a pod gets its
  inference token or nothing, and every other request the key of its own
  profile.
- **Profile validation.** Whether a profile is excluded is decided by the nulls
  its parsers return, what the user is told by the errors they retain. Correct:
  the two agree; what is kept has what the dispatcher relies on; what is written
  reads back.
- **Answers.** Three wire forms take three ways to one message, and the JSON of
  a call's arguments may be cut off. Correct: nothing said is lost, repeated or
  reordered, the events agree with the final message, and a call has the
  arguments its text parses to.
- **Conversation.** OMP puts developer messages anywhere; chat templates accept
  system messages only first and tool results only behind their calls. Correct:
  messages stand where they may, the request is complete, and it extends the
  previous one unless a note had to be hoisted to its head.
- **Configuration.** Several processes share two files, a process may die at
  any moment, and within one process two maps drift apart. Correct: no reader
  sees a part of a file; no command changes what the dispatcher may call.
- **Control plane.** A model's tools and a user's commands act on one platform
  at once, and a profile may be exchanged behind a user's dialog. Correct: only
  what a user confirmed changes it; an operation that is unsupported, or of an
  unknown profile, touches nothing.
- **Cost.** Overlapping reports share caches whose content outlives the
  configuration. Correct: `fresh` re-reads (no command asks for it); a cached
  number has a bounded age.

`PROJECT.json` lists the hazards line by line.

## Modules and the code

JavaScript runs one handler at a time. Throughout, **one action is the code
between two awaits**; what the environment may do in between (abort, delete a
profile, answer, break a connection, let time pass) is an action of its own.

| Module | Models | Correspondence |
| --- | --- | --- |
| `TurnContract` | what a turn promises, without attempts or candidates | abstract specification |
| `Dispatch` | `createRunpodStream` | `pc` is the await `run()` is suspended at; `journal` holds the records of the dispatch journal; `stream` the events that end it; `held` whether `profiles[name]` was still there when read |
| `DispatchProofs`, `QueueTransportProofs`, `ProviderQueueProofs`, `KeyedTurnProofs`, `ConfigStoreProofs`, `ControlProofs`, `CostCacheProofs`, `ConversationProofs` | the theorems about the module each is named after; `KeyedTurnProofs` also about `ProviderDirect`, `ConfigStoreProofs` about `ProfileSchema`, `ConversationProofs` about `Answers` | |
| `QueueTransport` | `executeQueueTransport` and the job service | `phase` is the await, `wire`/`reply` the exchange in flight; the service's actions are external |
| `ProviderQueue` | `Dispatch` over `QueueTransport` | a dispatch begins a call; the call's result is what the dispatcher's await sees; jobs of earlier attempts go on |
| `DirectTransport` | load-balanced and pod transports and the probes of pods | `scope` is the abort scope: off, open, or aborted by whom |
| `ProviderDirect` | `Dispatch` over `DirectTransport`, under one signal | a dispatch begins a call; `transient` is the mark the dispatcher reads; pods are probed without a signal |
| `Keys` | the resolvers of keys | one operator for each; a key is whose it is and where it came from |
| `KeyedTurn` | `ProviderDirect` with its keys | `account` and `token` are the profile's two references, `apiKey` is `deps.apiKey`, `bearer` the authorization on the wire |
| `ProfileSchema` | `parseProfile`, `serializeProfile` | a profile is a function from the paths of its fields to kinds of value; `Errors` is what is retained, `Excluded` what the nulls decide |
| `Answers` | decoding, SSE reassembly, replay | a text is the sequence of wire units it came from |
| `Loops` | a loop over a sequence that pushes some of its elements (`for`, `filter`) | a recursive function, so that it can be proved about |
| `Conversation` | normalization, hoisting, catalog, encoders | a text is the place it was written at; records have the field names of the code, since these travel |
| `ConfigStore` | files, parse, serialize, merge, the guided flows | a profile is what writing it to disk does to it |
| `Control` | `executeControl`, its two callers, the dispatcher of `index.ts` | per caller one operation in progress |
| `CostCache` | `createCostService` with its caches | a set of workers is the endpoint it is of and the time it was told |

`MC*` modules give the constants values. A few definitions stand before the one
they vary (`OneAttemptMore` before `MoreAttempts`, `WriteInPlace` before
`Confirmed`): each is the code with one plausible fault, is used by no
specification, and is put in the place of its neighbour to see the property
named with it in `PROJECT.json` fail.

Some choices of abstraction:

- `Dispatch`: errors are transient, fatal, key or unknown; what a transport does
  with a request is left to the transports' modules. A repeated name in
  `fallbackProfiles` is called twice, as in the code, so fallbacks are positions.
- `QueueTransport`: the clock advances in ticks of the polling interval or less;
  `elapsed` stops one past the TTL, where the code can no longer tell.
- `ProfileSchema`: a value is what the checks tell apart (`int`, `fraction`,
  `zero`, `blanks`, a string by what the code does with it, ...), and an error is
  the field it names. `absent` is a field that is not there; only an object has
  fields (`Raw`). The same form serves for what was written, kept and rewritten.
- `ConfigStore`: one command at a time runs in a session, which is taken of OMP;
  sessions interleave freely. Not so `Control`, where the profiles of a session
  may be exchanged while a dialog waits (`Reconfigured`), since no code of the
  extension rules it out. `Shutdown` is the handler of lifecycle.ts, `Exit` the
  end of the process, which is external.
- `Answers`: a frame carries one fragment of a tool call; one with several stands
  for several frames, as the code takes them one after the other. The JSON text of
  a call's arguments is told by its pieces (`head`, `mid`, `tail`, `whole`), so that
  whether it parses to an object (`IsObject`) depends on which pieces came. A frame
  that is not JSON refuses the answer (`Readable`).
- `Keys`: a bare reference is the variable it names or the key itself, so it
  always gives a key; a command prints something or not. A profile's references
  are chosen when it is called, so that a run covers every way to write them.
- `KeyedTurn` is a layer of its own over `ProviderDirect`, since the keys do not
  matter to the argument about attempts and timers, and its state is large.
  Probes of pods share nothing with a turn but the code: they follow a turn that
  called nobody, which keeps the run small and loses no step of either.
- `Control`: the bodies the platform sends are left out, their status is not.
- `Conversation`: sampling options, the stream flag and the clean-up of tool
  schemas are left out.
- `Answers` and `Conversation` write the loops of the code as `Keep` (a loop that
  pushes under a condition), recursive functions and `FlattenSeq`.

## Runs

All bounds are CONSTANTS of the configurations. Deadlock checking is off where
the thing modelled is meant to stop (a turn, a call, a bounded clock).

| Run | Question | Bounds, and why they are enough |
| --- | --- | --- |
| `dispatch` | order, budget and end of a turn, and the turn's contract | 3 attempts: a first, a middle and a last one. 5 fallback entries with a repeat, an unknown name and the primary itself: each way the filter decides. Every configured name may be deleted. |
| `queue` | is a call's report true, does it submit once, fall silent, end | all modes and faults; 2 chunks, so that an answer may carry a part; a TTL of two intervals, so that a poll may be before, at and after it |
| `provider_queue` | is the composition a fair dispatcher; whose answer is it | 2 attempts and a fallback: three calls, three jobs, any of which may outlive its call |
| `provider_queue_expiry` (violation) | does an expired poll read as an answer | the same |
| `direct` | classification, scopes and end of a direct call; what an abort and a timeout end; which key goes where; whether the turn ends, and what may keep it | 2 attempts and a fallback that may be deleted: a retry and a change of profile, each a load-balanced endpoint, a pod with an address or one to be looked up, with every form of both references and every offer of the session; then probes of pods |
| `config` | whole files; what reaches the dispatcher's map; what parsing keeps, reports and loses | 2 sessions, 2 names, both layers absent, malformed or real, 3 commands or restarts in all: one session writes while another loads, or one writes twice; every property of the run is also proved, for any number of overlapping writes. Besides, about 4100 hand-written entries, each alone in a layer that one session reads and rewrites, or two read. Sessions are symmetric. The entries: three sound profiles with any one field exchanged for any kind of value, or any two spoilt |
| `config_round_trip` (violation) | does a written layer read back | one session, 3 commands |
| `cost` | freshness under overlap | 2 reports of one profile, 2 endpoints, lifetimes of 2 ticks within 3, so that entries expire while used |
| `answers` | do message, events and wire agree, arguments included | answers of up to 3 units, two calls: their fragments can interleave, one of them continue, and either be cut off. Proved for any number of units and calls |
| `control` | who changes the platform; what an operation turned down has touched | one user and one model: every operation and family, and a name of no profile, with and without a dialog, behind which the profile may change. Proved for any number of both |
| `control_pods` (violation) | are confirmed pod commands carried out | the dispatcher the extension builds |
| `conversation` | are requests complete, their messages placed, and extensions of each other | 5 messages: a note can come between calls and results, and a second turn behind them. Proved for any length |

What they show:

- `dispatch`: besides types, the stream has one end (`OneTerminal`), calls stay
  in budget (`CallBudget`), follow only a transient failure
  (`RetryOnlyAfterTransient`), come in order (`FallbackOrder`), and none follows
  an abort but the one whose key was being resolved (`NoRetryAfterAbort`).
  `ExhaustsFallbacks`: a turn fails for a transient reason only when every fallback
  has been called, also when profiles are deleted meanwhile; when it fails for a
  profile that is gone, this is the deleted one and all before it were called.
  `ImplementsTurn` maps the dispatcher to `TurnContract`, including that nothing
  but a key that never comes keeps the turn from its end.
- `provider_queue`: `ImplementsDispatch` says that the composition satisfies
  the dispatcher's *fair* specification: the settling of transports that
  `Dispatch` assumes is what `QueueTransport` delivers.
- `direct`: `DirectEnds` holds without any fairness of the peers, with one named
  exception, the body of a pod lookup; `TurnEnds` with two, that body and the
  command of a `!command` key, for which the turn may wait for ever, abort
  included. A call that its timer ended ends the turn, whatever attempts and
  fallbacks are left (`TimeoutEndsTurn`). This holds of the worker requests of
  looked-up pods too; excepted are the timeout of the lookup itself, which counts
  as transient, and a worker that has already answered 5xx when the timer fires
  over its body. After an abort neither worker nor pod API is
  asked again, though a turn goes through up to three calls of two exchanges
  (`NoWorkerAfterAbort`). The worker of a pod gets its own token from three
  functions each of which would look further for want of one (`WorkerGetsToken`),
  and a fallback never travels with the key kept for the primary's retries
  (`KeyOfItsOwn`).
- `config`: `RegistrationOnlyShrinks` is the fact `Dispatch` relies on when it
  lets profiles disappear, but not change or appear, during a turn.
  `RejectedAreReported` is about `state.profiles` and `state.errors` of a session
  after a load or reload, the doctor's source: of the profiles of the two layers
  each is in the one or named in the other, never both or neither, and a layer
  that could not be parsed is named. `RewriteKeeps`: what `profile add` writes of the
  layer's other profiles reads back, but for the allowlist and for pods. The type
  invariant says that a kept profile is well formed, every field that is read
  without a further check included, which the dispatcher and the transports take
  for granted.
- `cost`: `NeverStale` allows the lifetime plus the time an answer travelled:
  the code stamps an entry when it is stored, not when it was told.
  `FreshRereads` is of reports that are asked to be fresh; `/runpod cost` asks for
  none, so what it shows is bounded by `NeverStale` alone.
- `answers`: `EventsBuildMessage` follows the events as a consumer would. What the
  deltas of a call amount to is its raw JSON text, what the message has is what
  this parses to, and `{}` when a token ceiling has cut it off.
- `control`: `CapabilityFirst` is of whatever the name stands for when it is looked
  up, which may be another profile than the one the user's command was checked
  against. What an operation reports is not a property: for a queue operation the
  code takes any answer for success.
- `conversation`: `MessagesPlaced` is about the places of messages; whether a
  template finds the calls under the name `toolCalls` is another matter (see
  below). `HistoryOnlyGrows` has two halves: behind its head a request always
  begins with the one before, and with its head included unless a note came in
  between. In that case the beginning of the request changes, and with it what a
  worker has cached of it.

## Fairness

- `Dispatch.FairSpec`: weak fairness of `run()`'s own steps, except while a key is
  awaited (`KeyAwaited`): the command of a `!command` reference runs in a shell
  with neither timer nor signal (provider.ts:832-845), and nothing says that it
  ends. The other promises settle: the backoff is a timer, and transports settle by
  the property `CallEnds` of the queue transport; of the direct ones the body of
  a pod lookup is the await for which this is not so. `TurnContract` has the same
  exception: a turn ends, or its key never comes.
- `QueueSpec`: weak fairness of the transport's continuations, of the clock and
  of the service answering or the connection breaking. **Not** of the workers:
  a job may stay queued for ever, and the TTL must end the call. The transport
  gives its fetches no timer of their own, so the service's fairness is a real
  assumption.
- `KeyedTurn.KSpec`: weak fairness of `run()` (`KProvider`), of the transport's
  continuations (`KCalling`) and of an armed timer (`KTimer`). None of the peers,
  and nobody has to abort, delete or probe; `run()` owes nothing while a key is
  awaited. Each of the three is
  a callback of its own to the event loop. `TSpec`, below it, claims safety only.
- `ProviderQueue`: those of its parts.
- `ConfigStore`, `CostCache`, `Control`, `Answers`, `Conversation` claim safety
  only; users and models owe no step.

## Proofs

Eight modules of theorems, checked by TLAPS, for every value of the constants
that the named assumptions allow.

**The dispatcher** (`DispatchProofs`), from `DispatchAssumption` (the model is a
configured name, `MaxAttempts` is a positive number, the list is a sequence of
names):

| Theorem | States |
| --- | --- |
| `TypeCorrect` | `[]TypeOK` |
| `Invariance` | `[]IInv` |
| `EndsOnce` | `[]OneTerminal` |
| `BoundedCalls` | `[]CallBudget` |
| `OnlyTransientRetries` | `[]RetryOnlyAfterTransient` |
| `OrderKept` | `[]FallbackOrder` |
| `AllFallbacksTried` | `[]ExhaustsFallbacks` |
| `AbortStopsRetries` | `NoRetryAfterAbort` |
| `RefinesTurn` | `Spec` implements the safety part of `TurnContract` |

The invariants of the loop are not inductive: each speaks of the journal, while
the next step depends on the loop's variables. `IInv` ties the two together:
`LoopPosition` tells from the journal's last entry where the loop stands,
`NothingAhead` says no dispatch lies ahead of the loop, `BehindTried` that
everything behind a fallback has been tried, and `Calls <= Used` counts calls
against the place reached. A step either writes no dispatch (`QuietStep`: all
facts about dispatches carry over) or writes exactly one, at a place strictly
behind which all others lie (`InvokeStep` and its lemmas). `ExhaustsFallbacks`
needs one more fact, `Missing`: the fallback that was gone when it was read is
gone still, since profiles only disappear; that all before it were called is
`BehindTried`. The refinement maps `pc` and the journal to the contract's
status, last call and call count; the budget conjunct of a `Call` step is where
`Calls <= Used` is needed.

**The queue transport** (`QueueTransportProofs`), from `QueueAssumption`:
`QueueTypeCorrect`, `SubmitsOnce` (`[]OneJobPerCall`), `VerdictHolds`
(`[]VerdictIsTrue`) and `SilentOnceAborted` (`QuietAfterAbort`). `VerdictIsTrue`
speaks of the end of a call, so the invariant `QInv` says the same of an answer
still on its way (`ReplyIsTrue`), which survives because a job's final state
stays and chunks are not taken back (`WorkerKeeps`); `JobOfPhase` tells from the
await whether the job exists.

**The composition** (`ProviderQueueProofs`), from both assumptions:
`RefinesDispatcher` (`PSpec => Spec`, so that all safety theorems above hold of
a turn over the queue transport), `AnswersItsJob` (`[]AnswerIsTheJobs`) and
`QuietTurn` (`NothingSentAfterAbort`). Several jobs now exist, and the argument
goes by the last of them: `JobsOfCalls` says that until the submit of the call in
progress arrives there is a job less than there are calls. That a dispatch
counts exactly one call is taken from the refinement of `TurnContract`.

**Direct turns** (in `KeyedTurnProofs`), from `DispatchAssumption`:
`RefinesDispatcher` (`TSpec => Spec`), `CleansUp` (`[]ScopeEndsWithCall`),
`TimeoutsEnd` (`TimeoutEndsTurn`), `AbortedIsFinal` (`AbortsNeverRetry`) and
`QuietDirectTurn` (`NoWorkerAfterAbort`). The invariant `CallInv` says
where a call may stand, that none between calls has a scope, and that only the
lookup of a pod's address marks a timeout for a retry. It has one case for each
way out of a call, and holds of every call of a turn since a call begins with
all of it reset. It also says that a call whose cause is a timeout or a shape is
not marked, which is what `TimeoutsEnd` needs of requests to looked-up pods.

**Keys** (`KeyedTurnProofs`): `RefinesTurns` (`KSpec => TSpec`, so that the
theorems above hold of a turn with keys), `TokenForWorkers`
(`[]WorkerGetsToken`), `KeyPerProfile` (`[]KeyOfItsOwn`). Both properties speak of
the request on the wire; their invariant `KeyInv` says where its key comes from:
`HoldsKey`, that `apiKey` is what the candidate's reference resolves to while the
turn calls, or waits to call its primary again; `TokenKnown`, that `token` is one
of the profile's references; and `WorkerFact`, what a worker is sent. The backoff
is the hard case: the key outlives the call it was resolved for.

**Profile validation** (in `ConfigStoreProofs`), without assumptions, for every
entry there can be: `ParsedWellFormed`, `ExcludedReported` (excluded if and only if
an error is retained), `WrittenReadsBack` (what is written of a complete profile
that is no pod is accepted and equal but for the allowlist).

**Configuration** (`ConfigStoreProofs`), from `ConfigAssumption` (layers start
whole or absent or malformed, the guided flow builds what its questions allow),
for any number of sessions, names and commands, and any entries in the layers:
`ConfigTypeCorrect`, `NeverCutShort` (`[]FilesWhole`), `ModelsOnlyGo`
(`RegistrationOnlyShrinks`), `NothingDroppedSilently` (`RejectedAreReported`, of
the errors a session retains) and `LittleIsLost` (`RewriteKeeps`). The invariant `CInv` types
what sessions hold and files contain, wherever a command is between reading and
renaming: entries in files, parsed profiles in sessions, and in a document under
way only what can be written (`Storable`), which `GuidedStorable` shows of the
guided flow. The last two theorems are
those of `ProfileSchema` carried to layers.

**Costs** (`CostCacheProofs`), from `CostAssumption` (lifetimes are positive),
for any profiles, endpoints and overlapping reports: `CostTypeCorrect`,
`EstimateIsRecent` (`NeverStale`), `FreshIsFresh` (`FreshRereads`). Both follow
from what is known of an entry when it is stored (`StoredInTime`) and of an
answer on its way (`OnItsWay`). A lifetime of zero refutes `NeverStale`, hence
the assumption; the code's are 15 seconds and an hour.

**The control plane** (`ControlProofs`), from `ControlAssumption` (users are no
models, families are the three there are), for any number of sessions whose users
and models act at once: `ControlTypeCorrect`, `CapabilityEnforced`
(`[]CapabilityFirst`, profiles that are unknown or exchanged behind a dialog
included) and `ChangesAreConfirmed` (`OnlyConfirmedChanges`). The invariant `KInv` says of each
operation how far it is and what it has touched (`Stage`), and who may have asked
for it (`Entitled`). A step replaces one operation by a sound one (`CallStep`), so
that those of the others need no argument.

**The conversation** (`ConversationProofs`), from `ConversationAssumption`, for
conversations of any length, any blocks, profiles and tools:
`MessagesInPlace` (`[]MessagesPlaced`), `NothingDropped` (`[]SameConversation`),
`LatestAsked` (`[]AsksLatest`) and `HistoryGrows` (`HistoryOnlyGrows`, whose half
about the whole request rests on this: if all notes are in a request already, none
came since, and its head is the same, `WholeGrows`). The
invariant (`CInv` there) says that results stand behind the calls they answer,
that a request is that of a beginning of the conversation, and that one at a
worker is of all of it. The rest is about what the pure functions of a request
compute. All of them are loops that keep some elements or join lists, and two
facts settle them: a loop collects the elements at the ascending list of its
places (`KeepAt`, `PlacesList`), and there is only one such list (`OnlyOneList`);
joining keeps every element, adds none and relates any two as their lists are
related (`FlattenFacts`). What a request keeps, and in which order, is then an
equation of sets of places.

**Answers** (also in `ConversationProofs`), from `AnswersAssumption`, for any
number of chunks, frames and indices: `EventsAgree` (`[]EventsBuildMessage`),
`NothingSaidLost` (`[]NothingLost`), `CallsComplete` (`[]CallsReassembled`). The
invariant `AInv` says that a result is that of the units and a message, the
parsed arguments of its calls included, that of the result; what they amount to
is `Transcript`, shown for each of the three forms: the texts and the thinking
of a result, joined, are the units that had some, and its calls those of the
units in order. For frames this rests on `PartsAre`, an induction over frames
whose indices mix in any way. For the events, `FollowedBuilds` follows a
consumer three events at a time through blocks that are counted up from 0, and
`TriplesJoin` shows that thinking, texts and calls together are such a list. It
is the latter that fails if the calls are counted from the end of the thinking.

The prover cannot use the library's induction theorems, which take an operator.
Induction over the turns of a loop is therefore on a set of naturals that has 0
and with each number the next (`NatInd`, which follows from `<` being
well-founded); recursive functions are shown to exist the same way
(`LoopExists`, `FlatteningExists`, `RecursionExists`). What the folds and loops of
`Answers` and `Conversation` compute is so proved for all inputs.

Only model-checked: all liveness, with the fair halves of `ImplementsTurn` and
`ImplementsDispatch` (fairness and ENABLED are beyond the prover). Every safety
property of a passing run is stated by a theorem. The type invariants of the
queue transport, the cost service and the control plane are proved and not
checked by a run.

## Where the code departs from its texts

Three runs keep a counterexample (see `findings` in `PROJECT.json`):

- `provider_queue_expiry`: an expired poll ends the turn as a finished, empty
  answer, against queue.ts:272-273.
- `config_round_trip`: `serializeProfile` drops `pod`, against config.ts:117; a pod
  profile of the guided flow, each field of which the parser would accept, is
  rejected when it is read back. (It drops `toolAllowlist` too; `RoundTrips` does
  not speak of it, `RewriteKeeps` excepts it.)
- `control_pods`: the extension's dispatcher passes no pod id, so every
  confirmed pod command is "unsupported", against README.md:397.

The following are in the models as the code has them, and the properties are
stated around them:

- a fallback deleted during the backoff before it ends the turn
  (`CandidateGone`; the second half of `ExhaustsFallbacks`);
- an HTTP 5xx on a poll leads to a second job while the first lives
  (`MarkedRetryable`), a rejected fetch of the queue transport to no retry;
- a stream call returns what the first `/stream` answer holds
  (`ReceiveStream`), whatever status comes with it;
- a timed-out pod lookup counts as transient (`LookupRejected`), and its body
  is read with neither timer nor signal (`LookupAnswered`);
- a connection that breaks, or a timer that fires, while a JSON body is read is
  named an unsupported shape (`JsonRead`);
- two sessions adding profiles to one layer lose each other's (`ProfileAdd`
  reads, `Written` writes the whole), a deleted profile is back after the next
  reload, and the default profile does not survive a session;
- a report that is not fresh may speak of a profile's former endpoint, and
  `/runpod cost` passes no options to `report` (index.ts:245), so that none is
  fresh, against "always-fresh" (commands.ts:480) and cost.ts:120-121;
- a chunk without text becomes an empty text block (`ChunkEvents`);
- the status of a queue operation is not looked at (`Succeeds`): a cancel that the
  platform refused is reported as done, against control.ts:8-9;
- calls travel as `toolCalls`, where provider.ts:169-170 says that they serialize
  as `message.tool_calls` so that the template accepts the results behind them:
  a worker that reads OpenAI's names finds results without calls
  (`NormalizeAnswer`, sent as it is by `Encode`). The ceiling travels as `maxTokens`,
  and a text worker gets none;
- arguments of a call that do not parse to an object become `{}` in the message,
  while the delta pushed before had their raw text (`ParseArguments`): a call that
  was cut off is passed on as one without arguments;
- a note hoisted to the head changes the beginning of the request, and a worker's
  prefix cache is lost then (`HoistSystemMessages`);
- a `!command` key may keep a turn for ever, abort included (`KeyAwaited`);
- the guided flow accepts any text for a URL (`Urls`) and reports the profile
  configured, while the reload that follows rejects it;
- `/runpod configure` cannot name a profile (`ConfigureName`) and writes a
  document with this one alone (`Configure`): the layer's others are gone;
- `profile add` on a layer that does not parse, or has rejected profiles, writes
  what it could read of it (`ProfileAdd`): the rest is gone;
- the key of the primary is resolved once for all its attempts (`Dispatches`),
  though README.md:105 speaks of a precedence per call;
- `resolveControlKey` takes `!command` for a literal and knows neither OMP's key
  nor, but for the lookup of a pod, `RUNPOD_API_KEY` (`ControlKey`), where the
  comment at index.ts:456-458 speaks of "mirroring the provider-level key
  precedence".

Seen while reading, and outside what the models tell apart:

- the pod report and the pod tool ask for `pod-status` before they probe, which
  the extension's dispatcher always answers "unsupported": as built, no probe is
  ever made. A probe resolves the pod's address twice (index.ts:485-486) and
  passes no signal;
- a profile named `__proto__` is neither kept nor reported, as assignment to that
  key of an object adds no entry;
- a `timeoutMs` above 2^31-1 is accepted, and `setTimeout` then fires at once;
- an answer streamed in chunks becomes several text blocks, which are joined by
  newlines when the conversation is sent again (provider.ts:163).

## Not modelled

- `status.ts` and `policy.ts`: nothing in the extension calls them, nor
  `probeLoadBalancedHealth` of the load-balanced transport.
- The lenient reading of what the platform tells of workers, jobs and pods, and
  the texts made of it: pure functions of one input.
- `journal.ts`: appending to a file; the order of its records is in `Dispatch`.
- `lifecycle.ts`: its refresher is suspended in the code; the shutdown handler
  is `Shutdown` of `ConfigStore`.
- `sanitizeToolSchema`, the arithmetic of the estimate, the billing sums.
- The shell that runs a `!command`: it prints something or not, or never ends.
- `scripts/` and `test/`.

## Plan

1. Done: dispatcher, contract and proofs; queue transport and composition;
   direct transports, their composition with the dispatcher and the keys of its
   requests; configuration with the validation of profiles; control; cost;
   answers; conversation.
2. Done: every safety property of a passing run is proved, for all values of
   the constants.
3. Left: `Answers` with `Conversation` (does a model read back what it wrote; of
   an answer in chunks it does not), `ConfigStore` with `Control` (which now lets a
   profile change while a dialog waits, without saying how), the arithmetic of the
   cost report, and the refresher should it be started again.
