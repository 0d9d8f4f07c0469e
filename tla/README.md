# Formal model of agent-proxy

A TLA+ model of agent-proxy, the reliability proxy between agent harnesses and ollama
backends: modules translated from the code, TLC runs that check them on small instances, and
proofs, checked by TLAPS, of the properties that matter most for instances of every size.
`PROJECT.json` lists the runs, the theorems and the source lines behind each definition.

## The system

One Python process, one asyncio event loop, FastAPI in front and httpx behind.

| part | code | state | operations |
|---|---|---|---|
| circuit breaker | `app/resilience.py` 150-214 | per backend: state, failures in a row, `opened_at` | `allow`, `record_success`, `record_failure` |
| dispatch | `app/resilience.py` 281-459 | position in the chain, attempt, two counters | chain walk, retry, backoff, reroll, fallback |
| streaming dispatch | `app/resilience.py` 495-545 | position, whether a chunk is out | connect-time fallback |
| work queue | `app/queue.py` | bounded queue, worker tasks, futures, gauge | `start`, `stop`, `submit`, `_worker` |
| routes, lifespan | `app/main.py` | one reply per request, the request counter | chat, completions, stream, models; start and stop |
| catalog | `app/models.py`, `app/config.py` | cache of `/api/tags` | `resolve`, `list_tags`, `reset_catalog`, `derive_num_ctx` |
| upstream client | `app/upstream.py` | the shared httpx client | `get_client`, `chat`, `chat_stream`, `aclose`, injection of `num_ctx` |
| context budget, verification | `app/analysis.py`, `app/resilience.py` 222-273 | none | token counts, trimming, truncation check |
| validation | `app/resilience.py` 74-142 | none | `validate_response` |
| observability, settings | `app/obs.py`, `app/config.py` | counters, gauges, constants | set-up |
| measurement scripts | `scripts/` | a conversation and a histogram of scores | turns, scoring; run by hand |

A non-streaming request goes route -> `resolve` -> trim -> `submit` -> worker -> `dispatch` ->
`upstream.chat`, and comes back through a future. A streaming request runs `dispatch_stream`
in the route, past queue and workers. Both share the breakers. Code between two awaits is
atomic; everything interesting happens at the awaits: an upstream call, a backoff sleep, the
next chunk, a future, `queue.get`, `stop` awaiting its workers, a catalog fetch.

What is hard, and what makes each part right:

- **Breakers and dispatch.** Requests in flight report to a breaker that others have moved
  meanwhile. State and failure count must agree, an open breaker must let no new request
  through, only so many retries of old ones, and must let one through again one day, the chain must be walked without skip,
  repetition or miscount, a failure must mean that the chain is used up, a stream must not mix
  two backends, and everything must end.
- **Queue.** Callers are cancelled while their job is queued or dispatched, `stop` cancels
  workers while requests arrive. No job may be lost, doubled or settled twice, every accepted
  one must be settled.
- **The whole path.** A dispatch must run only in the hands of a live worker, the status must
  be what happened upstream, and jobs must be answered however long those in front retry.
- **Client and shutdown.** All calls share one httpx client, which shutdown closes and, only
  then, forgets. Nothing the queue promised to finish may meet the closed client.
- **Context.** The window goes through five hands: the length a tag reports, `derive_num_ctx`,
  the budget of the guard, the factor of `_inject_options`, the backend's division among its
  slots. A prompt that the first three admit must be what the last delivers; what the guard
  drops must be the oldest and as little as possible, and must not come back; a cut must be
  neither silent nor imagined.
- **Validation.** The first verdict that holds decides whether a generation is served, and the
  harness applies the same verdicts to what is left of it in the reply. What the one serves the
  other must not take for garbage, however often requests fail, are refused or time out.
- **Catalog.** Fetches race, backends and SSM fail. Failures must not be cached or turn into
  404s, windows must go by what the tower reports, a late tower must be discovered.

## Modules

| module | stands for |
|---|---|
| `Breaker` | the record `_Breaker` and the registry's methods as functions of it |
| `Dispatch` | `dispatch` and `dispatch_stream` of many requests over shared breakers |
| `FallbackChain` | the abstract contract: forward along a chain, bound once committed, one end |
| `WorkQueue` | queue, worker pool, futures, start and stop |
| `Proxy` | `Dispatch` and `WorkQueue` composed by the routes and lifespan |
| `RequestService` | the abstract service desk that `Proxy` is to its clients |
| `Catalog` | the cache of `/api/tags`, `resolve`, `list_tags`, the tower's URL |
| `Window` | the arithmetic of a window: `derive_num_ctx`, the budget, `_inject_options`, `detect_context_truncation` |
| `ContextBudget` | `count_message_tokens`, `apply_context_budget`, `fit_to_budget` |
| `Validation` | `validate_response`, and `score_payload` of the harness |
| `Conversation` | one growing conversation through guard, backend, validation, check and reply; the harness of `scripts/reliability_loop.py` |
| `DispatchProofs`, `WorkQueueProofs`, `ProxyProofs`, `CatalogProofs`, `WindowProofs`, `ContextBudgetProofs`, `ConversationProofs` | the theorems about them |
| `MCDispatch`, `MCWorkQueue`, `MCProxy`, `MCCatalog`, `MCConversation` | model values, inputs and symmetry for TLC |

`Proxy` instantiates `Dispatch` and `WorkQueue` (with `Jobs <- Chats`); `Dispatch` extends
`Breaker` and instantiates `FallbackChain` under the mapping `at <- idx`, `committed <-` a chunk
is out, `outcome <-` how the call ended. `Proxy` instantiates `RequestService` under `open <-` the
queue exists, `waiting <-` what is queued, `atDesk <-` what the workers hold, `finished <-` whose
future has a result or an exception, `status <- reply`. `Catalog` and `ContextBudget` extend
`Window`; `Conversation` extends `ContextBudget` and `Validation`. A definition whose comment begins with "(Mutant:" is
part of no specification: it is a plausible bug that one of the properties is known to catch.

**Dispatch.** `pc[r]` is the await the request is at or the way its call ended; an action runs
from one await to the next. `MoveOn` is the rest of the loop over the chain: it passes refusing
backends and sends the first call to the next, all without an await. What upstream answers is
one of `TransportError`, `BadGeneration`, `GoodGeneration`, `StreamBreaks`, `StreamEnds`,
`EscapingError`; which one is nondeterministic, as are the verdicts of validation and of the
delivered-context check. `EscapingError` is an exception that neither `except` names, such as
the one `resp.json()` raises on a 200 that is not JSON. The clock is a countdown per breaker,
which is all the comparison with `circuit_cooldown` depends on. A history records the calls,
refusals and chunks of each request.

**WorkQueue.** `phase` is the life of the pool, `holds[w]` the job a worker is dispatching.
A job whose caller was cancelled stays where it is and is dispatched all the same, as in the
code. `stranded` names the jobs whose future a stop left pending, held or queued.

**Proxy.** A worker's turn from the end of one dispatch to the first await of the next is
split over the actions of the two components; `MidIteration` keeps everybody else out of the
middle. A stream's status is sent before its dispatch begins. A route can be cancelled until
it has replied, and can decline a request (400, 404) at any time. `client` is `_client`: a
step that makes a call opens it if there is none (`Touches`), `StopReturns` begins its closing
and `Closed` forgets it. A call through the closed client (`met`) ends in an error that no
`except` names. `llm_requests_total` is moved by the routes, one label for each way out.

**Window, ContextBudget, Validation.** Pure operators. A message is its role and the number of
tokens of its text. The loop of `apply_context_budget` over the reversed rest is `Kept`, the
length of the tail it keeps. A generation is the class of its content, whether it has
thinking, and whether its tool calls parse; `Verdicts` lists the checks in the order of the
code and the first that holds is the verdict.

**Conversation.** `deployment` is any window the tag's length gives, any configured
`num_parallel`, any number of slots the backend really has, and the flag that makes a cut a
502. An agent adds messages (`Say`) and posts its conversation as a chat or a stream
(`PostChat`) or its last message as a prompt (`PostPrompt`); the harness runs its own turns
(`HarnessAsks`, `HarnessScores`). A request may also be answered with a 404 before it is looked at
(`IsUnknown`), a 429 (`Rejected`), or a 500 or a stream that breaks off (`CallEscapes`); the
harness may find no proxy, give up after its 600 seconds (`HarnessGivesUp`), or end with a
traceback when the connection breaks under it (`HarnessDies`). `Score` gives each of these the
label that `_score_turn` gives it. `Generate` validates and verifies, then replies or goes on to
the next attempt or backend (`TriesOn`); `Stream` passes on what it gets. A backend of the
`Chain` is a dialect and `injects_num_ctx`, which are independent: the client asks for a window
by dialect (`TakesWindow`), the reply is verified by the flag (`Marked`). What the backend
evaluates of a prompt is up to the drift of its tokenizer and the window of a slot.

**Catalog.** An `Ask` finds a cached catalog and answers at once, or sends a fetch; `Serve`
is the tower taking its snapshot, `Receive` and `Fail` what the route does on waking. The
tower's tags, its availability and SSM's change at any time. A length of 0 is one that is not
reported, which is how the code treats 0. An answer keeps as history whether a catalog was read
for it (`ok`), so that `WindowFits` can tell a window that had to do without a length from one
that ignored it.

## Runs

| run | instance | shows |
|---|---|---|
| `dispatch` | 2 chats, 1 stream, 2 backends, 1 retry, threshold 2 | breakers stay consistent, an open one admits nobody, sees only the retries of those who are there, not for ever, and is kept open by failures alone, streams do not mix, `Dispatch` implements `FallbackChain`, every dispatch ends or streams |
| `dispatch_chain` | 1 chat, 1 stream, 3 backends, threshold 1 | the walk, the meaning of failure, the fallback counter, that every step brings a request closer to its end |
| `workqueue` | 4 jobs, 2 workers, queue of 2 | no job lost, doubled, settled twice; every accepted job settled |
| `proxy_safety` | 3 jobs and a stream, 2 workers, queue of 1, one lifespan | who holds a dispatch, what a status says, what is counted, who meets the closed client, that `Proxy` implements `RequestService` |
| `proxy_liveness` | 2 jobs, 1 worker, 2 backends, 1 retry | every accepted request is replied to, and a shutdown completes |
| `catalog` | 2 routes, 1 tag, 2 catalogs over time, 4 lengths | cache, 404s, windows, discovery |
| `conversation` | 4 messages of an agent, 3 turns of the harness, windows of 4 and 14, 1 or 2 slots, drift of 2 either way, a chain of ollama, an openai backend left at its defaults and one that takes no window | the guard drops the oldest and as little as it can, for good; what fits arrives whole; cuts are loud and alarms true; the harness finds no garbage in what the proxy served |

Why the bounds are enough. Two requests are needed for one to move a breaker while the other
is in flight, a third of the other kind to mix chats and streams on it. Two backends give a
fallback, three a refusing backend between two that are called. One retry gives a first, a
middle (the sleep) and a last attempt. Threshold 2 tells a count from a flag, threshold 1 lets
a single request trip and meet its own breaker. Four jobs are one more than two workers and a
queue of one can hold, and equal to two and two, so that the limit is met with callers gone in
front of it. One tag suffices since tags do not interact; two routes are enough to store
catalogs out of order, and two catalogs, one after the other and back again, to tell a stale one
from the present one. The lengths of `catalog` are one that is not reported, one below the
headroom, one between headroom and ceiling and one above the ceiling; `WindowsFit` covers all
numbers. In `conversation` a small file does not fit the
smaller window and four messages do not fit the larger, so that the guard drops nothing, something and
all but the live turn; two slots against one configured cut a window in half, which is far
past the tolerance; the third turn of the harness meets both a trimmed conversation and a turn
that calls for a tool. `MCDraws` has a generation for every verdict. `WindowProofs` covers all
numbers of the arithmetic. Counters are bounded by the finite number of requests; the bounds
in guards are `MaxLifespans` (a server enters the lifespan once; `workqueue` restarts the
pool without bound), `MaxCatalogs`, `MaxMessages` and `Turns`. Symmetry is
used only by `proxy_safety`, which checks no liveness. `Dispatch` stops when all requests have
ended, which `Terminated` allows. Deadlock is not checked in the runs of `Proxy`, where a
process whose lifespan has ended and whose requests are answered has stopped, and of
`Conversation`, where the client falls silent.

### Disagreements between text and code

Each is a run that finds the claim violated; the claims are quoted in `PROJECT.json`.

- `SingleProbe`: a half-open breaker admits everybody, not "a single half-open probe".
- `OutageIsA502`: a stream that no backend takes is a 200 that finishes with `stop`.
- `TowerResolvedAtBoot`: SSM is asked on every request, and its outage moves the tower to
  localhost.
- `ShortReadIsLength`: a stream's delivered context is not verified, so a short read ends with
  `stop`; outside streams, `tool_calls` takes the place of `length`.
- `LatestUserTurnKept`: the guard keeps the newest message, which may be a tool result, and
  drops the user's turn before it.

The models show more that no run is spent on:

- A retry does not ask the breaker again, so it goes to a backend whose breaker has opened
  since (`WakeUp`), though the breaker "stops hammering a dead backend". `OpenAdmitsNobody` bounds
  these calls.
- Falls of streams are not in `llm_fallbacks_total` (`StreamBreaks`, `MoveOn`).
- The late success of an older call closes an open breaker without a probe (`AfterSuccess`).
- `/v1/models` is the list of the first successful read, not "live from `/api/tags`"; and the
  catalog is not "read once" when first requests race, in which case the last reply wins, older
  or not (`Receive`).
- An openai-dialect backend whose spec does not turn `injects_num_ctx` off is verified against a
  window it was never asked for, though "it is skipped" (`TakesWindow`, `Marked`).
- A prompt that was trimmed and still does not fit counts as a truncation avoided.
- A connection that breaks while the harness waits for the reply ends its run with a traceback
  (`HarnessDies`): `http.client` raises neither of the two exceptions that `_score_turn` catches.
  `docs/reliability_baseline.md` calls `timeout` a "transport error or timeout reaching the
  endpoint".
- The harness reads a reply back without its reasoning: one that is all thinking is `empty` to
  it, which `docs/reliability_baseline.md` defines as "no content, no tool call, no thinking"
  (`HarnessAgrees` names the case). `ungrounded_action_claim` is not among its labels.
- A stream that outlives shutdown and falls back after `aclose` opens a client that nobody
  closes (`Touches` after `Closed`).

## Fairness

Weak fairness everywhere. In `Dispatch`, upstream answers (httpx bounds every read by a
timeout; a backend that trickles bytes for ever is assumed away), a sleep ends and time passes.
After the first chunk nothing is assumed of a stream: `DispatchEnds` asks for its end or its
first chunk. In `WorkQueue`, the loop wakes a waiting worker, a dispatch ends (which
`DispatchEnds` shows), cancelled tasks unwind. `Proxy` assumes the same of the composed
actions, and that a route is woken by its future. In `Catalog`, a fetch is answered or fails
within its timeout. Nothing is assumed about requests arriving, callers leaving, chunks,
starts, stops, outages or their ends; `Discovered` names the outages' end as its premise.
`Conversation` and `RequestService` state safety only.

## Proofs

Assumed are only the assumptions on constants: thresholds and bounds are natural numbers,
sets of requests, jobs and workers are finite where they are counted, chats are not streams.
For a conversation, a message costs at least one token (`_PER_MESSAGE_OVERHEAD` is 4), a backend
has at least one slot (`num_parallel` of 0 is taken for 1 where the chain is built, and a
backend with no slot serves nobody) and the chain is not empty (`backend_overrides` ignores an
empty one, the built-in chain has the tower). TLC evaluates all of them on the runs' instances.

**DispatchProofs.** `TypeInv` is `TypeOK` with `Positions`, which ties `pc` to the place in
the chain and to what was emitted; alone it is inductive (no run is spent on it: TLC checked it
before it was proved), and `StreamsAreNotMixed` and
`ImplementsContract` need it to know that nothing is out when a request moves on.
`ChainIsWalked` adds `ChainWalked`: behind a request every backend is refused or used up; this
is inductive because `MoveOn` leaves a backend only when it is exhausted. `FailureIsHonest`
follows from it at the end of the chain, with no induction of its own. `BreakersConsistent`
needs that a half-open breaker has a full count, which `TrippedIffThreshold` says.
`NobodyIsAdmitted` is an action property: only `MoveOn` changes positions and it asks `Allows`
(`NobodyJoins`); who sends a call awaits it then (`CallersAwait`), so callers were there already,
and `ChainWalked` counts their calls.
`FallbacksAreCounted` counts a set that grows by one request at a time.
`DispatchesAdvance` is the variant of the loops: `StepsLeft` gives each backend a call and a
sleep for each attempt, and a step of a request leaves less of it (`FurtherIsLess`,
`RetryIsLess`), so a dispatch makes boundedly many calls whatever the breakers say. It is the
safety half of `DispatchEnds`. `AnswersRearm` is that of `EventuallyAllows`: of all that is done to
a breaker only `record_failure` lengthens its wait (`WaitsShorten`), and whoever reports it has
then fewer steps left.
`ImplementsContract` maps each action to a step of `FallbackChain` or a stutter.

**WorkQueueProofs.** `TypeCorrect` proves types and `Whereabouts` together: that nobody holds a
job after a stop needs that tasks, queue and phase agree. `NoJobIsDoubled` is inductive on top
of it (a job is queued once, since its future was "none"), `NoJobIsLost` on top of both.

**ProxyProofs.** `WholeIsComposed` shows that each step of `Proxy` is a step of `Dispatch` and
of `WorkQueue` or leaves them alone, so their invariants and action properties carry over (`PartsKeepTheirPromises`,
`DispatchesAdvance`, `AnswersRearm`). `IInv` adds what neither
knows of the other, request by request (`HeldOK`): what is queued or was never accepted has not
begun, what runs is in a worker's hands, what a worker settled has ended, and, while a stop is
under way, every job in hand is in the middle of its dispatch. The last is why it needs
`MidIteration`: a stop never finds a worker between the end of a dispatch and its settling, so
none unwinds past it. `HeldByWorkers` and `ClientIsKept` follow; `StatusIsHonest` adds that what
a request was told still fits (`StatusOK`: ends, refusals and settled futures stay), and takes
the chain from `ChainWalked`. `RequestsAreAccounted` counts sets that grow by the one request
that is told something. `ImplementsService` maps every action to the desk's; it needs that a
queue without repetitions is as long as its set is large (`RoomTaken`) and that the workers'
hands bound the desks (`DesksTaken`).

**CatalogProofs.** `IInv` says that whatever is cached, on its way back or present is a catalog
of the tower's history; every answer is then made from such a catalog or from none, and
the lemma `Derived` does the arithmetic of the window: it fits and the next larger one does not.

**WindowProofs.** Theorems about operators, for all natural numbers, of the arithmetic that
`conversation` checks on a few: `WindowIsDelivered` and `FittingPromptFits` chain
`derive_num_ctx`, the budget, the factor and the division (the only nonlinear step, lemma
`Divides`); `HeadroomIsLeftTwice` says what taking it off twice costs; `AlarmsAreTrue` and
`CutsAreDetected` are the two directions of `detect_context_truncation` against a backend that
evaluates what its window holds.

**ContextBudgetProofs.** What the guard does to conversations of every length. The provers
cannot instantiate the library's induction theorems, whose hypothesis is an operator, so
induction is proved first as a statement about sets: a set of numbers with 0 and all successors
is `Nat` (`Induction`, because adding one would otherwise inject a finite set into itself past
0). From it come the existence of what a recursive function computes (`Recursion`, over steps
given as functions), its uniqueness (`Agreement`) and induction over sequences
(`SequenceInduction`). With these `TotalIsDefined` and `ThoseAreDefined` unfold the two
recursive functions of the module once, and everything else is algebra: counting is additive
over `\o`, splitting keeps every message on one side, `Newest` of a longer conversation is
longer by the same message. `KeptIsDefined` shows that the `CHOOSE` that stands for the loop
finds exactly one number, `LongestTailIsKept` what it keeps. `WhatIsLeftOutStaysOut` needs, for
one more message, that neither a system message nor another makes room for what did not fit
(`OneMoreMessage`, by whether either conversation fits whole), and goes on by induction over
what is added.

**ConversationProofs.** `Inv` is inductive; the properties alone are not, since each speaks of
one moment and depends on what was true at an earlier one:

- `Typed`, with the window one that `derive_num_ctx` gives, and `TakesTurns`: a request or a
  reply, never both, and only chats of the harness before its last turn;
- `IsGuarded`: what is under way is what the guard made of the conversation as it still is,
  through retries and fallbacks (for `LongestTailIsSent`);
- `EvaluationIsHonest`, `MarkIsHonest`: what the backend and the proxy had in hand when the reply
  was made, from which `FittingPromptArrives`, `MarksAreTrue` and `CutsAreLoud` follow by the
  theorems of `WindowProofs`;
- `ResultIsValid`, `ReasonsAreFew`: a chat shows a valid result, and the histogram has garbage for
  no turn, whatever refusals, errors and timeouts it has (for `HarnessFindsUsable`, by `HarnessFindsValidUsable`, which compares the
  verdicts of both sides; `VerdictIsFirst` makes the order of the checks explicit);
- `NothingComesBack`: what a chat left out is no more than what would be left out now. It is kept
  by `OneMoreMessage` whenever somebody speaks, and gives `ForgottenStaysForgotten`.

**Only model-checked.** `EventuallyAllows`, `DispatchEnds`, `JobsSettle`, `JobsAreAnswered`,
`ShutdownCompletes` and `Discovered` are liveness under fairness, out of the prover's reach; of the
first two, what is safety is proved as `AnswersRearm` and `DispatchesAdvance`.
Every other property of a passing run is the subject of a theorem.

## Abstractions, and what is not modelled

- Names of backends in a chain are distinct; the registry is keyed by name. One logical
  model: every tag walks the same chain (`_backends_for_tag`), so a second one would only change
  the labels of the counters.
- `WorkQueue` lets the pool be started again after a stop, as the tests do; a start during a
  stop cannot happen, since lifespan awaits the one before the other.
- A catalog fetch whose route is cancelled changes nothing and is left out. Nothing but the
  tower answers `/api/tags`; chains from `PROXY_BACKENDS_JSON` fix the URL, which is the case
  `SsmMayFail = FALSE`.
- Opening or meeting the shared client on a catalog read (`models._catalog` calls `get_client`) is
  not among the `Touches` of `Proxy`: an earlier opening or a closing client only makes that
  read fail open, and `ChatsKeepTheirClient` speaks of calls for jobs.
- `Conversation` has one request at a time and breakers that admit: what others do to a request
  is in `Proxy`, as is what becomes of one that the harness has given up. Its guard and its verdicts are the code's; the backend's slots, its drift and
  its counts are external, modelled as `app/upstream.py` and `docs/proxy.md` describe them. The
  backend calls no tool it was not given.
- What makes a text a claim, a loop or junk (regular expression, counts of characters and
  tokens) is the class of a content, not computed.
- The harness runs against the proxy; its direct target, its artifact and
  `scripts/truncation_proof.py` are straight-line scripts run by hand.
- Logging, tracing and its spans, Sentry, the settings beyond the constants. `generate` and
  `health` are called by nothing.

## Plan

In this order; all of it is done.

1. `Breaker`, `Dispatch`, `FallbackChain`: the core, its runs and `DispatchProofs`.
2. `WorkQueue` and `WorkQueueProofs`.
3. `Proxy`: composition, statuses, liveness.
4. `Catalog` and `CatalogProofs`.
5. `Window` and `WindowProofs`.
6. `ContextBudget` and `Validation`.
7. `Conversation`: both of them between a client and a backend, and the harness.
8. The shared client, shutdown and the request counter in `Proxy`.
9. `RequestService`, which `Proxy` implements.
10. `ProxyProofs`: that `Proxy` is made of steps of `Dispatch` and `WorkQueue` and implements
    `RequestService`, with its safety properties.
11. `ContextBudgetProofs` and `ConversationProofs`.
