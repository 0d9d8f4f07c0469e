------------------------------- MODULE Dispatch -------------------------------
(***************************************************************************)
(* app/resilience.py: dispatch and dispatch_stream over the shared breaker *)
(* registry, for one logical model.  The process is one asyncio event      *)
(* loop, so the code between two awaits is atomic, and each action below   *)
(* is one such stretch: from the await that returned to the next await, or *)
(* to the end of the call.  The awaits are upstream.chat, the backoff      *)
(* sleep and the next chunk of upstream.chat_stream; whatever other        *)
(* requests do meanwhile to the breakers is visible after them.            *)
(***************************************************************************)
EXTENDS Breaker, FiniteSets

CONSTANTS
    Chats,            \* the requests that run dispatch
    Streams,          \* the requests that run dispatch_stream
    NumBackends,      \* len(model.backends); the chain is 1, 2, ..., NumBackends
    MaxRetries,       \* max_retries
    FailOnTruncation  \* fail_on_context_truncation

Requests == Chats \cup Streams

ASSUME DispatchAssumption ==
    /\ Chats \cap Streams = {}
    /\ IsFiniteSet(Requests)
    /\ NumBackends \in Nat
    /\ MaxRetries \in Nat
    /\ FailOnTruncation \in BOOLEAN

\* The breaker registry is keyed by name: backends of a chain have distinct names.
Backends == 1..NumBackends

VARIABLES
    breakers,             \* CircuitBreakerRegistry._breakers
    pc,                   \* pc[r]: the await request r is at, or how its call ended
    idx,                  \* idx[r]: the position of r in the chain, 0 before it
    attempt,              \* attempt[r]: dispatch's attempt at that backend, from 0
    llm_retries_total,    \* the two counters of app/obs.py, by backend
    llm_fallbacks_total,
    calls,                \* history: upstream calls r has sent to each backend
    refused,              \* history: the backends whose breaker refused r
    emitted               \* history: the backends whose chunks r has yielded

history == <<calls, refused, emitted>>
counters == <<llm_retries_total, llm_fallbacks_total>>
vars == <<breakers, pc, idx, attempt, counters, history>>

\* Awaiting the upstream call or the first chunk; asleep; past the first chunk.
Awaiting == {"calling", "backoff", "streaming"}
\* Returned, or raised: AllBackendsFailed, ContextTruncated, an exception that is
\* not an UpstreamError, or CancelledError.
Ends == {"returned", "AllBackendsFailed", "ContextTruncated", "escaped", "cancelled"}

Engaged(b) == {r \in Requests : idx[r] = b /\ pc[r] \in Awaiting}

TypeOK ==
    /\ breakers \in [Backends -> Breaker]
    /\ pc \in [Requests -> {"new"} \cup Awaiting \cup Ends]
    /\ idx \in [Requests -> 0..(NumBackends + 1)]
    /\ attempt \in [Requests -> 0..MaxRetries]
    /\ llm_retries_total \in [Backends -> Nat]
    /\ llm_fallbacks_total \in [Backends -> Nat]
    /\ calls \in [Requests -> [Backends -> Nat]]
    /\ refused \in [Requests -> SUBSET Backends]
    /\ emitted \in [Requests -> SUBSET Backends]

Init ==
    /\ breakers = [b \in Backends |-> FreshBreaker]
    /\ pc = [r \in Requests |-> "new"]
    /\ idx = [r \in Requests |-> 0]
    /\ attempt = [r \in Requests |-> 0]
    /\ llm_retries_total = [b \in Backends |-> 0]
    /\ llm_fallbacks_total = [b \in Backends |-> 0]
    /\ calls = [r \in Requests |-> [b \in Backends |-> 0]]
    /\ refused = [r \in Requests |-> {}]
    /\ emitted = [r \in Requests |-> {}]

-----------------------------------------------------------------------------
(***************************************************************************)
(* The pieces of a step.                                                   *)
(***************************************************************************)

Send(r, b) == calls' = [calls EXCEPT ![r] = [calls[r] EXCEPT ![b] = @ + 1]]

\* (Mutant: only the exhausted backend is counted.)
GivenUpExhaustedOnly(r, i, j) == {b \in Backends : r \in Chats /\ b = i /\ b < NumBackends}

\* The backends whose llm_fallbacks_total r increments when it moves on from
\* position i to position j: all it gives up, except the last of the chain.
\* dispatch_stream increments nothing.
GivenUp(r, i, j) == {b \in Backends : r \in Chats /\ b \in i..(j - 1) /\ b < NumBackends}

\* The rest of the loop over model.backends after position i, where brs are the
\* breakers by then: pass the backends whose breaker refuses, and send the first
\* call to the next one, or raise AllBackendsFailed past the end of the chain.
MoveOn(r, i, brs) ==
    \E j \in (i + 1)..(NumBackends + 1) :
        LET passed == (i + 1)..(j - 1)
        IN  /\ \A b \in passed : ~Allows(brs[b])
            /\ idx' = [idx EXCEPT ![r] = j]
            /\ attempt' = [attempt EXCEPT ![r] = 0]
            /\ refused' = [refused EXCEPT ![r] = @ \cup passed]
            /\ llm_fallbacks_total' =
                   [b \in Backends |->
                       IF b \in GivenUp(r, i, j) THEN llm_fallbacks_total[b] + 1
                                                 ELSE llm_fallbacks_total[b]]
            /\ \/ /\ j \in Backends
                  /\ Allows(brs[j])
                  /\ breakers' = [brs EXCEPT ![j] = AfterAllow(@)]
                  /\ pc' = [pc EXCEPT ![r] = "calling"]
                  /\ Send(r, j)
               \/ /\ j \notin Backends
                  /\ breakers' = brs
                  /\ pc' = [pc EXCEPT ![r] = "AllBackendsFailed"]
                  /\ UNCHANGED calls
            /\ UNCHANGED <<llm_retries_total, emitted>>

\* The call of r ends.
End(r, how) ==
    /\ pc' = [pc EXCEPT ![r] = how]
    /\ UNCHANGED <<idx, attempt, counters, history>>

Recorded(r, After(_)) == [breakers EXCEPT ![idx[r]] = After(@)]

\* (Mutant: max_retries calls instead of max_retries + 1.)
ExhaustedTooEarly(r) == r \in Streams \/ attempt[r] + 1 >= MaxRetries

\* (Mutant: one call too many.)
ExhaustedTooLate(r) == r \in Streams \/ attempt[r] > MaxRetries

\* No attempt is left at this backend: dispatch tries max_retries + 1 times,
\* dispatch_stream once.
Exhausted(r) == r \in Streams \/ attempt[r] >= MaxRetries

\* Count the retry and sleep before it; the breakers are brs by then.
Backoff(r, brs) ==
    /\ pc' = [pc EXCEPT ![r] = "backoff"]
    /\ breakers' = brs
    /\ llm_retries_total' = [llm_retries_total EXCEPT ![idx[r]] = @ + 1]
    /\ UNCHANGED <<idx, attempt, llm_fallbacks_total, history>>

-----------------------------------------------------------------------------
(***************************************************************************)
(* The actions of a request.                                               *)
(***************************************************************************)

\* dispatch, or the first step of dispatch_stream's generator.
Start(r) ==
    /\ pc[r] = "new"
    /\ MoveOn(r, 0, breakers)

\* UpstreamError before anything was yielded: a transport or HTTP status error.
TransportError(r) ==
    /\ pc[r] = "calling"
    /\ \/ ~Exhausted(r) /\ Backoff(r, Recorded(r, AfterFailure))
       \/ Exhausted(r) /\ MoveOn(r, idx[r], Recorded(r, AfterFailure))

\* (Mutant: the generator falls back although something was yielded.)
StreamFallsBack(r) ==
    /\ r \in Streams
    /\ pc[r] = "streaming"
    /\ MoveOn(r, idx[r], Recorded(r, AfterFailure))

\* UpstreamError after the first chunk: the generator raises, it never falls back.
StreamBreaks(r) ==
    /\ r \in Streams
    /\ pc[r] = "streaming"
    /\ breakers' = Recorded(r, AfterFailure)
    /\ End(r, "AllBackendsFailed")

\* A reply that validate_response rejects: reroll, and the breaker hears nothing
\* of it; after the last attempt the backend counts as alive.
BadGeneration(r) ==
    /\ r \in Chats
    /\ pc[r] = "calling"
    /\ \/ ~Exhausted(r) /\ Backoff(r, breakers)
       \/ Exhausted(r) /\ MoveOn(r, idx[r], Recorded(r, AfterSuccess))

\* A reply that passes: recorded, then _verify_delivered_context, which raises
\* when the context was cut and fail_on_context_truncation is set.
GoodGeneration(r) ==
    /\ r \in Chats
    /\ pc[r] = "calling"
    /\ breakers' = Recorded(r, AfterSuccess)
    /\ \E truncated \in BOOLEAN :
           End(r, IF truncated /\ FailOnTruncation THEN "ContextTruncated" ELSE "returned")

\* (Mutant: the retry waits for the breaker to leave OPEN.)
WakeUpUnlessOpen(r) ==
    /\ pc[r] = "backoff"
    /\ breakers[idx[r]].state # "OPEN"
    /\ pc' = [pc EXCEPT ![r] = "calling"]
    /\ attempt' = [attempt EXCEPT ![r] = @ + 1]
    /\ Send(r, idx[r])
    /\ UNCHANGED <<breakers, idx, counters, refused, emitted>>

\* (Mutant: a reroll is not counted as an attempt.)
WakeUpUncounted(r) ==
    /\ pc[r] = "backoff"
    /\ pc' = [pc EXCEPT ![r] = "calling"]
    /\ Send(r, idx[r])
    /\ UNCHANGED <<breakers, idx, attempt, counters, refused, emitted>>

\* The backoff sleep is over: the next attempt, without asking the breaker again.
WakeUp(r) ==
    /\ pc[r] = "backoff"
    /\ pc' = [pc EXCEPT ![r] = "calling"]
    /\ attempt' = [attempt EXCEPT ![r] = @ + 1]
    /\ Send(r, idx[r])
    /\ UNCHANGED <<breakers, idx, counters, refused, emitted>>

\* A chunk arrives and is yielded.
Chunk(r) ==
    /\ r \in Streams
    /\ pc[r] \in {"calling", "streaming"}
    /\ pc' = [pc EXCEPT ![r] = "streaming"]
    /\ emitted' = [emitted EXCEPT ![r] = @ \cup {idx[r]}]
    /\ UNCHANGED <<breakers, idx, attempt, counters, calls, refused>>

\* The upstream stream is over, possibly without one chunk.
StreamEnds(r) ==
    /\ r \in Streams
    /\ pc[r] \in {"calling", "streaming"}
    /\ breakers' = Recorded(r, AfterSuccess)
    /\ End(r, "returned")

\* An exception neither except clause names leaves the call as it is (a 200
\* whose body is not JSON, a payload that is not an object, a closed client).
EscapingError(r) ==
    /\ pc[r] \in {"calling", "streaming"}
    /\ End(r, "escaped")
    /\ UNCHANGED breakers

\* The worker is cancelled by WorkQueue.stop, or the client of a stream is gone.
Cancel(r) ==
    /\ pc[r] \in Awaiting
    /\ End(r, "cancelled")
    /\ UNCHANGED breakers

\* _now() advances.
Tick ==
    /\ \E b \in Backends : breakers[b].wait > 0
    /\ breakers' = [b \in Backends |-> AfterTick(breakers[b])]
    /\ UNCHANGED <<pc, idx, attempt, counters, history>>

\* What the upstream answers, as far as it says anything about the backend.
Answer(r) ==
    \/ TransportError(r)
    \/ StreamBreaks(r)
    \/ BadGeneration(r)
    \/ GoodGeneration(r)
    \/ StreamEnds(r)
    \/ EscapingError(r)

Step(r) == Start(r) \/ Answer(r) \/ WakeUp(r) \/ Chunk(r) \/ Cancel(r)

\* Every request has ended and every cooldown is over.
Terminated ==
    /\ \A r \in Requests : pc[r] \in Ends
    /\ \A b \in Backends : breakers[b].wait = 0
    /\ UNCHANGED vars

Next ==
    \/ \E r \in Requests : Step(r)
    \/ Tick
    \/ Terminated

(***************************************************************************)
(* httpx bounds every read of a reply and of a first chunk by a timeout,   *)
(* so it comes or fails, short of an upstream that trickles for ever; a    *)
(* sleep ends, and time passes.  Nothing forces a request to arrive or a   *)
(* caller to go away, and once chunks flow the upstream decides how long.  *)
(***************************************************************************)
Fairness ==
    /\ \A r \in Chats : WF_vars(Answer(r)) /\ WF_vars(WakeUp(r))
    /\ \A r \in Streams : WF_vars(pc[r] = "calling" /\ (Answer(r) \/ Chunk(r)))
    /\ WF_vars(Tick)

Spec == Init /\ [][Next]_vars /\ Fairness

-----------------------------------------------------------------------------
(***************************************************************************)
(* Safety.                                                                 *)
(***************************************************************************)

\* A breaker is tripped exactly when its consecutive failures have reached the
\* threshold, whatever mix of in-flight requests reported to it and in whatever
\* order: no late answer leaves it closed with a full count, or open or half open
\* with a short one (record_success, record_failure).
TrippedIffThreshold == \A b \in Backends : Consistent(breakers[b])

\* Where a request is in the chain agrees with what it is doing: it waits at a backend,
\* only chats sleep and only with an attempt left, nothing is emitted by a request that
\* may still fall back, and what was emitted came from where the request is now.
PositionOf(r) ==
    /\ pc[r] = "new" <=> idx[r] = 0
    /\ pc[r] \in Awaiting => idx[r] \in Backends
    /\ pc[r] = "backoff" => r \in Chats /\ attempt[r] < MaxRetries
    /\ pc[r] = "streaming" => r \in Streams /\ emitted[r] = {idx[r]}
    /\ pc[r] = "AllBackendsFailed" =>
           idx[r] = NumBackends + 1 \/ (r \in Streams /\ emitted[r] # {})
    /\ pc[r] \in {"new", "calling", "backoff"} => emitted[r] = {}
    /\ emitted[r] \subseteq {idx[r]}
    /\ r \in Streams => attempt[r] = 0

Positions == \A r \in Requests : PositionOf(r)

\* How often a request may call one backend.
Tries(r) == IF r \in Chats THEN MaxRetries + 1 ELSE 1

\* The chain is walked in order and nobody is skipped or asked too often: behind
\* the request's position every backend either was refused by its breaker and never
\* called or was called exactly as often as it may be, at the position it was called
\* once per attempt, and ahead of it nobody was called or refused (the loops of
\* dispatch and dispatch_stream).
ChainOf(r) ==
    \A b \in Backends :
        /\ b \in refused[r] => b < idx[r] /\ calls[r][b] = 0
        /\ b \notin refused[r] /\ b < idx[r] => calls[r][b] = Tries(r)
        /\ b = idx[r] => calls[r][b] = attempt[r] + 1
        /\ b > idx[r] => calls[r][b] = 0

ChainWalked == \A r \in Requests : ChainOf(r)

\* AllBackendsFailed is never raised while a backend was neither refused nor used
\* up, except by a stream that has already yielded something.
FailedMeansExhausted ==
    \A r \in Requests : pc[r] = "AllBackendsFailed" =>
        \/ r \in Streams /\ emitted[r] # {}
        \/ \A b \in Backends : b \in refused[r] \/ calls[r][b] = Tries(r)

\* The chunks of a stream come from one backend, and no backend is called after
\* the first of them ("only safe to fall back if nothing was emitted yet").
OneBackendPerStream ==
    \A r \in Requests : \A b \in emitted[r] : \A c \in Backends :
        /\ c \in emitted[r] => c = b
        /\ c > b => calls[r][c] = 0

\* llm_fallbacks_total of a backend is the number of non-streaming requests that
\* went past it with a backend left to try, and no step counts twice or not at all.
FallbacksAccounted ==
    \A b \in Backends :
        llm_fallbacks_total[b] =
            IF b = NumBackends THEN 0 ELSE Cardinality({r \in Chats : idx[r] > b})

\* No new work reaches a backend whose breaker is open and cooling (allow): the requests
\* engaged with it can only get fewer.  What still calls it is a retry of one of those, since
\* dispatch asks the breaker once per backend and not again after a backoff, and with that
\* no request calls it more often than max_retries allows.
OpenAdmitsNobody ==
    [][\A b \in Backends : Cooling(breakers[b]) =>
           /\ Engaged(b)' \subseteq Engaged(b)
           /\ \A r \in Requests : calls'[r][b] # calls[r][b] =>
                  r \in Engaged(b) /\ calls'[r][b] <= Tries(r)]_vars

\* How many steps a request may still take before it ends or has its first chunk, and the
\* one that ends it then: two for each attempt, a call and a sleep, at each backend.
StepsLeft(r) ==
    IF pc[r] \in Ends THEN 0
    ELSE IF pc[r] = "streaming" THEN 1
    ELSE 2 + (2 * MaxRetries + 2) * (NumBackends - idx[r])
           + 2 * (MaxRetries - attempt[r]) + (IF pc[r] = "calling" THEN 1 ELSE 0)

\* Whatever a request does brings it closer to its end, by the breakers' leave or without
\* it and whatever others do: no retry, reroll or fallback gives back what another used
\* up (dispatch, dispatch_stream).
DispatchAdvances ==
    [][\A r \in Requests : \/ UNCHANGED <<pc[r], idx[r], attempt[r], calls[r], refused[r]>>
                           \/ StepsLeft(r)' \in Nat /\ StepsLeft(r)' < StepsLeft(r)]_vars

\* A cooldown is started anew only by the answer to a request that was at the backend, and
\* that request is then closer to its end: refusals, probes and what happens elsewhere keep
\* no breaker open, and each request can do so only as often as it has steps left
\* (allow, record_failure).
OnlyAnswersRearm ==
    [][\A b \in Backends :
           (breakers[b].wait)' > breakers[b].wait =>
               \E r \in Engaged(b) : StepsLeft(r)' \in Nat /\ StepsLeft(r)' < StepsLeft(r)]_vars

(***************************************************************************)
(* Liveness.                                                               *)
(***************************************************************************)

\* Whatever becomes of the requests, lost probes included, no breaker refuses for ever.
EventuallyAllows == \A b \in Backends : []<>Allows(breakers[b])
-----------------------------------------------------------------------------
(***************************************************************************)
(* The contract of a fallback chain.                                       *)
(***************************************************************************)
Outcome(r) ==
    IF pc[r] \notin Ends THEN "pending" ELSE IF pc[r] = "AllBackendsFailed" THEN "failed" ELSE "done"

FallbackChain == INSTANCE FallbackChain WITH
    at <- idx,
    committed <- [r \in Requests |-> emitted[r] # {}],
    outcome <- [r \in Requests |-> Outcome(r)]

\* dispatch and dispatch_stream take only steps the contract allows: forward along
\* the chain, bound to a backend once a chunk is out, one end and no step after it.
ImplementsFallbackChain == FallbackChain!Safety

\* A dispatched request ends, or has its first chunk: no mix of retries, backoffs and
\* fallbacks goes on for ever ("a clean error, never a hang").
DispatchEnds == FallbackChain!Promptness

-----------------------------------------------------------------------------
(***************************************************************************)
(* What the docstring of the breaker says and the code does not do.        *)
(***************************************************************************)

\* "then admit a single half-open probe": at most one request was sent to a
\* backend whose breaker is half open since it got there.
SingleProbe ==
    [][\A b \in Backends :
           breakers[b].state = "HALF_OPEN" => Engaged(b)' \subseteq Engaged(b)]_vars
==============================================================================
