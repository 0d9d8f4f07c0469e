-------------------------------- MODULE Proxy --------------------------------
(***************************************************************************)
(* The whole request path for one logical model: the routes and lifespan   *)
(* of app/main.py, the work queue (WorkQueue.tla) and the dispatch that    *)
(* its workers run (Dispatch.tla).  A non-streaming request is a job: its  *)
(* route submits it and turns the future into a reply.  A streaming        *)
(* request runs dispatch_stream itself, past the queue and the workers.    *)
(*                                                                         *)
(* A worker's iteration runs from the end of one dispatch through the      *)
(* settling of the future and the taking of the next job to the first      *)
(* await of the next dispatch, without an await in between.  It is split   *)
(* here into the steps of the two components, and MidIteration keeps       *)
(* everybody else from running in the middle.                              *)
(*                                                                         *)
(* All calls go through one httpx client (app/upstream.py), which the      *)
(* first of them opens and lifespan closes after it has stopped the queue. *)
(* A call through a client that is being closed raises an error of httpx   *)
(* that neither chat nor chat_stream takes for the backend's.              *)
(***************************************************************************)
EXTENDS Naturals, Sequences, FiniteSets

CONSTANTS Chats, Streams, NumBackends, MaxRetries, FailOnTruncation, Threshold, Cooldown,
          Workers, QueueMaxsize,
          MaxLifespans   \* bound: how often lifespan is entered; a server does it once

ASSUME ProxyAssumption ==
    /\ Chats \cap Streams = {}
    /\ IsFiniteSet(Chats) /\ IsFiniteSet(Streams)
    /\ {NumBackends, MaxRetries, Cooldown, MaxLifespans} \subseteq Nat
    /\ FailOnTruncation \in BOOLEAN
    /\ Threshold \in Nat \ {0}
    /\ IsFiniteSet(Workers) /\ Workers # {}
    /\ QueueMaxsize \in Nat \ {0}

VARIABLES
    breakers, pc, idx, attempt, llm_retries_total, llm_fallbacks_total, calls, refused, emitted,
    phase, queue, tasks, holds, future, llm_queue_depth, stranded,
    reply,  \* reply[r]: the HTTP status r got, "none" before, "gone" if its client left
    llm_requests_total,  \* llm_requests_total[o]: the requests with outcome o
    client, \* _client: "none", "open", or "closed" while aclose awaits its closing
    met,    \* met: the requests whose call went to the closed client
    lifespans   \* how often lifespan has been entered

D == INSTANCE Dispatch
Q == INSTANCE WorkQueue WITH Jobs <- Chats

Requests == Chats \cup Streams
dispatchVars ==
    <<breakers, pc, idx, attempt, llm_retries_total, llm_fallbacks_total, calls, refused, emitted>>
queueVars == <<phase, queue, tasks, holds, future, llm_queue_depth, stranded>>
routeVars == <<reply, llm_requests_total>>
clientVars == <<client, met, lifespans>>
vars == <<dispatchVars, queueVars, routeVars, clientVars>>

\* "4xx": a body that is not JSON, or a model that is unknown.
Statuses == {"200", "429", "4xx", "500", "502"}
Outcomes == {"ok", "stream", "rejected", "context_truncated", "failed"}

TypeOK ==
    /\ D!TypeOK
    /\ Q!TypeOK
    /\ reply \in [Requests -> {"none", "gone"} \cup Statuses]
    /\ llm_requests_total \in [Outcomes -> 0..Cardinality(Requests)]
    /\ client \in {"none", "open", "closed"}
    /\ met \subseteq Requests
    /\ lifespans \in 0..MaxLifespans

Init ==
    /\ D!Init
    /\ Q!Init
    /\ reply = [r \in Requests |-> "none"]
    /\ llm_requests_total = [o \in Outcomes |-> 0]
    /\ client = "none"
    /\ met = {}
    /\ lifespans = 0

Replying(r, status) == reply' = [reply EXCEPT ![r] = status]

\* The outcomes in outs, at most one, are counted.
Counting(outs) ==
    llm_requests_total' =
        [o \in Outcomes |-> llm_requests_total[o] + IF o \in outs THEN 1 ELSE 0]

\* A step of r that makes a call makes it through the client, which it opens if there is
\* none (get_client).
Touches(r) ==
    /\ \/ calls'[r] = calls[r] /\ client' = client /\ met' = met \ {r}
       \/ /\ calls'[r] # calls[r]
          /\ client' = IF client = "none" THEN "open" ELSE client
          /\ met' = IF client = "closed" THEN met \cup {r} ELSE met \ {r}
    /\ UNCHANGED lifespans

\* What comes of a call: through the closed client nothing but an error of its own.
Answered(r) == IF r \in met THEN D!EscapingError(r) ELSE D!Answer(r)

-----------------------------------------------------------------------------
(***************************************************************************)
(* The workers.                                                            *)
(***************************************************************************)

\* Worker w is between two awaits: what it holds has ended, or not begun.
Turning(w) == \E r \in holds[w] : pc[r] \in {"new"} \cup D!Ends
MidIteration == \E w \in Workers : Turning(w)

\* A waiting worker takes a job.
TakesJob(w) ==
    /\ ~MidIteration
    /\ Q!Get(w)
    /\ UNCHANGED <<dispatchVars, routeVars, clientVars>>

\* It calls dispatch, whether or not anybody still waits for the job.
BeginsDispatch(w) ==
    /\ phase = "running"
    /\ \E r \in holds[w] : D!Start(r) /\ Touches(r)
    /\ UNCHANGED <<queueVars, routeVars>>

\* An await inside dispatch returns.
Dispatches(w) ==
    /\ ~MidIteration
    /\ phase = "running"
    /\ \E r \in holds[w] : (Answered(r) \/ D!WakeUp(r)) /\ Touches(r)
    /\ UNCHANGED <<queueVars, routeVars>>

\* dispatch has returned or raised: the worker settles the future accordingly and takes
\* the next job.
EndsIteration(w) ==
    /\ \E r \in holds[w] : pc[r] \in D!Ends
    /\ Q!Finish(w)
    /\ \A r \in holds[w] : future'[r] # future[r] =>
           future'[r] = IF pc[r] = "returned" THEN "result" ELSE "exception"
    /\ UNCHANGED <<dispatchVars, routeVars, clientVars>>

\* (Mutant: the dispatch is shielded from the cancellation of its worker.)
UnwindsAlone(w) ==
    /\ Q!Unwind(w)
    /\ UNCHANGED <<dispatchVars, routeVars, clientVars>>

\* (Mutant: a cancelled worker first waits for its dispatch.)
UnwindsWhenIdle(w) ==
    /\ Q!Unwind(w)
    /\ holds[w] = {}
    /\ UNCHANGED <<dispatchVars, routeVars, clientVars>>

\* A cancelled worker unwinds, and the dispatch it was in with it.
Unwinds(w) ==
    /\ Q!Unwind(w)
    /\ \/ holds[w] = {} /\ UNCHANGED <<dispatchVars, clientVars>>
       \/ \E r \in holds[w] : D!Cancel(r) /\ Touches(r)
    /\ UNCHANGED routeVars

(***************************************************************************)
(* The routes.                                                             *)
(***************************************************************************)

\* The body is not JSON or resolve does not know the model.
Declines(r) ==
    /\ ~MidIteration
    /\ reply[r] = "none"
    /\ r \in Chats => future[r] = "none"
    /\ Replying(r, "4xx")
    /\ UNCHANGED <<dispatchVars, queueVars, llm_requests_total, clientVars>>

\* chat_completions or completions up to the await of submit.  QueueBusy is a 429; the
\* RuntimeError of a queue that is not started has no handler.
SubmitsJob(r) ==
    /\ ~MidIteration
    /\ reply[r] = "none"
    /\ Q!Submit(r)
    /\ \/ future'[r] = "QueueBusy" /\ Replying(r, "429") /\ Counting({"rejected"})
       \/ future'[r] = "RuntimeError" /\ Replying(r, "500") /\ UNCHANGED llm_requests_total
       \/ future'[r] = "pending" /\ UNCHANGED routeVars
    /\ UNCHANGED <<dispatchVars, clientVars>>

\* (Mutant: a failed dispatch is served as an answer.)
StatusOfAnyEnd(r) == "200"

\* What the route makes of the way the dispatch ended.
Status(r) ==
    CASE pc[r] = "returned" -> "200"
      [] pc[r] \in {"AllBackendsFailed", "ContextTruncated"} -> "502"
      [] pc[r] \notin {"returned", "AllBackendsFailed", "ContextTruncated"} -> "500"

\* (Mutant: a cut context is counted as a failure of the backends.)
OutcomeOfStatus(r) ==
    CASE pc[r] = "returned" -> {"ok"}
      [] pc[r] \in {"AllBackendsFailed", "ContextTruncated"} -> {"failed"}
      [] pc[r] \notin {"returned", "AllBackendsFailed", "ContextTruncated"} -> {}

\* And what it counts it as; an exception that it does not handle it does not count.
Outcome(r) ==
    CASE pc[r] = "returned" -> {"ok"}
      [] pc[r] = "AllBackendsFailed" -> {"failed"}
      [] pc[r] = "ContextTruncated" -> {"context_truncated"}
      [] pc[r] \notin {"returned", "AllBackendsFailed", "ContextTruncated"} -> {}

\* The route is woken by its future.
AnswersJob(r) ==
    /\ ~MidIteration
    /\ r \in Chats
    /\ reply[r] = "none"
    /\ future[r] \in {"result", "exception"}
    /\ Replying(r, Status(r))
    /\ Counting(Outcome(r))
    /\ UNCHANGED <<dispatchVars, queueVars, clientVars>>

\* The server cancels a route that waits for its job, its future done or not.
RouteCancelled(r) ==
    /\ ~MidIteration
    /\ reply[r] = "none"
    /\ \/ Q!CallerCancelled(r)
       \/ future[r] \in {"result", "exception"} /\ UNCHANGED queueVars
    /\ Replying(r, "gone")
    /\ UNCHANGED <<dispatchVars, llm_requests_total, clientVars>>

\* _stream_chat: the headers are sent before dispatch_stream is asked for anything, so
\* the status is a 200 whatever becomes of it.
OpensStream(r) ==
    /\ ~MidIteration
    /\ r \in Streams
    /\ reply[r] = "none"
    /\ D!Start(r)
    /\ Touches(r)
    /\ Replying(r, "200")
    /\ Counting({"stream"})
    /\ UNCHANGED queueVars

\* The stream goes on, or its client goes away.
Streaming(r) ==
    /\ ~MidIteration
    /\ r \in Streams
    /\ Answered(r) \/ (r \notin met /\ D!Chunk(r)) \/ D!Cancel(r)
    /\ Touches(r)
    /\ UNCHANGED <<queueVars, routeVars>>

(***************************************************************************)
(* lifespan and the clock.                                                 *)
(***************************************************************************)

\* lifespan is entered, and starts the queue.
Starts ==
    /\ ~MidIteration
    /\ client # "closed"
    /\ lifespans < MaxLifespans
    /\ lifespans' = lifespans + 1
    /\ Q!Start
    /\ UNCHANGED <<dispatchVars, routeVars, client, met>>

\* It is left, and stop cancels the workers.
Stops ==
    /\ ~MidIteration
    /\ Q!StopCancels
    /\ UNCHANGED <<dispatchVars, routeVars, clientVars>>

\* (Mutant: the client is closed while stop waits for the workers.)
StopReturnsLate ==
    /\ ~MidIteration
    /\ Q!StopReturnsAtOnce
    /\ client' = IF client = "open" THEN "closed" ELSE client
    /\ UNCHANGED <<dispatchVars, routeVars, met, lifespans>>

\* stop has seen every worker end, and aclose begins to close the client, if there is one.
StopReturns ==
    /\ ~MidIteration
    /\ Q!StopReturns
    /\ client' = IF client = "open" THEN "closed" ELSE client
    /\ UNCHANGED <<dispatchVars, routeVars, met, lifespans>>

\* aclose has closed the client, and forgets it.
Closed ==
    /\ ~MidIteration
    /\ client = "closed"
    /\ client' = "none"
    /\ UNCHANGED <<dispatchVars, queueVars, routeVars, met, lifespans>>

Clock ==
    /\ D!Tick
    /\ UNCHANGED <<queueVars, routeVars, clientVars>>

Worker(w) == TakesJob(w) \/ BeginsDispatch(w) \/ Dispatches(w) \/ EndsIteration(w) \/ Unwinds(w)

Route(r) == SubmitsJob(r) \/ AnswersJob(r) \/ RouteCancelled(r)

Next ==
    \/ \E w \in Workers : Worker(w)
    \/ \E r \in Chats : Route(r)
    \/ \E r \in Streams : OpensStream(r) \/ Streaming(r)
    \/ \E r \in Requests : Declines(r)
    \/ Starts \/ Stops \/ StopReturns \/ Closed
    \/ Clock

(***************************************************************************)
(* The loop runs what is ready, upstream calls and sleeps end, time        *)
(* passes, and a stop that has begun goes through.                         *)
(***************************************************************************)
Fairness ==
    /\ WF_vars(\E w \in Workers : TakesJob(w))
    /\ \A w \in Workers :
           WF_vars(BeginsDispatch(w)) /\ WF_vars(Dispatches(w)) /\ WF_vars(EndsIteration(w))
           /\ WF_vars(Unwinds(w))
    /\ \A r \in Chats : WF_vars(AnswersJob(r))
    /\ WF_vars(StopReturns)
    /\ WF_vars(Clock)

Spec == Init /\ [][Next]_vars /\ Fairness

-----------------------------------------------------------------------------
\* A dispatch runs only in the hands of a live worker, one for each: never more upstream
\* work for non-streaming requests than worker_count, and none that outlives a stop and
\* meets the closed client (lifespan closes it right after).
DispatchesAreHeld ==
    \A r \in Chats : pc[r] \in D!Awaiting =>
        \E w \in tasks : holds[w] = {r} /\ \A v \in tasks : r \in holds[v] => v = w

\* The status of a non-streaming request tells what happened upstream: 200 that a backend
\* answered, 429 that nobody was asked, 502 that the whole chain was refused or used up or
\* that a cut context is to be reported, 500 that neither is known.
HonestStatus ==
    \A r \in Chats :
        /\ reply[r] = "200" => pc[r] = "returned"
        /\ reply[r] = "4xx" => pc[r] = "new" /\ future[r] = "none"
        /\ reply[r] = "429" => \A b \in 1..NumBackends : calls[r][b] = 0
        /\ reply[r] = "502" =>
               \/ pc[r] = "ContextTruncated" /\ FailOnTruncation
               \/ \A b \in 1..NumBackends : b \in refused[r] \/ calls[r][b] = MaxRetries + 1
        /\ reply[r] = "500" => pc[r] \in {"new", "escaped"}

\* No call of a non-streaming request goes to a client that is being closed, and none is
\* under way when the closing begins: stop sees the workers end before aclose (lifespan).
\* Streams have no such promise.
ChatsKeepTheirClient ==
    /\ met \cap Chats = {}
    /\ client = "closed" => \A r \in Chats : pc[r] \notin D!Awaiting

\* Every request that was answered by the proxy itself is counted once, under the outcome
\* that it had; nothing else is counted, neither the requests of clients that have gone nor
\* those that end in an exception (the routes, llm_requests_total).
RequestsAccounted ==
    LET Told(status, R) == {r \in R : reply[r] = status}
        Cut == {r \in Chats : pc[r] = "ContextTruncated"}
    IN  /\ llm_requests_total["ok"] = Cardinality(Told("200", Chats))
        /\ llm_requests_total["stream"] = Cardinality(Told("200", Streams))
        /\ llm_requests_total["rejected"] = Cardinality(Told("429", Requests))
        /\ llm_requests_total["context_truncated"] = Cardinality(Told("502", Requests) \cap Cut)
        /\ llm_requests_total["failed"] = Cardinality(Told("502", Requests) \ Cut)

Service == INSTANCE RequestService WITH
    Desks <- Cardinality(Workers),
    Room <- QueueMaxsize,
    open <- phase # "stopped",
    waiting <- {r \in Chats : Q!InQueue(r)},
    atDesk <- UNION {holds[w] : w \in Workers},
    finished <- {r \in Chats : future[r] \in {"result", "exception"}},
    status <- reply

\* To its clients the proxy is a service desk with a waiting room: it turns nobody away but
\* for want of room, has no more at the desks than there are workers, and answers each
\* client once, when a desk is done with it (routes, queue and workers together).
ImplementsRequestService == Service!Safety

\* Every accepted non-streaming request is replied to, whatever retries and fallbacks
\* occupy the workers and however few they are, unless a stop strands it.
JobsAreAnswered ==
    \A r \in Chats : future[r] = "pending" ~> reply[r] # "none" \/ r \in stranded

\* A shutdown never hangs, whatever its workers are in the middle of and whatever still
\* arrives: stop returns (stop, lifespan).
ShutdownCompletes == phase = "stopping" ~> phase = "stopped"

\* "A transient outage surfaces as a 502": for streaming requests as well, a request that
\* no backend took is one.
OutageIsA502 ==
    \A r \in Requests :
        pc[r] = "AllBackendsFailed" /\ emitted[r] = {} => reply[r] \in {"none", "gone", "502"}
==============================================================================
