------------------------------ MODULE WorkQueue ------------------------------
(***************************************************************************)
(* app/queue.py: a bounded asyncio.Queue in front of a fixed pool of       *)
(* workers.  A route calls submit and awaits its job's future; a worker    *)
(* takes a job, dispatches it and settles the future; lifespan starts the  *)
(* pool and stops it.  As everywhere in the process, what is between two   *)
(* awaits is one step.  What a dispatch does is in Dispatch.tla: here it   *)
(* ends, with a result or with an exception.                               *)
(***************************************************************************)
EXTENDS Naturals, Sequences, FiniteSets

CONSTANTS
    Jobs,          \* the calls of submit, each with its job and its future
    Workers,       \* the worker tasks; their number is worker_count
    QueueMaxsize   \* queue_maxsize

ASSUME WorkQueueAssumption ==
    /\ IsFiniteSet(Jobs)
    /\ IsFiniteSet(Workers)
    /\ Workers # {}
    /\ QueueMaxsize \in Nat \ {0}

VARIABLES
    phase,            \* "stopped": _queue is None; "running"; "stopping": stop awaits the workers
    queue,            \* the jobs in _queue
    tasks,            \* the workers whose task is not done
    holds,            \* holds[w]: the job worker w is dispatching, as a set of at most one
    future,           \* future[j]: the state of j's future, or what submit raised without one
    llm_queue_depth,  \* the gauge of app/obs.py
    stranded          \* history: the jobs whose future a stop left pending

vars == <<phase, queue, tasks, holds, future, llm_queue_depth, stranded>>

Settled == {"result", "exception", "cancelled"}
Refused == {"QueueBusy", "RuntimeError"}

TypeOK ==
    /\ phase \in {"stopped", "running", "stopping"}
    /\ queue \in Seq(Jobs)
    /\ Len(queue) <= QueueMaxsize
    /\ tasks \subseteq Workers
    /\ holds \in [Workers -> {{}} \cup {{j} : j \in Jobs}]
    /\ future \in [Jobs -> {"none", "pending"} \cup Settled \cup Refused]
    /\ llm_queue_depth \in 0..QueueMaxsize
    /\ stranded \subseteq Jobs

Init ==
    /\ phase = "stopped"
    /\ queue = <<>>
    /\ tasks = {}
    /\ holds = [w \in Workers |-> {}]
    /\ future = [j \in Jobs |-> "none"]
    /\ llm_queue_depth = 0
    /\ stranded = {}

-----------------------------------------------------------------------------
\* (Mutant: without the check of future.done().)
SettleWithoutAsking(js, how) == [j \in Jobs |-> IF j \in js THEN how ELSE future[j]]

\* (Mutant: an exception is not delivered.)
SettleResultsOnly(js, how) ==
    [j \in Jobs |-> IF j \in js /\ future[j] = "pending" /\ how = "result" THEN how ELSE future[j]]

\* The futures after a worker has set how on those of js that are not done yet.
Settle(js, how) ==
    [j \in Jobs |-> IF j \in js /\ future[j] = "pending" THEN how ELSE future[j]]

\* (Mutant: the job is read and left in the queue.)
TakeNextByPeeking(w) ==
    /\ holds' = [holds EXCEPT ![w] = IF queue = <<>> THEN {} ELSE {Head(queue)}]
    /\ UNCHANGED <<queue, llm_queue_depth>>

\* Worker w comes back to queue.get: it takes the next job without suspending if
\* there is one, and waits otherwise.
TakeNext(w) ==
    \/ /\ queue # <<>>
       /\ holds' = [holds EXCEPT ![w] = {Head(queue)}]
       /\ queue' = Tail(queue)
       /\ llm_queue_depth' = Len(Tail(queue))
    \/ /\ queue = <<>>
       /\ holds' = [holds EXCEPT ![w] = {}]
       /\ UNCHANGED <<queue, llm_queue_depth>>

\* lifespan enters: a new queue, and a task for each worker.
Start ==
    /\ phase = "stopped"
    /\ phase' = "running"
    /\ queue' = <<>>
    /\ tasks' = Workers
    /\ UNCHANGED <<holds, future, llm_queue_depth, stranded>>

\* (Mutant: the bound is checked one too late.)
FullTooLate == Len(queue) > QueueMaxsize

\* put_nowait raises QueueFull.
Full == Len(queue) >= QueueMaxsize

\* (Mutant: the gauge is left alone.)
AcceptSilently(j) ==
    /\ future' = [future EXCEPT ![j] = "pending"]
    /\ queue' = Append(queue, j)
    /\ UNCHANGED llm_queue_depth

\* The job is queued, with a live future, and the gauge set.
Accept(j) ==
    /\ future' = [future EXCEPT ![j] = "pending"]
    /\ queue' = Append(queue, j)
    /\ llm_queue_depth' = Len(queue')

\* submit raises.
Raise(j, error) ==
    /\ future' = [future EXCEPT ![j] = error]
    /\ UNCHANGED <<queue, llm_queue_depth>>

\* submit, up to the await of the future.  It asks for the queue, not whether the
\* workers still run.
Submit(j) ==
    /\ future[j] = "none"
    /\ \/ phase = "stopped" /\ Raise(j, "RuntimeError")
       \/ phase # "stopped" /\ Full /\ Raise(j, "QueueBusy")
       \/ phase # "stopped" /\ ~Full /\ Accept(j)
    /\ UNCHANGED <<phase, tasks, holds, stranded>>

\* (Mutant: a worker leaves the jobs of cancelled callers alone.)
GetIfAwaited(w) ==
    /\ phase = "running"
    /\ holds[w] = {}
    /\ queue # <<>>
    /\ future[Head(queue)] = "pending"
    /\ TakeNext(w)
    /\ UNCHANGED <<phase, tasks, future, stranded>>

\* A waiting worker is woken and takes a job.
Get(w) ==
    /\ phase = "running"
    /\ holds[w] = {}
    /\ queue # <<>>
    /\ TakeNext(w)
    /\ UNCHANGED <<phase, tasks, future, stranded>>

\* The dispatch of worker w ends, with a result or an exception: settle the future
\* unless it is done, and back to the queue.
Finish(w) ==
    /\ phase = "running"
    /\ holds[w] # {}
    /\ \E how \in {"result", "exception"} : future' = Settle(holds[w], how)
    /\ TakeNext(w)
    /\ UNCHANGED <<phase, tasks, stranded>>

\* The task awaiting submit is cancelled, and its future with it.  The job stays
\* where it is: nobody takes it out of the queue or stops its dispatch.
CallerCancelled(j) ==
    /\ future[j] = "pending"
    /\ future' = [future EXCEPT ![j] = "cancelled"]
    /\ UNCHANGED <<phase, queue, tasks, holds, llm_queue_depth, stranded>>

\* lifespan leaves: stop cancels every worker, then awaits them one by one.
StopCancels ==
    /\ phase = "running"
    /\ phase' = "stopping"
    /\ UNCHANGED <<queue, tasks, holds, future, llm_queue_depth, stranded>>

\* A cancelled worker unwinds.  CancelledError is no Exception: the handler that
\* would settle the future does not see it.
Unwind(w) ==
    /\ phase = "stopping"
    /\ w \in tasks
    /\ tasks' = tasks \ {w}
    /\ holds' = [holds EXCEPT ![w] = {}]
    /\ stranded' = stranded \cup {j \in holds[w] : future[j] = "pending"}
    /\ UNCHANGED <<phase, queue, future, llm_queue_depth>>

\* (Mutant: stop does not wait for the workers it cancelled.)
StopReturnsAtOnce ==
    /\ phase = "stopping"
    /\ phase' = "stopped"
    /\ queue' = <<>>
    /\ stranded' = stranded \cup {j \in Jobs : future[j] = "pending"}
    /\ UNCHANGED <<tasks, holds, future, llm_queue_depth>>

\* Every worker is done: stop drops the queue, with the jobs still in it.
StopReturns ==
    /\ phase = "stopping"
    /\ tasks = {}
    /\ phase' = "stopped"
    /\ queue' = <<>>
    /\ stranded' = stranded \cup {j \in Jobs : future[j] = "pending"}
    /\ UNCHANGED <<tasks, holds, future, llm_queue_depth>>

Next ==
    \/ Start \/ StopCancels \/ StopReturns
    \/ \E j \in Jobs : Submit(j) \/ CallerCancelled(j)
    \/ \E w \in Workers : Get(w) \/ Finish(w) \/ Unwind(w)

\* Waiting workers are woken, a dispatch ends (Dispatch.tla, DispatchEnds), and a
\* cancelled task unwinds.  Nothing forces a request, a cancellation, a start or a stop.
Fairness ==
    /\ WF_vars(\E w \in Workers : Get(w))
    /\ \A w \in Workers : WF_vars(Finish(w)) /\ WF_vars(Unwind(w))
    /\ WF_vars(StopReturns)

Spec == Init /\ [][Next]_vars /\ Fairness

-----------------------------------------------------------------------------
InQueue(j) == \E i \in 1..Len(queue) : queue[i] = j
Holders(j) == {w \in tasks : j \in holds[w]}

\* Where things are agrees with the phase: no worker and no job outlives a stop, no task
\* is missing while the pool runs, only a live worker holds a job, and what is queued or
\* held is a job some submit accepted.
Whereabouts ==
    /\ phase = "stopped" => tasks = {} /\ queue = <<>>
    /\ phase = "running" => tasks = Workers
    /\ \A w \in Workers : holds[w] # {} => w \in tasks
    /\ \A j \in Jobs : InQueue(j) \/ Holders(j) # {} => future[j] \in {"pending"} \cup Settled

\* No job is lost or duplicated: a job whose caller still waits is in the queue
\* once, or held by one live worker, and not both, unless a stop stranded it.
NoJobLost ==
    \A j \in Jobs : future[j] = "pending" /\ j \notin stranded =>
        \/ InQueue(j) /\ Holders(j) = {}
        \/ ~InQueue(j) /\ \E w \in tasks : Holders(j) = {w}

\* The same job is nowhere twice, its caller gone or not.
NoJobTwice ==
    /\ \A i, k \in 1..Len(queue) : queue[i] = queue[k] => i = k
    /\ \A v, w \in Workers : v # w => holds[v] \cap holds[w] = {}
    /\ \A j \in Jobs : InQueue(j) => Holders(j) = {}

\* A future is settled once: neither a late result nor a late exception changes
\* what its caller has seen, in particular that it was cancelled.
SettledOnce ==
    [][\A j \in Jobs : future[j] \in Settled \cup Refused => future'[j] = future[j]]_vars

\* The gauge shows the queue as long as there is something in it.  (Between a stop
\* that drops a queue and the next job it keeps its last value.)
DepthShown == queue # <<>> => llm_queue_depth = Len(queue)

\* Backpressure never turns into a hang: every accepted job is settled, however many
\* cancelled callers left theirs in front of it, unless a stop came first.
JobsSettle == \A j \in Jobs : future[j] = "pending" ~> future[j] \in Settled \/ j \in stranded
==============================================================================
