----------------------------- MODULE ProxyProofs -----------------------------
(***************************************************************************)
(* Theorems about Proxy.tla, for every set of requests and workers, every  *)
(* chain and every bound.  What is proved of Dispatch.tla and of           *)
(* WorkQueue.tla carries over, since every step of the whole is one of     *)
(* each of them, or leaves it alone.                                       *)
(***************************************************************************)
EXTENDS Proxy, FiniteSetTheorems, SequenceTheorems, TLAPS

DP == INSTANCE DispatchProofs
QP == INSTANCE WorkQueueProofs WITH Jobs <- Chats

\* The assumptions of the two components.
LEMMA DispatchAssumed == DP!DispatchAssumption
  <1>1. IsFiniteSet(Chats \cup Streams)
    BY ProxyAssumption, FS_Union
  <1>2. QED
    BY <1>1, ProxyAssumption DEF DP!Requests, DP!IsFiniteSet, IsFiniteSet

LEMMA BreakerAssumed == DP!BreakerAssumption
  BY ProxyAssumption

LEMMA QueueAssumed == QP!WorkQueueAssumption
  BY ProxyAssumption DEF QP!IsFiniteSet, IsFiniteSet

(***************************************************************************)
(* Dispatch.                                                               *)
(***************************************************************************)

\* The two instances of Dispatch.tla are the same.
LEMMA SameMoveOn ==
    ASSUME NEW r, NEW i, NEW brs, D!MoveOn(r, i, brs)
    PROVE  DP!MoveOn(r, i, brs)
  BY DEF D!MoveOn, DP!MoveOn, D!Send, DP!Send, D!GivenUp, DP!GivenUp, D!Backends, DP!Backends,
         D!Allows, DP!Allows, D!Cooling, DP!Cooling, D!AfterAllow, DP!AfterAllow

LEMMA SameRecorded ==
    ASSUME NEW r
    PROVE  /\ D!Recorded(r, D!AfterFailure) = DP!Recorded(r, DP!AfterFailure)
           /\ D!Recorded(r, D!AfterSuccess) = DP!Recorded(r, DP!AfterSuccess)
  BY DEF D!Recorded, DP!Recorded, D!AfterFailure, DP!AfterFailure, D!AfterSuccess, DP!AfterSuccess,
         D!FreshBreaker, DP!FreshBreaker

LEMMA SameStep ==
    ASSUME NEW r \in Requests,
           \/ D!Start(r) \/ D!Answer(r) \/ D!WakeUp(r) \/ D!Chunk(r) \/ D!Cancel(r)
    PROVE  DP!Next
  <1>1. r \in DP!Requests
    BY DEF Requests, DP!Requests
  <1>2. CASE D!Start(r)
    <2>1. DP!Start(r)
      BY <1>2, SameMoveOn DEF D!Start, DP!Start
    <2>2. QED
      BY <1>1, <2>1 DEF DP!Next, DP!Step
  <1>3. CASE D!TransportError(r)
    <2>1. DP!TransportError(r)
      BY <1>3, SameMoveOn, SameRecorded
         DEF D!TransportError, DP!TransportError, D!Exhausted, DP!Exhausted, D!Backoff, DP!Backoff,
             D!history, DP!history
    <2>2. QED
      BY <1>1, <2>1 DEF DP!Next, DP!Step, DP!Answer
  <1>4. CASE D!BadGeneration(r)
    <2>1. DP!BadGeneration(r)
      BY <1>4, SameMoveOn, SameRecorded
         DEF D!BadGeneration, DP!BadGeneration, D!Exhausted, DP!Exhausted, D!Backoff, DP!Backoff,
             D!history, DP!history
    <2>2. QED
      BY <1>1, <2>1 DEF DP!Next, DP!Step, DP!Answer
  <1>5. ASSUME NEW how
        PROVE  D!End(r, how) => DP!End(r, how)
    BY DEF D!End, DP!End, D!counters, DP!counters, D!history, DP!history
  <1>6. CASE D!StreamBreaks(r)
    <2>1. DP!StreamBreaks(r)
      BY <1>5, <1>6, SameRecorded DEF D!StreamBreaks, DP!StreamBreaks
    <2>2. QED
      BY <1>1, <2>1 DEF DP!Next, DP!Step, DP!Answer
  <1>7. CASE D!GoodGeneration(r)
    <2>1. DP!GoodGeneration(r)
      BY <1>5, <1>7, SameRecorded DEF D!GoodGeneration, DP!GoodGeneration
    <2>2. QED
      BY <1>1, <2>1 DEF DP!Next, DP!Step, DP!Answer
  <1>8. CASE D!StreamEnds(r)
    <2>1. DP!StreamEnds(r)
      BY <1>5, <1>8, SameRecorded DEF D!StreamEnds, DP!StreamEnds
    <2>2. QED
      BY <1>1, <2>1 DEF DP!Next, DP!Step, DP!Answer
  <1>9. CASE D!EscapingError(r)
    <2>1. DP!EscapingError(r)
      BY <1>5, <1>9 DEF D!EscapingError, DP!EscapingError
    <2>2. QED
      BY <1>1, <2>1 DEF DP!Next, DP!Step, DP!Answer
  <1>10. CASE D!WakeUp(r)
    <2>1. DP!WakeUp(r)
      BY <1>10 DEF D!WakeUp, DP!WakeUp, D!Send, DP!Send, D!counters, DP!counters
    <2>2. QED
      BY <1>1, <2>1 DEF DP!Next, DP!Step
  <1>11. CASE D!Chunk(r)
    <2>1. DP!Chunk(r)
      BY <1>11 DEF D!Chunk, DP!Chunk, D!counters, DP!counters
    <2>2. QED
      BY <1>1, <2>1 DEF DP!Next, DP!Step
  <1>12. CASE D!Cancel(r)
    <2>1. DP!Cancel(r)
      BY <1>5, <1>12 DEF D!Cancel, DP!Cancel, D!Awaiting, DP!Awaiting
    <2>2. QED
      BY <1>1, <2>1 DEF DP!Next, DP!Step
  <1>13. QED
    BY <1>2, <1>3, <1>4, <1>6, <1>7, <1>8, <1>9, <1>10, <1>11, <1>12 DEF D!Answer

(***************************************************************************)
(* The queue.                                                              *)
(***************************************************************************)

\* The two instances of WorkQueue.tla are the same.
LEMMA SameTakeNext == ASSUME NEW w, Q!TakeNext(w) PROVE QP!TakeNext(w)
  BY DEF Q!TakeNext, QP!TakeNext

LEMMA SameWorkerSteps ==
    ASSUME NEW w \in Workers
    PROVE  /\ Q!Get(w) => QP!Get(w)
           /\ Q!Finish(w) => QP!Finish(w)
           /\ Q!Unwind(w) => QP!Unwind(w)
  <1>1. Q!Get(w) => QP!Get(w)
    BY SameTakeNext DEF Q!Get, QP!Get
  <1>2. Q!Finish(w) => QP!Finish(w)
    BY SameTakeNext DEF Q!Finish, QP!Finish, Q!Settle, QP!Settle
  <1>3. Q!Unwind(w) => QP!Unwind(w)
    BY DEF Q!Unwind, QP!Unwind
  <1>4. QED
    BY <1>1, <1>2, <1>3

LEMMA SameJobSteps ==
    ASSUME NEW j \in Chats
    PROVE  /\ Q!Submit(j) => QP!Submit(j)
           /\ Q!CallerCancelled(j) => QP!CallerCancelled(j)
  BY DEF Q!Submit, QP!Submit, Q!Raise, QP!Raise, Q!Accept, QP!Accept, Q!Full, QP!Full,
         Q!CallerCancelled, QP!CallerCancelled

LEMMA SameLifespanSteps ==
    /\ Q!Start => QP!Start
    /\ Q!StopCancels => QP!StopCancels
    /\ Q!StopReturns => QP!StopReturns
  BY DEF Q!Start, QP!Start, Q!StopCancels, QP!StopCancels, Q!StopReturns, QP!StopReturns

\* Every step of the whole is one of the queue, or leaves it alone.
LEMMA QueueSteps == [Next]_vars => [QP!Next]_(QP!vars)
  <1> SUFFICES ASSUME [Next]_vars
               PROVE  QP!Next \/ UNCHANGED QP!vars
    OBVIOUS
  <1>1. UNCHANGED queueVars => UNCHANGED QP!vars
    BY DEF queueVars, QP!vars
  <1>2. ASSUME NEW w \in Workers, Worker(w)
        PROVE  QP!Next \/ UNCHANGED QP!vars
    <2>1. /\ Q!Get(w) => QP!Next
          /\ Q!Finish(w) => QP!Next
          /\ Q!Unwind(w) => QP!Next
      BY SameWorkerSteps DEF QP!Next
    <2>2. CASE TakesJob(w)
      BY <2>1, <2>2 DEF TakesJob
    <2>3. CASE BeginsDispatch(w) \/ Dispatches(w)
      BY <1>1, <2>3 DEF BeginsDispatch, Dispatches
    <2>4. CASE EndsIteration(w)
      BY <2>1, <2>4 DEF EndsIteration
    <2>5. CASE Unwinds(w)
      BY <2>1, <2>5 DEF Unwinds
    <2>6. QED
      BY <1>2, <2>2, <2>3, <2>4, <2>5 DEF Worker
  <1>3. ASSUME NEW r \in Chats, Route(r)
        PROVE  QP!Next \/ UNCHANGED QP!vars
    <2>1. /\ Q!Submit(r) => QP!Next
          /\ Q!CallerCancelled(r) => QP!Next
      BY SameJobSteps DEF QP!Next
    <2>2. CASE SubmitsJob(r)
      BY <2>1, <2>2 DEF SubmitsJob
    <2>3. CASE AnswersJob(r)
      BY <1>1, <2>3 DEF AnswersJob
    <2>4. CASE RouteCancelled(r)
      BY <1>1, <2>1, <2>4 DEF RouteCancelled
    <2>5. QED
      BY <1>3, <2>2, <2>3, <2>4 DEF Route
  <1>4. CASE \/ \E r \in Streams : OpensStream(r) \/ Streaming(r)
             \/ \E r \in Requests : Declines(r)
             \/ Closed \/ Clock \/ UNCHANGED vars
    BY <1>1, <1>4 DEF OpensStream, Streaming, Declines, Closed, Clock, vars
  <1>5. CASE Starts \/ Stops \/ StopReturns
    BY <1>5, SameLifespanSteps DEF Starts, Stops, StopReturns, QP!Next
  <1>6. QED
    BY <1>2, <1>3, <1>4, <1>5 DEF Next

\* So the invariant of the queue holds of the whole.
LEMMA QueueInvInit == Init => QP!Inv
  BY EmptySeq, ProxyAssumption
     DEF Init, Q!Init, QP!Inv, QP!TypeOK, QP!Whereabouts, QP!NoJobLost, QP!NoJobTwice,
         QP!DepthShown, QP!InQueue, QP!Holders

LEMMA QueueInvNext == QP!Inv /\ [Next]_vars => QP!Inv'
  BY QueueSteps, QueueAssumed, QP!InvNext

(***************************************************************************)
(* What the invariants of the two components say of the types.             *)
(***************************************************************************)
LEMMA TypeFacts ==
    ASSUME DP!ChainInv, QP!Inv
    PROVE  /\ pc \in [Requests -> {"new"} \cup D!Awaiting \cup D!Ends]
           /\ holds \in [Workers -> {{}} \cup {{r} : r \in Chats}]
           /\ future \in [Chats -> {"none", "pending"} \cup Q!Settled \cup Q!Refused]
           /\ \A w \in Workers : holds[w] # {} => w \in tasks
           /\ phase \in {"stopped", "running", "stopping"}
  BY DEF DP!ChainInv, DP!TypeInv, DP!TypeOK, DP!Requests, Requests, DP!Awaiting, DP!Ends,
         D!Awaiting, D!Ends, QP!Inv, QP!TypeOK, QP!Whereabouts, Q!Settled, Q!Refused,
         QP!Settled, QP!Refused

LEMMA DispatchInvInit == Init => DP!ChainInv
  <1>1. Init => DP!Init
    BY DEF Init, D!Init, DP!Init, D!FreshBreaker, DP!FreshBreaker, D!Requests, DP!Requests,
           D!Backends, DP!Backends
  <1>2. DP!Init => DP!ChainInv
    BY DispatchAssumed, BreakerAssumed, DP!TypeInvInit
       DEF DP!Init, DP!ChainInv, DP!ChainWalked, DP!ChainOf, DP!Backends
  <1>3. QED
    BY <1>1, <1>2

LEMMA AnsweredIsAnswer == ASSUME NEW r, Answered(r) PROVE D!Answer(r)
  BY DEF Answered, D!Answer

LEMMA SameTick == D!Tick => DP!Tick
  BY DEF D!Tick, DP!Tick, D!Backends, DP!Backends, D!AfterTick, DP!AfterTick, D!counters, DP!counters,
         D!history, DP!history

\* Every step of the whole is one of dispatch, or leaves it alone.
LEMMA DispatchSteps ==
    ASSUME DP!ChainInv, QP!Inv, [Next]_vars
    PROVE  [DP!Next]_(DP!vars)
  <1>1. UNCHANGED dispatchVars => UNCHANGED DP!vars
    BY DEF dispatchVars, DP!vars, DP!counters, DP!history
  <1>2. ASSUME NEW w \in Workers, Worker(w)
        PROVE  DP!Next \/ UNCHANGED DP!vars
    <2>1. ASSUME NEW r \in holds[w]
          PROVE  r \in Requests
      BY TypeFacts DEF Requests
    <2>2. CASE TakesJob(w) \/ EndsIteration(w)
      BY <1>1, <2>2 DEF TakesJob, EndsIteration
    <2>3. CASE BeginsDispatch(w)
      BY <2>1, <2>3, SameStep DEF BeginsDispatch
    <2>4. CASE Dispatches(w)
      BY <2>1, <2>4, SameStep, AnsweredIsAnswer DEF Dispatches
    <2>5. CASE Unwinds(w)
      BY <1>1, <2>1, <2>5, SameStep DEF Unwinds
    <2>6. QED
      BY <1>2, <2>2, <2>3, <2>4, <2>5 DEF Worker
  <1>3. ASSUME NEW r \in Streams, OpensStream(r) \/ Streaming(r)
        PROVE  DP!Next
    <2>1. r \in Requests
      BY DEF Requests
    <2>2. QED
      BY <1>3, <2>1, SameStep, AnsweredIsAnswer DEF OpensStream, Streaming
  <1>4. ASSUME NEW r \in Chats, Route(r)
        PROVE  UNCHANGED DP!vars
    BY <1>1, <1>4 DEF Route, SubmitsJob, AnswersJob, RouteCancelled
  <1>5. CASE (\E r \in Requests : Declines(r)) \/ Starts \/ Stops \/ StopReturns \/ Closed
             \/ UNCHANGED vars
    BY <1>1, <1>5 DEF Declines, Starts, Stops, StopReturns, Closed, vars
  <1>6. CASE Clock
    BY <1>6, SameTick DEF Clock, DP!Next
  <1>7. QED
    BY <1>2, <1>3, <1>4, <1>5, <1>6 DEF Next

\* So the invariant of dispatch holds of the whole.
LEMMA DispatchInvNext == DP!ChainInv /\ QP!Inv /\ [Next]_vars => DP!ChainInv'
  BY DispatchSteps, DispatchAssumed, BreakerAssumed, DP!ChainInvNext

(***************************************************************************)
(* How a dispatch moves.                                                   *)
(***************************************************************************)
LEMMA StartMoves ==
    ASSUME NEW r, D!Start(r)
    PROVE  /\ pc[r] = "new"
           /\ \E x \in {"calling", "AllBackendsFailed"} : pc' = [pc EXCEPT ![r] = x]
  BY DEF D!Start, D!MoveOn

LEMMA AnswerMoves ==
    ASSUME NEW r, D!Answer(r)
    PROVE  /\ pc[r] \in D!Awaiting
           /\ \E x \in D!Awaiting \cup (D!Ends \ {"cancelled"}) :
                  /\ pc' = [pc EXCEPT ![r] = x]
                  /\ x = "ContextTruncated" => FailOnTruncation
  <1>1. CASE D!TransportError(r)
    BY <1>1 DEF D!TransportError, D!Backoff, D!MoveOn, D!Awaiting, D!Ends
  <1>2. CASE D!BadGeneration(r)
    BY <1>2 DEF D!BadGeneration, D!Backoff, D!MoveOn, D!Awaiting, D!Ends
  <1>3. CASE D!GoodGeneration(r)
    BY <1>3 DEF D!GoodGeneration, D!End, D!Awaiting, D!Ends
  <1>4. CASE D!StreamBreaks(r) \/ D!StreamEnds(r) \/ D!EscapingError(r)
    BY <1>4 DEF D!StreamBreaks, D!StreamEnds, D!EscapingError, D!End, D!Awaiting, D!Ends
  <1>5. QED
    BY <1>1, <1>2, <1>3, <1>4 DEF D!Answer

LEMMA WakeUpMoves ==
    ASSUME NEW r, D!WakeUp(r)
    PROVE  pc[r] \in D!Awaiting /\ pc' = [pc EXCEPT ![r] = "calling"]
  BY DEF D!WakeUp, D!Awaiting

LEMMA CancelMoves ==
    ASSUME NEW r, D!Cancel(r)
    PROVE  pc[r] \in D!Awaiting /\ pc' = [pc EXCEPT ![r] = "cancelled"]
  BY DEF D!Cancel, D!End

\* A step of a stream moves no non-streaming request.
LEMMA StreamMoves ==
    ASSUME DP!ChainInv, QP!Inv, NEW r \in Streams, OpensStream(r) \/ Streaming(r), NEW s \in Chats
    PROVE  pc'[s] = pc[s]
  <1>1. r # s
    BY ProxyAssumption
  <1>2. \E x : pc' = [pc EXCEPT ![r] = x]
    BY StartMoves, AnsweredIsAnswer, AnswerMoves, CancelMoves DEF OpensStream, Streaming, D!Chunk
  <1>3. QED
    BY <1>1, <1>2, TypeFacts DEF Requests

(***************************************************************************)
(* The whole.  A dispatch runs in the hands of a worker, what is queued    *)
(* has not begun, what is settled by a worker has ended; and a stop finds  *)
(* every job in hand in the middle of its dispatch, which is why no worker *)
(* ever unwinds past the settling of a future.                             *)
(***************************************************************************)
HeldOK(r) ==
    /\ future[r] \in {"none"} \cup Q!Refused => pc[r] = "new"
    /\ QP!InQueue(r) => pc[r] = "new"
    /\ pc[r] \in D!Awaiting => \E w \in Workers : r \in holds[w]
    /\ \A w \in Workers : r \in holds[w] => pc[r] # "cancelled"
    /\ \A w \in Workers : r \in holds[w] /\ phase = "stopping" => pc[r] \in D!Awaiting
    /\ future[r] \in {"result", "exception"} => pc[r] \in D!Ends \ {"cancelled"}

AllHeldOK == \A r \in Chats : HeldOK(r)

ClientOK ==
    /\ client = "closed" => phase = "stopped"
    /\ met \cap Chats = {}

Parts == DP!ChainInv /\ QP!Inv
IInv == Parts /\ AllHeldOK /\ ClientOK

\* Nothing that leaves these alone disturbs it.
LEMMA StayHeld ==
    ASSUME AllHeldOK,
           UNCHANGED <<holds, queue>>,
           \A r \in Chats : pc'[r] = pc[r],
           \A r \in Chats : future'[r] = future[r],
           phase' # "stopping" \/ phase = "stopping"
    PROVE  AllHeldOK'
  BY DEF AllHeldOK, HeldOK, QP!InQueue

\* A worker that comes back to the queue: what it takes has not begun, what it leaves
\* has ended.
LEMMA TakeNextHeld ==
    ASSUME Parts, Parts', AllHeldOK, NEW w \in Workers, Q!TakeNext(w), phase = "running",
           UNCHANGED <<phase, pc>>,
           \A r \in holds[w] : pc[r] \in D!Ends,
           \A r \in Chats : future'[r] = future[r] \/
               (r \in holds[w] /\ future'[r] \in {"result", "exception"})
    PROVE  AllHeldOK'
  <1>1. /\ \A v \in Workers \ {w} : holds'[v] = holds[v]
        /\ \A r \in holds'[w] : QP!InQueue(r)
        /\ \A r \in Chats : QP!InQueue(r)' => QP!InQueue(r)
    <2>1. QP!TakeNext(w) /\ QP!Inv
      BY SameTakeNext DEF Parts
    <2>2. /\ \A v \in Workers \ {w} : holds'[v] = holds[v]
          /\ \A r \in holds'[w] : QP!InQueue(r) /\ ~QP!InQueue(r)'
          /\ \A r \in Chats : r \notin holds'[w] => (QP!InQueue(r)' <=> QP!InQueue(r))
      BY <2>1, QueueAssumed, QP!TakeNextFacts
    <2>3. QED
      BY <2>2
  <1> SUFFICES ASSUME NEW r \in Chats
               PROVE  HeldOK(r)'
    BY DEF AllHeldOK
  <1>2. HeldOK(r)
    BY DEF AllHeldOK
  <1>3. D!Awaiting \cap (D!Ends \cup {"new", "cancelled"}) = {} /\ "new" \notin D!Ends
    BY DEF D!Awaiting, D!Ends
  <1>4. \A v \in Workers : r \in holds'[v] => r \in holds[v] \/ (v = w /\ pc[r] = "new")
    BY <1>1, <1>2 DEF HeldOK
  <1>5. (future[r] \in {"none"} \cup Q!Refused => pc[r] = "new")'
    BY <1>2 DEF HeldOK, Q!Refused
  <1>6. (QP!InQueue(r) => pc[r] = "new")'
    BY <1>1, <1>2 DEF HeldOK
  <1>7. (pc[r] \in D!Awaiting => \E v \in Workers : r \in holds[v])'
    <2> SUFFICES ASSUME pc[r] \in D!Awaiting
                 PROVE  \E v \in Workers : r \in holds'[v]
      BY DEF D!Awaiting
    <2>1. PICK v \in Workers : r \in holds[v]
      BY <1>2 DEF HeldOK
    <2>2. v # w
      BY <1>3, <2>1
    <2>3. QED
      BY <1>1, <2>1, <2>2
  <1>8. (\A v \in Workers : r \in holds[v] => pc[r] # "cancelled")'
    BY <1>2, <1>4 DEF HeldOK
  <1>9. (future[r] \in {"result", "exception"} => pc[r] \in D!Ends \ {"cancelled"})'
    BY <1>2 DEF HeldOK, D!Ends
  <1>10. QED
    BY <1>5, <1>6, <1>7, <1>8, <1>9 DEF HeldOK

\* A worker in whose hands a dispatch begins or goes on.
LEMMA DispatchHeld ==
    ASSUME Parts, AllHeldOK, NEW w \in Workers, NEW r \in holds[w],
           D!Start(r) \/ D!Answer(r) \/ D!WakeUp(r),
           phase = "running", UNCHANGED queueVars
    PROVE  AllHeldOK'
  <1>1. r \in Chats /\ r \in Requests
    BY TypeFacts DEF Parts, Requests
  <1>2. PICK x \in D!Awaiting \cup (D!Ends \ {"cancelled"}) : pc' = [pc EXCEPT ![r] = x]
    BY StartMoves, AnswerMoves, WakeUpMoves DEF D!Awaiting, D!Ends
  <1>3. pc'[r] = x /\ \A s \in Chats \ {r} : pc'[s] = pc[s]
    BY <1>1, <1>2, TypeFacts DEF Parts, Requests
  <1>4. pc[r] \notin D!Ends
    BY StartMoves, AnswerMoves, WakeUpMoves DEF D!Awaiting, D!Ends
  <1>5. ~QP!InQueue(r) /\ future[r] \in {"pending"} \cup Q!Settled
    BY <1>1, TypeFacts
       DEF Parts, QP!Inv, QP!NoJobTwice, QP!Whereabouts, QP!Holders, QP!Settled, Q!Settled
  <1>6. HeldOK(r)'
    <2>1. x # "cancelled"
      BY DEF D!Awaiting
    <2>2. future[r] \notin {"none", "result", "exception"} \cup Q!Refused
      BY <1>1, <1>4, <1>5 DEF AllHeldOK, HeldOK, Q!Settled, Q!Refused
    <2>3. /\ r \in holds'[w]
          /\ future'[r] = future[r]
          /\ ~QP!InQueue(r)'
          /\ phase' # "stopping"
      BY <1>5 DEF queueVars, QP!InQueue
    <2>4. QED
      BY <1>3, <2>1, <2>2, <2>3 DEF HeldOK
  <1>7. \A s \in Chats \ {r} : HeldOK(s)'
    BY <1>3 DEF AllHeldOK, HeldOK, queueVars, QP!InQueue
  <1>8. QED
    BY <1>6, <1>7 DEF AllHeldOK

\* A worker that unwinds takes its dispatch with it.
LEMMA UnwindHeld ==
    ASSUME Parts, AllHeldOK, NEW w \in Workers, Unwinds(w)
    PROVE  AllHeldOK'
  <1>1. /\ holds' = [holds EXCEPT ![w] = {}]
        /\ UNCHANGED <<phase, queue, future>>
    BY DEF Unwinds, Q!Unwind
  <1>2. \A v \in Workers : holds'[v] = IF v = w THEN {} ELSE holds[v]
    BY <1>1, TypeFacts DEF Parts
  <1>3. CASE holds[w] = {}
    <2>1. pc' = pc
      BY <1>3 DEF Unwinds, dispatchVars
    <2>2. \A v \in Workers : holds'[v] = holds[v]
      BY <1>2, <1>3
    <2>3. QED
      BY <1>1, <2>1, <2>2 DEF AllHeldOK, HeldOK, QP!InQueue
  <1>4. CASE holds[w] # {}
    <2>1. PICK r \in holds[w] : D!Cancel(r)
      BY <1>4 DEF Unwinds
    <2>2. r \in Chats /\ r \in Requests /\ holds[w] = {r}
      BY TypeFacts DEF Parts, Requests
    <2>3. /\ pc[r] \in D!Awaiting
          /\ pc'[r] = "cancelled"
          /\ \A s \in Chats \ {r} : pc'[s] = pc[s]
      BY <2>1, <2>2, CancelMoves, TypeFacts DEF Parts, Requests
    <2>4. \A v \in Workers : r \notin holds'[v]
      BY <1>2, <2>2 DEF Parts, QP!Inv, QP!NoJobTwice
    <2>5. HeldOK(r)'
      BY <1>1, <2>2, <2>3, <2>4 DEF AllHeldOK, HeldOK, D!Awaiting, D!Ends, QP!InQueue
    <2>6. ASSUME NEW s \in Chats \ {r}
          PROVE  HeldOK(s)'
      <3>1. \A v \in Workers : s \in holds'[v] <=> s \in holds[v]
        BY <1>2, <2>2
      <3>2. QED
        BY <1>1, <2>3, <3>1 DEF AllHeldOK, HeldOK, QP!InQueue
    <2>7. QED
      BY <2>5, <2>6 DEF AllHeldOK
  <1>5. QED
    BY <1>3, <1>4

\* A job that is submitted has not begun.
LEMMA SubmitHeld ==
    ASSUME Parts, AllHeldOK, NEW r \in Chats, SubmitsJob(r)
    PROVE  AllHeldOK'
  <1>1. /\ future[r] = "none"
        /\ \E x \in {"pending"} \cup Q!Refused : future' = [future EXCEPT ![r] = x]
        /\ queue' = queue \/ queue' = Append(queue, r)
        /\ UNCHANGED <<phase, holds, pc>>
    BY DEF SubmitsJob, dispatchVars, Q!Submit, Q!Accept, Q!Raise, Q!Refused
  <1> SUFFICES ASSUME NEW s \in Chats
               PROVE  HeldOK(s)'
    BY DEF AllHeldOK
  <1>2. HeldOK(s)
    BY DEF AllHeldOK
  <1>3. QP!InQueue(s)' => QP!InQueue(s) \/ s = r
    <2>1. queue \in Seq(Chats)
      BY DEF Parts, QP!Inv, QP!TypeOK
    <2>2. CASE queue' = queue
      BY <2>2 DEF QP!InQueue
    <2>3. CASE queue' = Append(queue, r)
      <3>1. /\ Len(queue') = Len(queue) + 1
            /\ \A i \in 1..Len(queue) : queue'[i] = queue[i]
            /\ queue'[Len(queue) + 1] = r
            /\ Len(queue) \in Nat
        BY <2>1, <2>3, AppendProperties, LenProperties
      <3>2. QED
        BY <3>1 DEF QP!InQueue
    <2>4. QED
      BY <1>1, <2>2, <2>3
  <1>4. CASE s = r
    <2>1. pc[r] = "new" /\ future'[r] \in {"pending"} \cup Q!Refused
      BY <1>1, <1>2, <1>4, TypeFacts DEF HeldOK, Parts
    <2>2. QED
      BY <1>1, <1>2, <1>4, <2>1 DEF HeldOK, D!Awaiting, Q!Refused
  <1>5. CASE s # r
    <2>1. future'[s] = future[s]
      BY <1>1, <1>5, TypeFacts DEF Parts
    <2>2. QED
      BY <1>1, <1>2, <1>3, <1>5, <2>1 DEF HeldOK
  <1>6. QED
    BY <1>4, <1>5

\* A stop that begins finds every job in hand in the middle of its dispatch.
LEMMA StopsHeld ==
    ASSUME Parts, AllHeldOK, Stops
    PROVE  AllHeldOK'
  <1>1. UNCHANGED <<holds, queue, future, pc>>
    BY DEF Stops, Q!StopCancels, dispatchVars
  <1>2. \A w \in Workers : \A r \in holds[w] : pc[r] \in D!Awaiting
    <2> SUFFICES ASSUME NEW w \in Workers, NEW r \in holds[w]
                 PROVE  pc[r] \in D!Awaiting
      OBVIOUS
    <2>1. r \in Requests
      BY TypeFacts DEF Parts, Requests
    <2>2. pc[r] \notin {"new"} \cup D!Ends
      BY DEF Stops, MidIteration, Turning
    <2>3. QED
      BY <2>1, <2>2, TypeFacts DEF Parts
  <1>3. QED
    BY <1>1, <1>2 DEF AllHeldOK, HeldOK, QP!InQueue

LEMMA HeldNext ==
    ASSUME Parts, Parts', AllHeldOK, [Next]_vars
    PROVE  AllHeldOK'
  <1>1. ASSUME NEW w \in Workers, TakesJob(w)
        PROVE  AllHeldOK'
    <2>1. /\ phase = "running" /\ holds[w] = {} /\ Q!TakeNext(w)
          /\ UNCHANGED <<phase, future, pc>>
      BY <1>1 DEF TakesJob, Q!Get, dispatchVars
    <2>2. QED
      BY <2>1, TakeNextHeld
  <1>2. ASSUME NEW w \in Workers, BeginsDispatch(w) \/ Dispatches(w)
        PROVE  AllHeldOK'
    BY <1>2, DispatchHeld, AnsweredIsAnswer DEF BeginsDispatch, Dispatches
  <1>3. ASSUME NEW w \in Workers, EndsIteration(w)
        PROVE  AllHeldOK'
    <2>1. phase = "running" /\ Q!TakeNext(w) /\ UNCHANGED <<phase, pc>>
      BY <1>3 DEF EndsIteration, Q!Finish, dispatchVars
    <2>2. \A r \in holds[w] : pc[r] \in D!Ends
      BY <1>3, TypeFacts DEF EndsIteration, Parts
    <2>3. \A r \in Chats : future'[r] = future[r] \/
              (r \in holds[w] /\ future'[r] \in {"result", "exception"})
      BY <1>3 DEF EndsIteration, Q!Finish, Q!Settle
    <2>4. QED
      BY <2>1, <2>2, <2>3, TakeNextHeld
  <1>4. ASSUME NEW r \in Chats, AnswersJob(r) \/ RouteCancelled(r)
        PROVE  AllHeldOK'
    <2>1. CASE AnswersJob(r)
      BY <2>1, StayHeld DEF AnswersJob, dispatchVars, queueVars
    <2>2. CASE RouteCancelled(r)
      <3>1. CASE Q!CallerCancelled(r)
        <4>1. /\ future[r] = "pending"
              /\ future' = [future EXCEPT ![r] = "cancelled"]
              /\ UNCHANGED <<phase, queue, holds, pc>>
          BY <2>2, <3>1 DEF RouteCancelled, Q!CallerCancelled, dispatchVars
        <4>2. \A s \in Chats : future'[s] = IF s = r THEN "cancelled" ELSE future[s]
          BY <4>1, TypeFacts DEF Parts
        <4>3. QED
          BY <4>1, <4>2 DEF AllHeldOK, HeldOK, QP!InQueue, Q!Refused
      <3>2. CASE UNCHANGED queueVars
        BY <2>2, <3>2, StayHeld DEF RouteCancelled, dispatchVars, queueVars
      <3>3. QED
        BY <2>2, <3>1, <3>2 DEF RouteCancelled
    <2>3. QED
      BY <1>4, <2>1, <2>2
  <1>5. ASSUME NEW r \in Streams, OpensStream(r) \/ Streaming(r)
        PROVE  AllHeldOK'
    <2>1. \A s \in Chats : pc'[s] = pc[s]
      BY <1>5, StreamMoves DEF Parts
    <2>2. UNCHANGED queueVars
      BY <1>5 DEF OpensStream, Streaming
    <2>3. QED
      BY <2>1, <2>2, StayHeld DEF queueVars
  <1>6. CASE Starts \/ StopReturns
    <2>1. UNCHANGED <<holds, future, pc>> /\ queue' = <<>> /\ phase' # "stopping"
      BY <1>6 DEF Starts, StopReturns, Q!Start, Q!StopReturns, dispatchVars
    <2>2. \A r \in Chats : ~QP!InQueue(r)'
      BY <2>1, EmptySeq DEF QP!InQueue
    <2>3. QED
      BY <2>1, <2>2 DEF AllHeldOK, HeldOK
  <1>7. CASE (\E r \in Requests : Declines(r)) \/ Closed \/ Clock \/ UNCHANGED vars
    BY <1>7, StayHeld DEF Declines, Closed, Clock, D!Tick, vars, dispatchVars, queueVars
  <1>8. QED
    BY <1>1, <1>2, <1>3, <1>4, <1>5, <1>6, <1>7, UnwindHeld, SubmitHeld, StopsHeld
       DEF Next, Worker, Route

\* The client is closed only when no worker is left to use it.
LEMMA TouchesFacts ==
    ASSUME NEW r, Touches(r)
    PROVE  /\ client' = "closed" => client = "closed"
           /\ met' \subseteq met \cup {r}
           /\ client # "closed" => met' \subseteq met
  BY DEF Touches

LEMMA ClientNext ==
    ASSUME Parts, ClientOK, [Next]_vars
    PROVE  ClientOK'
  <1>1. ASSUME NEW w \in Workers, Worker(w)
        PROVE  ClientOK'
    <2>1. CASE TakesJob(w) \/ EndsIteration(w)
      BY <2>1 DEF TakesJob, EndsIteration, Q!Get, Q!Finish, clientVars, ClientOK
    <2>2. CASE BeginsDispatch(w) \/ Dispatches(w)
      BY <2>2, TouchesFacts DEF BeginsDispatch, Dispatches, queueVars, ClientOK
    <2>3. CASE Unwinds(w)
      BY <2>3, TouchesFacts DEF Unwinds, Q!Unwind, clientVars, ClientOK
    <2>4. QED
      BY <1>1, <2>1, <2>2, <2>3 DEF Worker
  <1>2. ASSUME NEW r \in Chats, Route(r)
        PROVE  ClientOK'
    BY <1>2 DEF Route, SubmitsJob, AnswersJob, RouteCancelled, Q!Submit, Q!CallerCancelled,
                clientVars, queueVars, ClientOK
  <1>3. ASSUME NEW r \in Streams, OpensStream(r) \/ Streaming(r)
        PROVE  ClientOK'
    <2>1. r \notin Chats
      BY ProxyAssumption
    <2>2. QED
      BY <1>3, <2>1, TouchesFacts DEF OpensStream, Streaming, queueVars, ClientOK
  <1>4. CASE Starts \/ Stops \/ StopReturns \/ Closed
    BY <1>4 DEF Starts, Stops, StopReturns, Closed, Q!Start, Q!StopCancels, Q!StopReturns,
                clientVars, queueVars, ClientOK
  <1>5. CASE (\E r \in Requests : Declines(r)) \/ Clock \/ UNCHANGED vars
    BY <1>5 DEF Declines, Clock, vars, clientVars, queueVars, ClientOK
  <1>6. QED
    BY <1>1, <1>2, <1>3, <1>4, <1>5 DEF Next

LEMMA IInvInit == Init => IInv
  <1>1. Init => Parts
    BY DispatchInvInit, QueueInvInit DEF Parts
  <1>2. Init => AllHeldOK /\ ClientOK
    BY EmptySeq
       DEF Init, D!Init, D!Requests, Q!Init, AllHeldOK, HeldOK, ClientOK, QP!InQueue,
           D!Awaiting, Q!Refused
  <1>3. QED
    BY <1>1, <1>2 DEF IInv

LEMMA IInvNext == IInv /\ [Next]_vars => IInv'
  <1> SUFFICES ASSUME IInv, [Next]_vars
               PROVE  IInv'
    OBVIOUS
  <1>1. Parts /\ Parts'
    BY DispatchInvNext, QueueInvNext DEF IInv, Parts
  <1>2. QED
    BY <1>1, HeldNext, ClientNext DEF IInv

LEMMA Invariant == Spec => []IInv
  <1>1. QED
    BY IInvInit, IInvNext, PTL DEF Spec

\* The whole is a composition of the two components: every step is a step of dispatch or
\* leaves it alone, and one of the queue or leaves it alone (dispatch, _run_worker).
THEOREM WholeIsComposed == Spec => [][DP!Next]_(DP!vars) /\ [][QP!Next]_(QP!vars)
  <1>1. IInv /\ [Next]_vars => [DP!Next]_(DP!vars) /\ [QP!Next]_(QP!vars)
    BY DispatchSteps, QueueSteps DEF IInv, Parts
  <1>2. QED
    BY <1>1, Invariant, PTL DEF Spec

\* So what each of them promises holds when the workers run the dispatches and a stop
\* cancels them: the chain is walked in order, and no job is lost or doubled.
THEOREM PartsKeepTheirPromises == Spec => [](DP!ChainWalked /\ QP!NoJobLost /\ QP!NoJobTwice)
  BY Invariant, PTL DEF IInv, Parts, DP!ChainInv, QP!Inv

\* And no dispatch is set back: a worker's turn, a stop or a stream of somebody else leaves a
\* dispatch where it is, and its own steps bring it closer to its end (_run_worker, dispatch,
\* dispatch_stream).
THEOREM DispatchesAdvance == Spec => DP!DispatchAdvances
  <1>1. IInv /\ [Next]_vars =>
            [\A r \in DP!Requests :
                 \/ UNCHANGED <<pc[r], idx[r], attempt[r], calls[r], refused[r]>>
                 \/ DP!StepsLeft(r)' \in Nat /\ DP!StepsLeft(r)' < DP!StepsLeft(r)]_(DP!vars)
    <2>1. IInv /\ [Next]_vars => DP!TypeInv /\ [DP!Next]_(DP!vars)
      BY DispatchSteps DEF IInv, Parts, DP!ChainInv
    <2>2. QED
      BY <2>1, DispatchAssumed, BreakerAssumed, DP!AdvanceNext
  <1>2. QED
    BY <1>1, Invariant, PTL DEF Spec, DP!DispatchAdvances

\* Nor does a queue full of jobs behind a dead backend, or a stop that cancels those at it,
\* keep its breaker cooling: only their failures do (allow, record_failure, stop).
THEOREM AnswersRearm == Spec => DP!OnlyAnswersRearm
  <1>1. IInv /\ [Next]_vars =>
            [\A b \in DP!Backends :
                (breakers[b].wait)' > breakers[b].wait =>
                    \E r \in DP!Engaged(b) :
                        DP!StepsLeft(r)' \in Nat /\ DP!StepsLeft(r)' < DP!StepsLeft(r)]_(DP!vars)
    <2>1. IInv /\ [Next]_vars => DP!TypeInv /\ [DP!Next]_(DP!vars)
      BY DispatchSteps DEF IInv, Parts, DP!ChainInv
    <2>2. QED
      BY <2>1, DispatchAssumed, BreakerAssumed, DP!RearmNext
  <1>2. QED
    BY <1>1, Invariant, PTL DEF Spec, DP!OnlyAnswersRearm

\* A dispatch runs only in the hands of one live worker, which holds nothing else, so a
\* stop leaves no upstream call of a non-streaming request behind (_run_worker, stop).
THEOREM HeldByWorkers == Spec => []DispatchesAreHeld
  <1>1. IInv => DispatchesAreHeld
    <2> SUFFICES ASSUME IInv, NEW r \in Chats, pc[r] \in D!Awaiting
                 PROVE  \E w \in tasks : holds[w] = {r} /\ \A v \in tasks : r \in holds[v] => v = w
      BY DEF DispatchesAreHeld
    <2>1. PICK w \in Workers : r \in holds[w]
      BY DEF IInv, AllHeldOK, HeldOK
    <2>2. w \in tasks /\ holds[w] = {r}
      BY <2>1, TypeFacts DEF IInv, Parts
    <2>3. \A v \in Workers : r \in holds[v] => v = w
      BY <2>1 DEF IInv, Parts, QP!Inv, QP!NoJobTwice
    <2>4. tasks \subseteq Workers
      BY DEF IInv, Parts, QP!Inv, QP!TypeOK
    <2>5. QED
      BY <2>2, <2>3, <2>4
  <1>2. QED
    BY <1>1, Invariant, PTL

\* lifespan closes the client under no non-streaming request, and hands none a client that
\* is being closed (lifespan, stop, aclose, get_client).
THEOREM ClientIsKept == Spec => []ChatsKeepTheirClient
  <1>1. IInv => ChatsKeepTheirClient
    <2> SUFFICES ASSUME IInv, client = "closed", NEW r \in Chats, pc[r] \in D!Awaiting
                 PROVE  FALSE
      BY DEF ChatsKeepTheirClient, IInv, ClientOK
    <2>1. PICK w \in Workers : r \in holds[w]
      BY DEF IInv, AllHeldOK, HeldOK
    <2>2. w \in tasks
      BY <2>1, TypeFacts DEF IInv, Parts
    <2>3. tasks = {}
      BY DEF IInv, ClientOK, Parts, QP!Inv, QP!Whereabouts
    <2>4. QED
      BY <2>2, <2>3
  <1>2. QED
    BY <1>1, Invariant, PTL

(***************************************************************************)
(* What becomes of a request, and what it is told.                         *)
(***************************************************************************)

\* A dispatch that has ended has ended, and a cut context ends it only where it is asked to.
Moved(r) ==
    \/ pc'[r] = pc[r]
    \/ pc[r] \notin D!Ends /\ (pc'[r] = "ContextTruncated" => FailOnTruncation)

LEMMA ChatMoves ==
    ASSUME Parts, [Next]_vars, NEW r \in Chats
    PROVE  Moved(r)
  <1>1. ASSUME NEW s \in Chats, D!Start(s) \/ D!Answer(s) \/ D!WakeUp(s) \/ D!Cancel(s)
        PROVE  Moved(r)
    <2>1. pc[s] \notin D!Ends
      BY <1>1, StartMoves, AnswerMoves, WakeUpMoves, CancelMoves DEF D!Awaiting, D!Ends
    <2>2. \E x : pc' = [pc EXCEPT ![s] = x] /\ (x = "ContextTruncated" => FailOnTruncation)
      BY <1>1, StartMoves, AnswerMoves, WakeUpMoves, CancelMoves
    <2>3. QED
      BY <2>1, <2>2, TypeFacts DEF Parts, Requests, Moved
  <1>2. ASSUME NEW w \in Workers, Worker(w)
        PROVE  Moved(r)
    <2>1. \A s \in holds[w] : s \in Chats
      BY TypeFacts DEF Parts
    <2>2. CASE TakesJob(w) \/ EndsIteration(w)
      BY <2>2 DEF TakesJob, EndsIteration, dispatchVars, Moved
    <2>3. CASE BeginsDispatch(w) \/ Dispatches(w)
      BY <1>1, <2>1, <2>3, AnsweredIsAnswer DEF BeginsDispatch, Dispatches
    <2>4. CASE Unwinds(w)
      BY <1>1, <2>1, <2>4 DEF Unwinds, dispatchVars, Moved
    <2>5. QED
      BY <1>2, <2>2, <2>3, <2>4 DEF Worker
  <1>3. ASSUME NEW s \in Chats, Route(s)
        PROVE  Moved(r)
    BY <1>3 DEF Route, SubmitsJob, AnswersJob, RouteCancelled, dispatchVars, Moved
  <1>4. ASSUME NEW s \in Streams, OpensStream(s) \/ Streaming(s)
        PROVE  Moved(r)
    BY <1>4, StreamMoves DEF Parts, Moved
  <1>5. CASE Starts \/ Stops \/ StopReturns \/ Closed \/ Clock \/ UNCHANGED vars
             \/ \E s \in Requests : Declines(s)
    BY <1>5 DEF Starts, Stops, StopReturns, Closed, Clock, D!Tick, Declines, vars, dispatchVars, Moved
  <1>6. QED
    BY <1>2, <1>3, <1>4, <1>5 DEF Next

\* What submit raised, a request that never submits, and a settled future stay as they are.
LEMMA FutureStays ==
    ASSUME Parts, [Next]_vars, NEW r \in Chats, future[r] # "pending",
           future[r] # "none" \/ reply[r] # "none"
    PROVE  future'[r] = future[r]
  <1>1. ASSUME NEW w \in Workers, Worker(w)
        PROVE  future'[r] = future[r]
    BY <1>1 DEF Worker, TakesJob, BeginsDispatch, Dispatches, EndsIteration, Unwinds, Q!Get,
                Q!Finish, Q!Settle, Q!Unwind, queueVars
  <1>2. ASSUME NEW s \in Chats, Route(s)
        PROVE  future'[r] = future[r]
    <2>1. CASE SubmitsJob(s)
      <3>1. s # r /\ \E x : future' = [future EXCEPT ![s] = x]
        BY <2>1 DEF SubmitsJob, Q!Submit, Q!Accept, Q!Raise
      <3>2. QED
        BY <3>1, TypeFacts DEF Parts
    <2>2. CASE AnswersJob(s)
      BY <2>2 DEF AnswersJob, queueVars
    <2>3. CASE RouteCancelled(s)
      <3>1. CASE Q!CallerCancelled(s)
        BY <3>1, TypeFacts DEF Q!CallerCancelled, Parts
      <3>2. QED
        BY <2>3, <3>1 DEF RouteCancelled, queueVars
    <2>4. QED
      BY <1>2, <2>1, <2>2, <2>3 DEF Route
  <1>3. ASSUME NEW s \in Streams, OpensStream(s) \/ Streaming(s)
        PROVE  future'[r] = future[r]
    BY <1>3 DEF OpensStream, Streaming, queueVars
  <1>4. CASE Starts \/ Stops \/ StopReturns \/ Closed \/ Clock \/ UNCHANGED vars
             \/ \E s \in Requests : Declines(s)
    BY <1>4 DEF Starts, Stops, StopReturns, Closed, Clock, Declines, vars, queueVars,
                Q!Start, Q!StopCancels, Q!StopReturns
  <1>5. QED
    BY <1>1, <1>2, <1>3, <1>4 DEF Next

\* What the route makes of the end of a dispatch.
EndFits(end, status, outs) ==
    \/ end = "returned" /\ status = "200" /\ outs = {"ok"}
    \/ end = "AllBackendsFailed" /\ status = "502" /\ outs = {"failed"}
    \/ end = "ContextTruncated" /\ status = "502" /\ outs = {"context_truncated"}
    \/ end = "escaped" /\ status = "500" /\ outs = {}

LEMMA StatusFacts ==
    ASSUME NEW r, pc[r] \in D!Ends \ {"cancelled"}
    PROVE  EndFits(pc[r], Status(r), Outcome(r))
  <1>1. CASE pc[r] = "returned"
    BY <1>1 DEF Status, Outcome, EndFits
  <1>2. CASE pc[r] = "AllBackendsFailed"
    BY <1>2 DEF Status, Outcome, EndFits
  <1>3. CASE pc[r] = "ContextTruncated"
    BY <1>3 DEF Status, Outcome, EndFits
  <1>4. CASE pc[r] = "escaped"
    BY <1>4 DEF Status, Outcome, EndFits
  <1>5. QED
    BY <1>1, <1>2, <1>3, <1>4 DEF D!Ends

\* What a request is told fits what has become of it, and so does what is counted.
Fits(r, status, outs) ==
    \/ r \in Chats /\ status = "gone" /\ outs = {} /\ future[r] # "pending"
    \/ status = "4xx" /\ outs = {} /\ (r \in Chats => future[r] = "none")
    \/ r \in Chats /\ status = "429" /\ outs = {"rejected"} /\ future[r] = "QueueBusy"
    \/ r \in Chats /\ status = "500" /\ outs = {} /\ future[r] = "RuntimeError"
    \/ r \in Chats /\ EndFits(pc[r], status, outs) /\ future[r] # "pending"
    \/ r \in Streams /\ status = "200" /\ outs = {"stream"}

Tells(r, status, outs) ==
    /\ reply[r] = "none"
    /\ reply' = [reply EXCEPT ![r] = status]
    /\ llm_requests_total' =
           [o \in Outcomes |-> IF o \in outs THEN llm_requests_total[o] + 1 ELSE llm_requests_total[o]]
    /\ Fits(r, status, outs)'

ReplyType ==
    /\ reply \in [Requests -> {"none", "gone"} \cup Statuses]
    /\ llm_requests_total \in [Outcomes -> Nat]

LEMMA SomebodyIsTold ==
    ASSUME IInv, ReplyType, [Next]_vars
    PROVE  \/ UNCHANGED routeVars
           \/ \E r \in Requests, status \in {"gone"} \cup Statuses, outs \in SUBSET Outcomes :
                  Tells(r, status, outs)
  <1>1. ASSUME NEW outs, Counting(outs)
        PROVE  llm_requests_total' =
                   [o \in Outcomes |->
                       IF o \in outs THEN llm_requests_total[o] + 1 ELSE llm_requests_total[o]]
    BY <1>1 DEF Counting, ReplyType
  <1>2. ASSUME UNCHANGED llm_requests_total
        PROVE  llm_requests_total' =
                   [o \in Outcomes |->
                       IF o \in {} THEN llm_requests_total[o] + 1 ELSE llm_requests_total[o]]
    BY <1>2 DEF ReplyType
  <1>3. /\ {"gone", "200", "429", "4xx", "500", "502"} \subseteq {"gone"} \cup Statuses
        /\ {{}, {"ok"}, {"stream"}, {"rejected"}, {"failed"}, {"context_truncated"}}
               \subseteq SUBSET Outcomes
    BY DEF Statuses, Outcomes
  <1>4. ASSUME NEW w \in Workers, Worker(w)
        PROVE  UNCHANGED routeVars
    BY <1>4 DEF Worker, TakesJob, BeginsDispatch, Dispatches, EndsIteration, Unwinds
  <1>5. CASE Starts \/ Stops \/ StopReturns \/ Closed \/ Clock \/ UNCHANGED vars
    BY <1>5 DEF Starts, Stops, StopReturns, Closed, Clock, vars
  <1>6. ASSUME NEW r \in Requests, Declines(r)
        PROVE  Tells(r, "4xx", {})
    BY <1>2, <1>6 DEF Declines, Replying, Tells, Fits, queueVars
  <1>7. ASSUME NEW r \in Chats, SubmitsJob(r)
        PROVE  \/ Tells(r, "429", {"rejected"}) \/ Tells(r, "500", {}) \/ UNCHANGED routeVars
    BY <1>1, <1>2, <1>7 DEF SubmitsJob, Replying, Tells, Fits
  <1>8. ASSUME NEW r \in Chats, AnswersJob(r)
        PROVE  \E status \in {"gone"} \cup Statuses, outs \in SUBSET Outcomes : Tells(r, status, outs)
    <2>1. pc[r] \in D!Ends \ {"cancelled"}
      BY <1>8 DEF AnswersJob, IInv, AllHeldOK, HeldOK
    <2>2. EndFits(pc[r], Status(r), Outcome(r))
      BY <2>1, StatusFacts
    <2>3. PICK status, outs : status = Status(r) /\ outs = Outcome(r)
      OBVIOUS
    <2>4. EndFits(pc[r], status, outs) /\ EndFits(pc'[r], status, outs)
      BY <1>8, <2>2, <2>3 DEF AnswersJob, dispatchVars
    <2>5. Tells(r, status, outs)
      BY <1>1, <1>8, <2>3, <2>4 DEF AnswersJob, Replying, Tells, Fits, EndFits, queueVars
    <2>6. QED
      BY <1>3, <2>4, <2>5 DEF EndFits
  <1>9. ASSUME NEW r \in Chats, RouteCancelled(r)
        PROVE  Tells(r, "gone", {})
    <2>1. future'[r] # "pending"
      BY <1>9, TypeFacts DEF RouteCancelled, Q!CallerCancelled, queueVars, IInv, Parts
    <2>2. QED
      BY <1>2, <1>9, <2>1 DEF RouteCancelled, Replying, Tells, Fits
  <1>10. ASSUME NEW r \in Streams, OpensStream(r)
         PROVE  Tells(r, "200", {"stream"})
    BY <1>1, <1>10 DEF OpensStream, Replying, Tells, Fits
  <1>11. ASSUME NEW r \in Streams, Streaming(r)
         PROVE  UNCHANGED routeVars
    BY <1>11 DEF Streaming
  <1>12. Chats \subseteq Requests /\ Streams \subseteq Requests
    BY DEF Requests
  <1>13. ASSUME NEW r \in Chats, Route(r)
         PROVE  \/ UNCHANGED routeVars
                \/ \E q \in Requests, status \in {"gone"} \cup Statuses, outs \in SUBSET Outcomes :
                       Tells(q, status, outs)
    BY <1>3, <1>7, <1>8, <1>9, <1>12, <1>13 DEF Route
  <1>14. QED
    BY <1>3, <1>4, <1>5, <1>6, <1>10, <1>11, <1>12, <1>13 DEF Next

\* What a request was told still fits.
StatusOK(r) ==
    /\ reply[r] = "200" => pc[r] = "returned"
    /\ reply[r] = "4xx" => future[r] = "none"
    /\ reply[r] = "429" => future[r] = "QueueBusy"
    /\ reply[r] = "502" => pc[r] \in {"AllBackendsFailed", "ContextTruncated"}
    /\ reply[r] = "500" => future[r] = "RuntimeError" \/ pc[r] = "escaped"
    /\ reply[r] # "none" => future[r] # "pending"
    /\ pc[r] = "ContextTruncated" => FailOnTruncation

AllStatusOK == ReplyType /\ \A r \in Chats : StatusOK(r)

LEMMA ReplyTypeNext ==
    ASSUME IInv, ReplyType, [Next]_vars
    PROVE  ReplyType'
  <1>1. CASE UNCHANGED routeVars
    BY <1>1 DEF routeVars, ReplyType
  <1>2. ASSUME NEW r \in Requests, NEW status \in {"gone"} \cup Statuses, NEW outs \in SUBSET Outcomes,
               Tells(r, status, outs)
        PROVE  ReplyType'
    BY <1>2 DEF Tells, ReplyType
  <1>3. QED
    BY <1>1, <1>2, SomebodyIsTold

LEMMA StatusNext ==
    ASSUME IInv, AllStatusOK, [Next]_vars
    PROVE  AllStatusOK'
  <1>1. ReplyType'
    BY ReplyTypeNext DEF AllStatusOK
  <1>2. ASSUME NEW r \in Chats
        PROVE  StatusOK(r)'
    <2>1. StatusOK(r) /\ ReplyType /\ Parts /\ r \in Requests
      BY DEF AllStatusOK, IInv, Requests
    <2>2. pc'[r] = "ContextTruncated" => FailOnTruncation
      BY <2>1, ChatMoves DEF StatusOK, Moved
    <2>3. CASE reply'[r] = reply[r]
      <3>1. pc[r] \in D!Ends => pc'[r] = pc[r]
        BY <2>1, ChatMoves DEF Moved
      <3>2. future[r] # "pending" /\ reply[r] # "none" => future'[r] = future[r]
        BY <2>1, FutureStays
      <3>3. QED
        BY <2>1, <2>2, <2>3, <3>1, <3>2 DEF StatusOK, D!Ends
    <2>4. CASE reply'[r] # reply[r]
      <3>1. PICK status \in {"gone"} \cup Statuses, outs \in SUBSET Outcomes : Tells(r, status, outs)
        <4>1. ~UNCHANGED routeVars
          BY <2>4 DEF routeVars
        <4>2. PICK q \in Requests, status \in {"gone"} \cup Statuses, outs \in SUBSET Outcomes :
                  Tells(q, status, outs)
          BY <2>1, <4>1, SomebodyIsTold
        <4>3. q = r
          BY <2>1, <2>4, <4>2 DEF Tells, ReplyType
        <4>4. QED
          BY <4>2, <4>3
      <3>2. reply'[r] = status
        BY <2>1, <3>1 DEF Tells, ReplyType
      <3>3. r \notin Streams
        BY ProxyAssumption
      <3>4. QED
        BY <2>2, <3>1, <3>2, <3>3 DEF Tells, Fits, EndFits, StatusOK
    <2>5. QED
      BY <2>3, <2>4
  <1>3. QED
    BY <1>1, <1>2 DEF AllStatusOK

LEMMA StatusInvariant == Spec => [](IInv /\ AllStatusOK)
  <1>1. Init => AllStatusOK
    BY DEF Init, D!Init, D!Requests, Requests, AllStatusOK, ReplyType, StatusOK, Statuses, Outcomes
  <1>2. QED
    BY <1>1, IInvInit, IInvNext, StatusNext, PTL DEF Spec

\* The status of a non-streaming request tells what happened upstream: a 200 that a backend
\* answered, a 429 that nobody was asked, a 502 that the chain was refused or used up to its
\* last backend or that a cut context is to be reported (chat_completions, completions).
THEOREM StatusIsHonest == Spec => []HonestStatus
  <1>1. IInv /\ AllStatusOK => HonestStatus
    <2> SUFFICES ASSUME IInv, AllStatusOK, NEW r \in Chats
                 PROVE  /\ reply[r] = "200" => pc[r] = "returned"
                        /\ reply[r] = "4xx" => pc[r] = "new" /\ future[r] = "none"
                        /\ reply[r] = "429" => \A b \in 1..NumBackends : calls[r][b] = 0
                        /\ reply[r] = "502" =>
                               \/ pc[r] = "ContextTruncated" /\ FailOnTruncation
                               \/ \A b \in 1..NumBackends :
                                      b \in refused[r] \/ calls[r][b] = MaxRetries + 1
                        /\ reply[r] = "500" => pc[r] \in {"new", "escaped"}
      BY DEF HonestStatus
    <2>1. StatusOK(r) /\ HeldOK(r) /\ r \in DP!Requests /\ r \notin Streams
      BY ProxyAssumption DEF AllStatusOK, IInv, AllHeldOK, DP!Requests
    <2>2. DP!PositionOf(r) /\ DP!ChainOf(r)
      BY <2>1 DEF IInv, Parts, DP!ChainInv, DP!TypeInv, DP!Positions, DP!ChainWalked
    <2>3. pc[r] = "new" => \A b \in 1..NumBackends : calls[r][b] = 0
      BY <2>2 DEF DP!PositionOf, DP!ChainOf, DP!Backends
    <2>4. pc[r] = "AllBackendsFailed" =>
              \A b \in 1..NumBackends : b \in refused[r] \/ calls[r][b] = MaxRetries + 1
      BY <2>1, <2>2, ProxyAssumption DEF DP!PositionOf, DP!ChainOf, DP!Backends, DP!Tries
    <2>5. QED
      BY <2>1, <2>3, <2>4 DEF StatusOK, HeldOK, Q!Refused
  <1>2. QED
    BY <1>1, StatusInvariant, PTL

(***************************************************************************)
(* The counter.                                                            *)
(***************************************************************************)
HasOutcome(r, o) ==
    \/ o = "ok" /\ r \in Chats /\ reply[r] = "200"
    \/ o = "stream" /\ r \in Streams /\ reply[r] = "200"
    \/ o = "rejected" /\ reply[r] = "429"
    \/ o = "context_truncated" /\ reply[r] = "502" /\ r \in Chats /\ pc[r] = "ContextTruncated"
    \/ o = "failed" /\ reply[r] = "502" /\ ~(r \in Chats /\ pc[r] = "ContextTruncated")

With(o) == {r \in Requests : HasOutcome(r, o)}

Accounts == \A o \in Outcomes : llm_requests_total[o] = Cardinality(With(o))

LEMMA FiniteWith == ASSUME NEW o PROVE IsFiniteSet(With(o)) /\ Cardinality(With(o)) \in Nat
  <1>1. IsFiniteSet(Requests) /\ With(o) \subseteq Requests
    BY ProxyAssumption, FS_Union DEF Requests, With
  <1>2. QED
    BY <1>1, FS_Subset, FS_CardinalityType

\* Those that have been told something keep the outcome they have.
LEMMA OutcomeStays ==
    ASSUME IInv, AllStatusOK, [Next]_vars, NEW r \in Requests, NEW o, reply'[r] = reply[r]
    PROVE  HasOutcome(r, o)' <=> HasOutcome(r, o)
  <1>1. CASE r \in Chats /\ reply[r] = "502"
    <2>1. pc[r] \in D!Ends
      BY <1>1 DEF AllStatusOK, StatusOK, D!Ends
    <2>2. pc'[r] = pc[r]
      BY <1>1, <2>1, ChatMoves DEF IInv, Moved
    <2>3. QED
      BY <2>2 DEF HasOutcome
  <1>2. CASE ~(r \in Chats /\ reply[r] = "502")
    BY <1>2 DEF HasOutcome
  <1>3. QED
    BY <1>1, <1>2

LEMMA AccountsNext ==
    ASSUME IInv, AllStatusOK, Accounts, [Next]_vars
    PROVE  Accounts'
  <1>1. CASE UNCHANGED routeVars
    <2> SUFFICES ASSUME NEW o \in Outcomes
                 PROVE  llm_requests_total'[o] = Cardinality(With(o)')
      BY DEF Accounts
    <2>1. With(o)' = With(o)
      BY <1>1, OutcomeStays DEF routeVars, With
    <2>2. QED
      BY <1>1, <2>1 DEF routeVars, Accounts
  <1>2. ASSUME NEW r \in Requests, NEW status \in {"gone"} \cup Statuses, NEW outs \in SUBSET Outcomes,
               Tells(r, status, outs)
        PROVE  Accounts'
    <2> SUFFICES ASSUME NEW o \in Outcomes
                 PROVE  llm_requests_total'[o] = Cardinality(With(o)')
      BY DEF Accounts
    <2>1. /\ reply[r] = "none" /\ reply'[r] = status
          /\ \A q \in Requests \ {r} : reply'[q] = reply[q]
          /\ llm_requests_total'[o] =
                 IF o \in outs THEN llm_requests_total[o] + 1 ELSE llm_requests_total[o]
      BY <1>2 DEF Tells, AllStatusOK, ReplyType
    <2>2. \A q \in Requests \ {r} : HasOutcome(q, o)' <=> HasOutcome(q, o)
      BY <2>1, OutcomeStays
    <2>3. ~HasOutcome(r, o) /\ r \notin With(o)
      BY <2>1 DEF HasOutcome, With
    <2>4. HasOutcome(r, o)' <=> o \in outs
      <3>1. ~(r \in Chats /\ r \in Streams)
        BY ProxyAssumption
      <3>2. QED
        BY <1>2, <2>1, <3>1 DEF Tells, Fits, EndFits, HasOutcome
    <2>5. With(o)' = IF o \in outs THEN With(o) \cup {r} ELSE With(o)
      BY <2>2, <2>3, <2>4 DEF With
    <2>6. o \in outs => Cardinality(With(o) \cup {r}) = Cardinality(With(o)) + 1
      BY <2>3, FiniteWith, FS_AddElement
    <2>7. QED
      BY <2>1, <2>5, <2>6 DEF Accounts
  <1>3. QED
    BY <1>1, <1>2, SomebodyIsTold DEF AllStatusOK

LEMMA AccountsInvariant == Spec => [](IInv /\ AllStatusOK /\ Accounts)
  <1>1. Init => Accounts
    <2> SUFFICES ASSUME Init, NEW o \in Outcomes
                 PROVE  llm_requests_total[o] = Cardinality(With(o))
      BY DEF Accounts
    <2>1. With(o) = {}
      BY DEF Init, With, HasOutcome
    <2>2. QED
      BY <2>1, FS_EmptySet DEF Init
  <1>2. QED
    BY <1>1, AccountsNext, StatusInvariant, PTL DEF Spec

\* Every request that the proxy answers itself is counted once, under the outcome it had,
\* and nothing else is counted (the routes, llm_requests_total).
THEOREM RequestsAreAccounted == Spec => []RequestsAccounted
  <1>1. IInv /\ AllStatusOK /\ Accounts => RequestsAccounted
    <2> SUFFICES ASSUME Accounts
                 PROVE  RequestsAccounted
      OBVIOUS
    <2> DEFINE Told(status, R) == {r \in R : reply[r] = status}
               Cut == {r \in Chats : pc[r] = "ContextTruncated"}
    <2>1. /\ With("ok") = Told("200", Chats)
          /\ With("stream") = Told("200", Streams)
          /\ With("rejected") = Told("429", Requests)
          /\ With("context_truncated") = Told("502", Requests) \cap Cut
          /\ With("failed") = Told("502", Requests) \ Cut
      BY DEF With, HasOutcome, Requests
    <2>2. /\ llm_requests_total["ok"] = Cardinality(With("ok"))
          /\ llm_requests_total["stream"] = Cardinality(With("stream"))
          /\ llm_requests_total["rejected"] = Cardinality(With("rejected"))
          /\ llm_requests_total["context_truncated"] = Cardinality(With("context_truncated"))
          /\ llm_requests_total["failed"] = Cardinality(With("failed"))
      BY DEF Accounts, Outcomes
    <2>3. QED
      BY <2>1, <2>2 DEF RequestsAccounted
  <1>2. QED
    BY <1>1, AccountsInvariant, PTL

(***************************************************************************)
(* The types.                                                              *)
(***************************************************************************)
RestOK ==
    /\ client \in {"none", "open", "closed"}
    /\ met \subseteq Requests
    /\ lifespans \in 0..MaxLifespans

LEMMA RestNext ==
    ASSUME IInv, RestOK, [Next]_vars
    PROVE  RestOK'
  <1>1. ASSUME NEW r \in Requests, Touches(r)
        PROVE  RestOK'
    BY <1>1 DEF Touches, RestOK
  <1>2. ASSUME NEW w \in Workers, Worker(w)
        PROVE  RestOK'
    <2>1. \A r \in holds[w] : r \in Requests
      BY TypeFacts DEF IInv, Parts, Requests
    <2>2. CASE TakesJob(w) \/ EndsIteration(w)
      BY <2>2 DEF TakesJob, EndsIteration, clientVars, RestOK
    <2>3. CASE BeginsDispatch(w) \/ Dispatches(w) \/ Unwinds(w)
      BY <1>1, <2>1, <2>3 DEF BeginsDispatch, Dispatches, Unwinds, clientVars, RestOK
    <2>4. QED
      BY <1>2, <2>2, <2>3 DEF Worker
  <1>3. ASSUME NEW r \in Streams, OpensStream(r) \/ Streaming(r)
        PROVE  RestOK'
    BY <1>1, <1>3 DEF OpensStream, Streaming, Requests
  <1>4. ASSUME NEW r \in Chats, Route(r)
        PROVE  RestOK'
    BY <1>4 DEF Route, SubmitsJob, AnswersJob, RouteCancelled, clientVars, RestOK
  <1>5. CASE Starts
    BY <1>5, ProxyAssumption DEF Starts, RestOK
  <1>6. CASE Stops \/ StopReturns \/ Closed \/ Clock \/ UNCHANGED vars
             \/ \E r \in Requests : Declines(r)
    BY <1>6 DEF Stops, StopReturns, Closed, Clock, Declines, vars, clientVars, RestOK
  <1>7. QED
    BY <1>2, <1>3, <1>4, <1>5, <1>6 DEF Next

\* The type invariant; in particular no outcome is counted more often than there are
\* requests, and no request is ever in a state the code does not know.
THEOREM TypesAreKept == Spec => []TypeOK
  <1>1. Init => RestOK
    BY ProxyAssumption DEF Init, RestOK
  <1>2. IInv /\ AllStatusOK /\ Accounts /\ RestOK => TypeOK
    <2> SUFFICES ASSUME IInv, AllStatusOK, Accounts, RestOK
                 PROVE  TypeOK
      OBVIOUS
    <2>1. D!TypeOK
      BY DEF IInv, Parts, DP!ChainInv, DP!TypeInv, DP!TypeOK, D!TypeOK, DP!Requests, D!Requests,
             DP!Backends, D!Backends, DP!Awaiting, D!Awaiting, DP!Ends, D!Ends,
             DP!Breaker, D!Breaker, DP!CircuitState, D!CircuitState
    <2>2. Q!TypeOK
      BY DEF IInv, Parts, QP!Inv, QP!TypeOK, Q!TypeOK, QP!Settled, Q!Settled, QP!Refused, Q!Refused
    <2>3. ASSUME NEW o \in Outcomes
          PROVE  llm_requests_total[o] \in 0..Cardinality(Requests)
      <3>1. IsFiniteSet(Requests) /\ With(o) \subseteq Requests
        BY ProxyAssumption, FS_Union DEF Requests, With
      <3>2. /\ Cardinality(With(o)) <= Cardinality(Requests)
            /\ Cardinality(With(o)) \in Nat /\ Cardinality(Requests) \in Nat
        BY <3>1, FS_Subset, FS_CardinalityType
      <3>3. QED
        BY <3>2 DEF Accounts
    <2>4. llm_requests_total \in [Outcomes -> 0..Cardinality(Requests)]
      BY <2>3 DEF AllStatusOK, ReplyType
    <2>5. QED
      BY <2>1, <2>2, <2>4 DEF TypeOK, AllStatusOK, ReplyType, RestOK
  <1>3. QED
    BY <1>1, <1>2, RestNext, AccountsInvariant, PTL DEF Spec

(***************************************************************************)
(* The service desk.                                                       *)
(***************************************************************************)
Waiting == {r \in Chats : Q!InQueue(r)}
AtDesk == UNION {holds[w] : w \in Workers}
Finished == {r \in Chats : future[r] \in {"result", "exception"}}

\* A sequence without repetitions is as long as the set of its elements is large.
LEMMA RoomTaken ==
    ASSUME NEW q \in Seq(Chats), \A i, k \in 1..Len(q) : q[i] = q[k] => i = k
    PROVE  Cardinality({r \in Chats : \E i \in 1..Len(q) : q[i] = r}) = Len(q)
  <1> DEFINE S == {r \in Chats : \E i \in 1..Len(q) : q[i] = r}
             f == [i \in 1..Len(q) |-> q[i]]
  <1>1. Len(q) \in Nat /\ \A i \in 1..Len(q) : q[i] \in Chats
    BY LenProperties, ElementOfSeq
  <1>2. f \in Bijection(1..Len(q), S)
    BY <1>1 DEF Bijection, Injection, Surjection, IsInjective
  <1>3. QED
    BY <1>1, <1>2, FS_CountingElements DEF ExistsBijection

\* Each worker holds one job at most: no more are at the desks than there are workers.
LEMMA DesksTaken ==
    ASSUME NEW h \in [Workers -> {{}} \cup {{r} : r \in Chats}]
    PROVE  Cardinality(UNION {h[w] : w \in Workers}) <= Cardinality(Workers)
  <1> DEFINE S == UNION {h[w] : w \in Workers}
             f == [r \in S |-> CHOOSE w \in Workers : r \in h[w]]
  <1>1. \A r \in S : f[r] \in Workers /\ r \in h[f[r]]
    OBVIOUS
  <1>2. f \in Injection(S, Workers)
    <2>1. ASSUME NEW r \in S, NEW s \in S, f[r] = f[s]
          PROVE  r = s
      <3>1. r \in h[f[r]] /\ s \in h[f[r]] /\ f[r] \in Workers
        BY <1>1, <2>1
      <3>2. h[f[r]] \in {{}} \cup {{c} : c \in Chats}
        BY <3>1
      <3>3. QED
        BY <3>1, <3>2
    <2>2. QED
      BY <1>1, <2>1 DEF Injection, IsInjective
  <1>3. QED
    BY <1>2, ProxyAssumption, FS_Injection

\* Where the jobs are, as the service sees it.
LEMMA ServiceFacts ==
    ASSUME IInv, AllStatusOK
    PROVE  /\ Cardinality(Waiting) = Len(queue)
           /\ Len(queue) \in 0..QueueMaxsize
           /\ \A r \in Chats : future[r] = "none" => r \notin Waiting \cup AtDesk \cup Finished
           /\ \A r \in Chats : future[r] = "pending" => reply[r] = "none"
           /\ AtDesk \subseteq Chats
           /\ phase \in {"stopped", "running", "stopping"}
           /\ phase = "stopped" => queue = <<>>
           /\ reply \in [Requests -> {"none", "gone"} \cup Statuses]
  <1>1. Parts /\ queue \in Seq(Chats) /\ Len(queue) <= QueueMaxsize
    BY DEF IInv, Parts, QP!Inv, QP!TypeOK
  <1>2. Cardinality(Waiting) = Len(queue)
    BY <1>1, RoomTaken DEF Waiting, Q!InQueue, Parts, QP!Inv, QP!NoJobTwice
  <1>3. Len(queue) \in 0..QueueMaxsize
    BY <1>1, LenProperties, ProxyAssumption
  <1>4. AtDesk \subseteq Chats
    BY <1>1, TypeFacts DEF AtDesk, Parts
  <1>5. ASSUME NEW r \in Chats, future[r] = "none"
        PROVE  r \notin Waiting \cup AtDesk \cup Finished
    <2>1. ~QP!InQueue(r) /\ QP!Holders(r) = {}
      BY <1>1, <1>5 DEF Parts, QP!Inv, QP!Whereabouts, QP!Settled
    <2>2. \A w \in Workers : r \notin holds[w]
      BY <1>1, <2>1, TypeFacts DEF Parts, QP!Holders
    <2>3. QED
      BY <1>5, <2>1, <2>2 DEF Waiting, AtDesk, Finished, Q!InQueue, QP!InQueue
  <1>6. \A r \in Chats : future[r] = "pending" => reply[r] = "none"
    BY DEF AllStatusOK, StatusOK
  <1>7. phase = "stopped" => queue = <<>>
    BY <1>1 DEF Parts, QP!Inv, QP!Whereabouts
  <1>8. QED
    BY <1>1, <1>2, <1>3, <1>4, <1>5, <1>6, <1>7, TypeFacts DEF AllStatusOK, ReplyType, Parts

Seen == <<phase # "stopped", Waiting, AtDesk, Finished, reply>>

\* What leaves the queue and the replies alone is not seen by the clients.
LEMMA Unseen == UNCHANGED <<queueVars, routeVars>> => UNCHANGED Seen
  BY DEF queueVars, routeVars, Seen, Waiting, AtDesk, Finished, Q!InQueue

LEMMA SeenIsAll == UNCHANGED Seen => UNCHANGED Service!vars
  BY DEF Seen, Service!vars, Waiting, AtDesk, Finished, Q!InQueue

LEMMA SameCardinality == ASSUME NEW S PROVE Service!Cardinality(S) = Cardinality(S)
  BY DEF Service!Cardinality, Cardinality

\* A worker that takes a job, done with the one it had or free, is a desk that calls.
LEMMA DeskCalls ==
    ASSUME IInv, IInv', AllStatusOK, NEW w \in Workers, Q!TakeNext(w),
           phase = "running", UNCHANGED <<phase, reply>>,
           \/ future' = future
           \/ \E how \in {"result", "exception"} : future' = Q!Settle(holds[w], how)
    PROVE  Service!Call
  <1>1. /\ Parts /\ Parts' /\ QP!TakeNext(w) /\ QP!Inv
        /\ holds \in [Workers -> {{}} \cup {{r} : r \in Chats}]
        /\ holds' \in [Workers -> {{}} \cup {{r} : r \in Chats}]
    BY SameTakeNext, TypeFacts DEF IInv, Parts, QP!Inv, QP!TypeOK
  <1>2. /\ \A v \in Workers \ {w} : holds'[v] = holds[v]
        /\ \A r \in holds'[w] : QP!InQueue(r) /\ ~QP!InQueue(r)'
        /\ \A r \in Chats : r \notin holds'[w] => (QP!InQueue(r)' <=> QP!InQueue(r))
    BY <1>1, QueueAssumed, QP!TakeNextFacts
  <1> DEFINE before == holds[w]
             next == holds'[w]
  <1>3. /\ before \in SUBSET AtDesk /\ before \subseteq Chats
        /\ next \in SUBSET Waiting
        /\ Cardinality(before) <= 1 /\ Cardinality(next) <= 1
    <2>1. before \in {{}} \cup {{r} : r \in Chats} /\ next \in {{}} \cup {{r} : r \in Chats}
      BY <1>1
    <2>2. Cardinality({}) = 0 /\ \A r \in Chats : Cardinality({r}) = 1
      BY FS_EmptySet, FS_Singleton
    <2>3. Cardinality(before) <= 1 /\ Cardinality(next) <= 1
      <3>1. (before = {} \/ \E r \in Chats : before = {r}) /\ (next = {} \/ \E r \in Chats : next = {r})
        BY <2>1
      <3> HIDE DEF before, next
      <3>2. QED
        BY <2>2, <3>1
    <2>4. before \subseteq AtDesk /\ before \subseteq Chats /\ next \subseteq Chats
      BY <2>1 DEF AtDesk
    <2>5. next \subseteq Waiting
      BY <1>2, <2>4 DEF Waiting, Q!InQueue, QP!InQueue
    <2>6. QED
      BY <2>3, <2>4, <2>5
  <1>4. AtDesk' = (AtDesk \ before) \cup next
    <2>1. \A v \in Workers : v # w => holds[v] \cap before = {}
      BY <1>1 DEF QP!Inv, QP!NoJobTwice
    <2>2. QED
      BY <1>2, <2>1 DEF AtDesk
  <1>5. Waiting' = Waiting \ next
    BY <1>2 DEF Waiting, Q!InQueue, QP!InQueue
  <1>6. Finished' \in {Finished, Finished \cup {r \in before : reply[r] = "none"}}
    <2>1. CASE future' = future \/ \A r \in before : future[r] # "pending"
      <3>1. \A r \in Chats : future'[r] = future[r]
        BY <1>3, <2>1 DEF Q!Settle
      <3>2. QED
        BY <3>1 DEF Finished
    <2>2. ASSUME NEW r \in before, future[r] = "pending",
                 NEW how \in {"result", "exception"}, future' = Q!Settle(holds[w], how)
          PROVE  Finished' = Finished \cup {s \in before : reply[s] = "none"}
      <3>1. before = {r} /\ r \in Chats
        BY <1>1
      <3>2. reply[r] = "none"
        BY <2>2, <3>1, ServiceFacts
      <3>3. \A s \in Chats : future'[s] = IF s = r THEN how ELSE future[s]
        BY <2>2, <3>1 DEF Q!Settle
      <3>4. QED
        BY <3>1, <3>2, <3>3 DEF Finished
    <2>3. QED
      BY <2>1, <2>2
  <1>7. Cardinality(AtDesk') <= Cardinality(Workers)
    BY <1>1, DesksTaken DEF AtDesk
  <1>8. UNCHANGED <<phase # "stopped", reply>>
    OBVIOUS
  <1> HIDE DEF before, next
  <1>9. QED
    BY <1>3, <1>4, <1>5, <1>6, <1>7, <1>8, SameCardinality
       DEF Service!Call, Waiting, AtDesk, Finished, Q!InQueue

\* A request that is admitted, or turned away.
LEMMA SubmitIsSeen ==
    ASSUME IInv, IInv', AllStatusOK, NEW r \in Chats, SubmitsJob(r)
    PROVE  Service!Enter(r) \/ Service!TurnAway(r)
  <1>1. /\ future[r] = "none" /\ reply[r] = "none"
        /\ r \notin Waiting \cup AtDesk \cup Finished
        /\ UNCHANGED <<phase, holds>>
    BY ServiceFacts DEF SubmitsJob, Q!Submit
  <1>2. AtDesk' = AtDesk
    BY <1>1 DEF AtDesk
  <1>3. \A x : future' = [future EXCEPT ![r] = x] =>
            /\ future'[r] = x
            /\ \A s \in Chats : s # r => future'[s] = future[s]
    BY TypeFacts DEF IInv, Parts
  <1>4. Cardinality(Waiting) = Len(queue) /\ Len(queue) \in 0..QueueMaxsize
    BY ServiceFacts
  <1>5. ASSUME NEW error \in {"QueueBusy", "RuntimeError"}, Q!Raise(r, error)
        PROVE  Waiting' = Waiting /\ Finished' = Finished /\ future'[r] = error
    <2>1. \A s \in Chats : future'[s] = IF s = r THEN error ELSE future[s]
      BY <1>3, <1>5 DEF Q!Raise
    <2>2. Finished' = Finished
      BY <1>1, <2>1 DEF Finished
    <2>3. QED
      BY <1>5, <2>1, <2>2 DEF Q!Raise, Waiting, Q!InQueue
  <1>6. CASE phase = "stopped" /\ Q!Raise(r, "RuntimeError")
    <2>1. reply' = [reply EXCEPT ![r] = "500"]
      BY <1>5, <1>6 DEF SubmitsJob, Replying
    <2>2. QED
      BY <1>1, <1>2, <1>5, <1>6, <2>1
         DEF Service!TurnAway, Service!Tells, Waiting, AtDesk, Finished, Q!InQueue
  <1>7. CASE phase # "stopped" /\ Q!Full /\ Q!Raise(r, "QueueBusy")
    <2>1. reply' = [reply EXCEPT ![r] = "429"]
      BY <1>5, <1>7 DEF SubmitsJob, Replying
    <2>2. Cardinality(Waiting) = QueueMaxsize
      BY <1>4, <1>7, ProxyAssumption DEF Q!Full
    <2>3. QED
      BY <1>1, <1>2, <1>5, <1>7, <2>1, <2>2, SameCardinality
         DEF Service!TurnAway, Service!Tells, Waiting, AtDesk, Finished, Q!InQueue
  <1>8. CASE phase # "stopped" /\ ~Q!Full /\ Q!Accept(r)
    <2>1. \A s \in Chats : future'[s] = IF s = r THEN "pending" ELSE future[s]
      BY <1>3, <1>8 DEF Q!Accept
    <2>2. reply' = reply
      BY <1>8, <2>1 DEF SubmitsJob, routeVars
    <2>3. Finished' = Finished
      BY <1>1, <2>1 DEF Finished
    <2>4. Waiting' = Waiting \cup {r}
      <3>1. queue \in Seq(Chats) /\ queue' = Append(queue, r)
        BY <1>8 DEF Q!Accept, IInv, Parts, QP!Inv, QP!TypeOK
      <3>2. /\ Len(queue') = Len(queue) + 1
            /\ \A i \in 1..Len(queue) : queue'[i] = queue[i]
            /\ queue'[Len(queue) + 1] = r
            /\ Len(queue) \in Nat
        BY <3>1, AppendProperties, LenProperties
      <3>3. ASSUME NEW s \in Chats
            PROVE  Q!InQueue(s)' <=> Q!InQueue(s) \/ s = r
        BY <3>2 DEF Q!InQueue
      <3>4. QED
        BY <3>3 DEF Waiting
    <2>5. Cardinality(Waiting) < QueueMaxsize
      BY <1>4, <1>8, ProxyAssumption DEF Q!Full
    <2>6. QED
      BY <1>1, <1>2, <1>8, <2>2, <2>3, <2>4, <2>5, SameCardinality
         DEF Service!Enter, Waiting, AtDesk, Finished, Q!InQueue
  <1>9. QED
    BY <1>6, <1>7, <1>8 DEF SubmitsJob, Q!Submit

\* A worker that unwinds clears its desk.
LEMMA UnwindIsSeen ==
    ASSUME IInv, NEW w \in Workers, Unwinds(w)
    PROVE  Service!Clear \/ UNCHANGED Seen
  <1>1. /\ phase = "stopping" /\ holds' = [holds EXCEPT ![w] = {}]
        /\ UNCHANGED <<phase, queue, future, reply>>
    BY DEF Unwinds, Q!Unwind, routeVars
  <1>2. \A v \in Workers : holds'[v] = IF v = w THEN {} ELSE holds[v]
    BY <1>1, TypeFacts DEF IInv, Parts
  <1>3. Waiting' = Waiting /\ Finished' = Finished
    BY <1>1 DEF Waiting, Finished, Q!InQueue
  <1>4. CASE holds[w] = {}
    BY <1>1, <1>2, <1>3, <1>4 DEF Seen, AtDesk
  <1>5. CASE holds[w] # {}
    <2>1. PICK r : holds[w] = {r}
      BY <1>5, TypeFacts DEF IInv, Parts
    <2>2. \A v \in Workers : v # w => r \notin holds[v]
      BY <2>1 DEF IInv, Parts, QP!Inv, QP!NoJobTwice
    <2>3. r \in AtDesk /\ AtDesk' = AtDesk \ {r}
      BY <1>2, <2>1, <2>2 DEF AtDesk
    <2>4. QED
      BY <1>1, <1>3, <2>3 DEF Service!Clear, Waiting, AtDesk, Finished, Q!InQueue
  <1>6. QED
    BY <1>4, <1>5

\* The routes that reply.
LEMMA RepliesAreSeen ==
    ASSUME IInv, AllStatusOK, NEW r \in Chats, AnswersJob(r) \/ RouteCancelled(r)
    PROVE  Service!Answer(r) \/ Service!Leave(r)
  <1>1. CASE AnswersJob(r)
    <2>1. Status(r) \in {"200", "500", "502"}
      BY <1>1, StatusFacts DEF AnswersJob, EndFits, IInv, AllHeldOK, HeldOK
    <2>2. r \in Finished /\ reply[r] = "none" /\ reply' = [reply EXCEPT ![r] = Status(r)]
      BY <1>1 DEF AnswersJob, Replying, Finished
    <2>3. UNCHANGED <<phase # "stopped", Waiting, AtDesk, Finished>>
      BY <1>1 DEF AnswersJob, queueVars, Waiting, AtDesk, Finished, Q!InQueue
    <2>4. QED
      BY <2>1, <2>2, <2>3 DEF Service!Answer, Service!Tells, Waiting, AtDesk, Finished, Q!InQueue
  <1>2. CASE RouteCancelled(r)
    <2>1. reply[r] = "none" /\ reply' = [reply EXCEPT ![r] = "gone"]
      BY <1>2 DEF RouteCancelled, Replying
    <2>2. UNCHANGED <<phase, queue, holds>>
      BY <1>2 DEF RouteCancelled, Q!CallerCancelled, queueVars
    <2>3. Finished' = Finished
      <3>1. CASE Q!CallerCancelled(r)
        <4>1. \A s \in Chats : future'[s] = IF s = r THEN "cancelled" ELSE future[s]
          BY <3>1, TypeFacts DEF Q!CallerCancelled, IInv, Parts
        <4>2. QED
          BY <3>1, <4>1 DEF Finished, Q!CallerCancelled
      <3>2. QED
        BY <1>2, <3>1 DEF RouteCancelled, queueVars, Finished
    <2>4. UNCHANGED <<phase # "stopped", Waiting, AtDesk>>
      BY <2>2 DEF Waiting, AtDesk, Q!InQueue
    <2>5. QED
      BY <2>1, <2>3, <2>4 DEF Service!Leave, Service!Tells, Waiting, AtDesk, Finished, Q!InQueue
  <1>3. QED
    BY <1>1, <1>2

\* The service opens, and closes when its desks are cleared.
LEMMA LifespanIsSeen ==
    ASSUME IInv, AllStatusOK, Starts \/ StopReturns
    PROVE  Service!Open \/ Service!Clear
  <1>1. /\ queue' = <<>> /\ UNCHANGED <<holds, future, reply>>
        /\ \/ phase = "stopped" /\ phase' = "running"
           \/ phase = "stopping" /\ phase' = "stopped" /\ tasks = {}
    BY DEF Starts, StopReturns, Q!Start, Q!StopReturns, routeVars
  <1>2. AtDesk' = AtDesk /\ Finished' = Finished
    BY <1>1 DEF AtDesk, Finished
  <1>3. Waiting' = {} /\ (queue = <<>> => Waiting = {})
    BY <1>1, EmptySeq DEF Waiting, Q!InQueue
  <1>4. CASE phase = "stopped"
    <2>1. Waiting = {} /\ phase' # "stopped"
      BY <1>1, <1>3, <1>4, ServiceFacts
    <2>2. QED
      BY <1>1, <1>2, <1>3, <1>4, <2>1 DEF Service!Open, Waiting, AtDesk, Finished, Q!InQueue
  <1>5. CASE phase # "stopped"
    <2>1. AtDesk = {}
      BY <1>1, <1>5, TypeFacts DEF AtDesk, IInv, Parts
    <2>2. phase' = "stopped" /\ UNCHANGED reply
      BY <1>1, <1>5
    <2>3. QED
      BY <1>2, <1>3, <1>5, <2>1, <2>2 DEF Service!Clear, Waiting, AtDesk, Finished, Q!InQueue
  <1>6. QED
    BY <1>4, <1>5

LEMMA StepIsSeen ==
    ASSUME IInv, IInv', AllStatusOK, [Next]_vars
    PROVE  [Service!Next]_(Service!vars)
  <1> SUFFICES Service!Next \/ UNCHANGED Seen
    BY SeenIsAll
  <1>1. ASSUME NEW w \in Workers, Worker(w)
        PROVE  Service!Next \/ UNCHANGED Seen
    <2>1. CASE TakesJob(w)
      BY <2>1, DeskCalls DEF TakesJob, Q!Get, routeVars, Service!Next
    <2>2. CASE EndsIteration(w)
      BY <2>2, DeskCalls DEF EndsIteration, Q!Finish, routeVars, Service!Next
    <2>3. CASE BeginsDispatch(w) \/ Dispatches(w)
      BY <2>3, Unseen DEF BeginsDispatch, Dispatches
    <2>4. CASE Unwinds(w)
      BY <2>4, UnwindIsSeen DEF Service!Next
    <2>5. QED
      BY <1>1, <2>1, <2>2, <2>3, <2>4 DEF Worker
  <1>2. ASSUME NEW r \in Chats, Route(r)
        PROVE  Service!Next
    BY <1>2, SubmitIsSeen, RepliesAreSeen DEF Route, Service!Next
  <1>3. ASSUME NEW r \in Streams, OpensStream(r)
        PROVE  Service!Pass(r)
    <2>1. UNCHANGED <<phase # "stopped", Waiting, AtDesk, Finished>>
      BY <1>3 DEF OpensStream, queueVars, Waiting, AtDesk, Finished, Q!InQueue
    <2>2. QED
      BY <1>3, <2>1
         DEF OpensStream, Replying, Service!Pass, Service!Tells, Waiting, AtDesk, Finished, Q!InQueue
  <1>4. ASSUME NEW r \in Requests, Declines(r)
        PROVE  Service!Decline(r)
    <2>1. UNCHANGED <<phase # "stopped", Waiting, AtDesk, Finished>>
      BY <1>4 DEF Declines, queueVars, Waiting, AtDesk, Finished, Q!InQueue
    <2>2. QED
      BY <1>4, <2>1
         DEF Declines, Replying, Service!Decline, Service!Tells, Waiting, AtDesk, Finished, Q!InQueue
  <1>5. CASE Starts \/ StopReturns
    BY <1>5, LifespanIsSeen DEF Service!Next
  <1>6. CASE (\E r \in Streams : Streaming(r)) \/ Closed \/ Clock \/ UNCHANGED vars
    BY <1>6, Unseen DEF Streaming, Closed, Clock, vars
  <1>7. CASE Stops
    <2>1. phase # "stopped" /\ phase' # "stopped" /\ UNCHANGED <<queue, holds, future, reply>>
      BY <1>7 DEF Stops, Q!StopCancels, routeVars
    <2>2. QED
      BY <2>1 DEF Seen, Waiting, AtDesk, Finished, Q!InQueue
  <1>8. QED
    BY <1>1, <1>2, <1>3, <1>4, <1>5, <1>6, <1>7 DEF Next, Service!Next, Requests

\* To its clients the proxy is the service desk of RequestService.tla: it turns a chat away
\* only when the waiting room is full or the service is not open, serves no more at a time
\* than it has workers, and answers each client once (routes, queue and workers together).
THEOREM ImplementsService == Spec => ImplementsRequestService
  <1>1. Init => Service!Init
    BY EmptySeq
       DEF Init, D!Init, Q!Init, D!Requests, Requests, Service!Init, Q!InQueue
  <1>2. QED
    BY <1>1, StepIsSeen, IInvNext, StatusInvariant, PTL
       DEF Spec, ImplementsRequestService, Service!Safety

==============================================================================
