--------------------------- MODULE WorkQueueProofs ---------------------------
(***************************************************************************)
(* Theorems about WorkQueue.tla, for every set of jobs and workers and     *)
(* every bound of the queue.                                               *)
(***************************************************************************)
EXTENDS WorkQueue, SequenceTheorems, TLAPS

\* The queue stays a short sequence of jobs, and the gauge follows it where it must.
QueueOK(q, depth) ==
    /\ q \in Seq(Jobs)
    /\ Len(q) <= QueueMaxsize
    /\ depth \in 0..QueueMaxsize
    /\ q # <<>> => depth = Len(q)
    /\ \A i, k \in 1..Len(q) : q[i] = q[k] => i = k

Inv == TypeOK /\ Whereabouts /\ NoJobLost /\ NoJobTwice /\ DepthShown

\* A worker that comes back to the queue moves the head of it into its hands.
LEMMA TakeNextFacts ==
    ASSUME Inv, NEW w \in Workers, TakeNext(w)
    PROVE  /\ QueueOK(queue', llm_queue_depth')
           /\ holds' \in [Workers -> {{}} \cup {{j} : j \in Jobs}]
           /\ \A v \in Workers \ {w} : holds'[v] = holds[v]
           /\ \A k \in holds'[w] : InQueue(k) /\ ~InQueue(k)'
           /\ \A k \in Jobs : k \notin holds'[w] => (InQueue(k)' <=> InQueue(k))
  <1>1. /\ QueueOK(queue, llm_queue_depth)
        /\ holds \in [Workers -> {{}} \cup {{j} : j \in Jobs}]
    BY DEF Inv, TypeOK, NoJobTwice, DepthShown, QueueOK
  <1>2. CASE queue = <<>>
    BY <1>1, <1>2 DEF TakeNext, QueueOK, InQueue
  <1>3. CASE queue # <<>>
    <2>1. /\ Tail(queue) \in Seq(Jobs)
          /\ Len(queue) \in Nat \ {0}
          /\ Len(Tail(queue)) = Len(queue) - 1
          /\ \A i \in 1..(Len(queue) - 1) : Tail(queue)[i] = queue[i + 1]
          /\ Head(queue) = queue[1]
          /\ Head(queue) \in Jobs
      BY <1>1, <1>3, HeadTailProperties, EmptySeq, LenProperties DEF QueueOK
    <2>2. /\ queue' = Tail(queue)
          /\ llm_queue_depth' = Len(Tail(queue))
          /\ holds' = [holds EXCEPT ![w] = {Head(queue)}]
      BY <1>3 DEF TakeNext
    <2>. PICK head \in Jobs : head = queue[1]
      BY <2>1
    <2>3. QueueOK(queue', llm_queue_depth')
      BY <1>1, <2>1, <2>2, WorkQueueAssumption DEF QueueOK
    <2>4. holds'[w] = {head} /\ \A v \in Workers \ {w} : holds'[v] = holds[v]
      BY <1>1, <2>1, <2>2
    <2>5. InQueue(head) /\ ~InQueue(head)'
      BY <1>1, <2>1, <2>2 DEF InQueue, QueueOK
    <2>6. ASSUME NEW k \in Jobs, k # head
          PROVE  InQueue(k)' <=> InQueue(k)
      <3>1. InQueue(k)' => InQueue(k)
        BY <2>1, <2>2 DEF InQueue
      <3>2. ASSUME NEW i \in 1..Len(queue), queue[i] = k
            PROVE  InQueue(k)'
        <4>1. i - 1 \in 1..Len(queue') /\ queue'[i - 1] = queue[i]
          BY <2>1, <2>2, <2>6, <3>2
        <4>2. QED
          BY <3>2, <4>1 DEF InQueue
      <3>3. QED
        BY <3>1, <3>2 DEF InQueue
    <2>7. holds' \in [Workers -> {{}} \cup {{j} : j \in Jobs}]
      BY <1>1, <2>1, <2>2
    <2>8. QED
      BY <2>3, <2>4, <2>5, <2>6, <2>7
  <1>4. QED
    BY <1>2, <1>3

\* What Settle does to a future: it ends a pending one of the jobs given, and no other.
LEMMA SettleFacts ==
    ASSUME TypeOK, NEW js \in SUBSET Jobs, NEW how \in {"result", "exception"}
    PROVE  /\ Settle(js, how) \in [Jobs -> {"none", "pending"} \cup Settled \cup Refused]
           /\ \A j \in Jobs : Settle(js, how)[j] =
                  IF j \in js /\ future[j] = "pending" THEN how ELSE future[j]
  BY DEF TypeOK, Settle, Settled


\* A worker that takes its next job, after settling what it held or with nothing to
\* settle, leaves every job where the invariant wants it.
LEMMA NextJobInv ==
    ASSUME Inv, NEW w \in Workers, phase = "running", TakeNext(w),
           future' \in [Jobs -> {"none", "pending"} \cup Settled \cup Refused],
           \A j \in Jobs : /\ \/ future'[j] = future[j]
                              \/ future[j] = "pending" /\ future'[j] \in Settled
                           /\ j \in holds[w] => future'[j] # "pending",
           UNCHANGED <<phase, tasks, stranded>>
    PROVE  Inv'
  <1>1. /\ QueueOK(queue', llm_queue_depth')
        /\ holds' \in [Workers -> {{}} \cup {{j} : j \in Jobs}]
        /\ \A v \in Workers \ {w} : holds'[v] = holds[v]
        /\ \A k \in holds'[w] : InQueue(k) /\ ~InQueue(k)'
        /\ \A k \in Jobs : k \notin holds'[w] => (InQueue(k)' <=> InQueue(k))
    BY TakeNextFacts
  <1>2. TypeOK' /\ DepthShown'
    BY <1>1 DEF Inv, TypeOK, QueueOK, DepthShown
  <1>3. tasks = Workers
    BY DEF Inv, Whereabouts
  <1>4. ASSUME NEW k \in Jobs
        PROVE  /\ Holders(k) = {v \in Workers : k \in holds[v]}
               /\ Holders(k)' = {v \in Workers : k \in holds'[v]}
    BY <1>3 DEF Holders
  <1>5. \A v \in Workers : holds'[v] \subseteq Jobs /\ holds[v] \subseteq Jobs
    BY <1>1 DEF Inv, TypeOK
  <1>6. NoJobTwice'
    <2>1. ASSUME NEW k \in Jobs, InQueue(k)'
          PROVE  Holders(k)' = {}
      BY <1>1, <1>4, <2>1 DEF Inv, NoJobTwice
    <2>2. ASSUME NEW u \in Workers, NEW v \in Workers, u # v
          PROVE  holds'[u] \cap holds'[v] = {}
      <3> SUFFICES ASSUME NEW k \in Jobs, k \in holds'[u], k \in holds'[v]
                   PROVE  FALSE
        BY <1>5
      <3>1. CASE u # w /\ v # w
        BY <1>1, <2>2, <3>1 DEF Inv, NoJobTwice
      <3>2. CASE u = w \/ v = w
        <4>1. InQueue(k) /\ Holders(k) # {}
          BY <1>1, <1>4, <2>2, <3>2
        <4>2. QED
          BY <4>1 DEF Inv, NoJobTwice
      <3>3. QED
        BY <3>1, <3>2
    <2>3. QED
      BY <1>1, <2>1, <2>2 DEF NoJobTwice, QueueOK
  <1>7. Whereabouts'
    <2>1. ASSUME NEW k \in Jobs, InQueue(k)' \/ Holders(k)' # {}
          PROVE  future'[k] \in {"pending"} \cup Settled
      <3>1. InQueue(k) \/ Holders(k) # {}
        BY <1>1, <1>4, <2>1
      <3>2. QED
        BY <3>1 DEF Inv, Whereabouts
    <2>2. QED
      BY <1>3, <2>1 DEF Whereabouts
  <1>8. NoJobLost'
    <2> SUFFICES ASSUME NEW k \in Jobs, future'[k] = "pending", k \notin stranded
                 PROVE  \/ InQueue(k)' /\ Holders(k)' = {}
                        \/ ~InQueue(k)' /\ \E v \in Workers : Holders(k)' = {v}
      BY <1>3 DEF NoJobLost
    <2>1. future[k] = "pending" /\ k \notin holds[w]
      BY DEF Settled
    <2>2. \/ InQueue(k) /\ Holders(k) = {}
          \/ ~InQueue(k) /\ \E v \in Workers : Holders(k) = {v}
      BY <1>3, <2>1 DEF Inv, NoJobLost
    <2>3. CASE k \in holds'[w]
      BY <1>1, <1>4, <2>2, <2>3
    <2>4. CASE k \notin holds'[w]
      BY <1>1, <1>4, <2>1, <2>2, <2>4
    <2>5. QED
      BY <2>3, <2>4
  <1>9. QED
    BY <1>2, <1>6, <1>7, <1>8 DEF Inv


\* Every step keeps every job accounted for.
LEMMA InvNext == Inv /\ [Next]_vars => Inv'
  <1> SUFFICES ASSUME Inv, [Next]_vars
               PROVE  Inv'
    OBVIOUS
  <1>1. CASE Start
    <2>1. holds = [w \in Workers |-> {}] /\ \A j \in Jobs : ~InQueue(j)
      BY <1>1 DEF Start, Inv, TypeOK, Whereabouts, InQueue
    <2>2. TypeOK' /\ DepthShown' /\ Whereabouts' /\ NoJobTwice'
      BY <1>1, <2>1, EmptySeq, WorkQueueAssumption
         DEF Start, Inv, TypeOK, DepthShown, Whereabouts, NoJobTwice, InQueue, Holders
    <2>3. NoJobLost'
      BY <1>1, <2>1 DEF Start, Inv, Whereabouts, NoJobLost, InQueue, Holders
    <2>4. QED
      BY <2>2, <2>3 DEF Inv
  <1>2. ASSUME NEW j \in Jobs, Submit(j), future'[j] = "pending"
        PROVE  Inv'
    <2>1. /\ queue' = Append(queue, j)
          /\ Len(queue) < QueueMaxsize
          /\ llm_queue_depth' = Len(queue')
          /\ future' = [future EXCEPT ![j] = "pending"]
          /\ future[j] = "none"
          /\ phase # "stopped"
          /\ UNCHANGED <<phase, tasks, holds, stranded>>
      <3>1. phase # "stopped" /\ ~Full /\ Accept(j)
        BY <1>2 DEF Submit, Raise, Inv, TypeOK
      <3>2. Len(queue) < QueueMaxsize
        BY <3>1, LenProperties, WorkQueueAssumption DEF Full, Inv, TypeOK
      <3>3. QED
        BY <1>2, <3>1, <3>2 DEF Submit, Accept
    <2>2. /\ queue' \in Seq(Jobs)
          /\ Len(queue) \in Nat
          /\ Len(queue') = Len(queue) + 1
          /\ \A i \in 1..Len(queue) : queue'[i] = queue[i]
          /\ queue'[Len(queue) + 1] = j
      BY <2>1, AppendProperties, LenProperties DEF Inv, TypeOK
    <2>3. ~InQueue(j) /\ Holders(j) = {}
      BY <2>1 DEF Inv, Whereabouts, Settled
    <2>4. ASSUME NEW k \in Jobs
          PROVE  InQueue(k)' <=> InQueue(k) \/ k = j
      BY <2>2 DEF InQueue
    <2>5. TypeOK' /\ DepthShown'
      BY <2>1, <2>2, WorkQueueAssumption DEF Inv, TypeOK, DepthShown
    <2>6. Whereabouts'
      BY <2>1, <2>4 DEF Inv, TypeOK, Whereabouts, Holders
    <2>7. NoJobTwice'
      <3>1. \A i, k \in 1..Len(queue') : queue'[i] = queue'[k] => i = k
        BY <2>2, <2>3 DEF Inv, NoJobTwice, InQueue
      <3>2. QED
        BY <2>1, <2>3, <2>4, <3>1 DEF Inv, NoJobTwice, Holders
    <2>8. NoJobLost'
      BY <2>1, <2>3, <2>4 DEF Inv, TypeOK, NoJobLost, Holders
    <2>9. QED
      BY <2>5, <2>6, <2>7, <2>8 DEF Inv
  <1>3. ASSUME NEW j \in Jobs, Submit(j), future'[j] # "pending"
        PROVE  Inv'
    <2>1. /\ \E how \in Refused : future' = [future EXCEPT ![j] = how]
          /\ future[j] = "none"
          /\ UNCHANGED <<phase, queue, tasks, holds, llm_queue_depth, stranded>>
      BY <1>3 DEF Submit, Full, Accept, Raise, Refused, Inv, TypeOK
    <2>2. ~InQueue(j) /\ Holders(j) = {}
      BY <2>1 DEF Inv, Whereabouts, Settled
    <2>3. TypeOK' /\ DepthShown'
      BY <2>1 DEF Inv, TypeOK, DepthShown
    <2>4. Whereabouts' /\ NoJobTwice'
      BY <2>1, <2>2 DEF Inv, TypeOK, Whereabouts, NoJobTwice, InQueue, Holders
    <2>5. NoJobLost'
      BY <2>1 DEF Inv, TypeOK, NoJobLost, InQueue, Holders, Refused
    <2>6. QED
      BY <2>3, <2>4, <2>5 DEF Inv
  <1>4. ASSUME NEW w \in Workers, Get(w)
        PROVE  Inv'
    BY <1>4, NextJobInv DEF Get, Inv, TypeOK
  <1>5. ASSUME NEW w \in Workers, Finish(w)
        PROVE  Inv'
    <2>1. PICK how \in {"result", "exception"} : future' = Settle(holds[w], how)
      BY <1>5 DEF Finish
    <2>2. holds[w] \in SUBSET Jobs
      BY DEF Inv, TypeOK
    <2>3. /\ future' \in [Jobs -> {"none", "pending"} \cup Settled \cup Refused]
          /\ \A j \in Jobs : future'[j] =
                 IF j \in holds[w] /\ future[j] = "pending" THEN how ELSE future[j]
      BY <2>1, <2>2, SettleFacts DEF Inv
    <2>4. QED
      BY <1>5, <2>3, NextJobInv DEF Finish, Settled
  <1>6. ASSUME NEW j \in Jobs, CallerCancelled(j)
        PROVE  Inv'
    <2>1. TypeOK' /\ DepthShown'
      BY <1>6 DEF CallerCancelled, Inv, TypeOK, DepthShown, Settled
    <2>2. Whereabouts' /\ NoJobTwice' /\ NoJobLost'
      BY <1>6 DEF CallerCancelled, Inv, TypeOK, Whereabouts, NoJobTwice, NoJobLost, InQueue,
                  Holders, Settled
    <2>3. QED
      BY <2>1, <2>2 DEF Inv
  <1>7. CASE StopCancels
    BY <1>7 DEF StopCancels, Inv, TypeOK, DepthShown, Whereabouts, NoJobTwice, NoJobLost,
                InQueue, Holders
  <1>8. ASSUME NEW w \in Workers, Unwind(w)
        PROVE  Inv'
    <2>1. /\ holds' = [holds EXCEPT ![w] = {}]
          /\ tasks' = tasks \ {w}
          /\ stranded' = stranded \cup {j \in holds[w] : future[j] = "pending"}
          /\ phase = "stopping"
          /\ UNCHANGED <<phase, queue, future, llm_queue_depth>>
      BY <1>8 DEF Unwind
    <2>2. TypeOK' /\ DepthShown'
      BY <2>1 DEF Inv, TypeOK, DepthShown
    <2>3. ASSUME NEW k \in Jobs
          PROVE  /\ InQueue(k)' <=> InQueue(k)
                 /\ Holders(k)' = Holders(k) \ {w}
      BY <2>1 DEF InQueue, Holders, Inv, TypeOK
    <2>4. Whereabouts' /\ NoJobTwice'
      BY <2>1, <2>3 DEF Inv, TypeOK, Whereabouts, NoJobTwice
    <2>5. NoJobLost'
      <3> SUFFICES ASSUME NEW k \in Jobs, future[k] = "pending", k \notin stranded'
                   PROVE  \/ InQueue(k)' /\ Holders(k)' = {}
                          \/ ~InQueue(k)' /\ \E v \in tasks' : Holders(k)' = {v}
        BY <2>1 DEF NoJobLost
      <3>1. k \notin stranded /\ k \notin holds[w]
        BY <2>1
      <3>2. Holders(k)' = Holders(k)
        BY <2>3, <3>1 DEF Holders
      <3>3. \/ InQueue(k) /\ Holders(k) = {}
            \/ ~InQueue(k) /\ \E v \in tasks : Holders(k) = {v}
        BY <3>1 DEF Inv, NoJobLost
      <3>4. QED
        BY <2>1, <2>3, <3>1, <3>2, <3>3 DEF Holders
    <2>6. QED
      BY <2>2, <2>4, <2>5 DEF Inv
  <1>9. CASE StopReturns
    <2>1. /\ TypeOK' /\ DepthShown' /\ NoJobTwice'
      BY <1>9, EmptySeq, WorkQueueAssumption
         DEF StopReturns, Inv, TypeOK, DepthShown, NoJobTwice, InQueue, Holders
    <2>2. Whereabouts' /\ NoJobLost'
      BY <1>9 DEF StopReturns, Inv, Whereabouts, NoJobLost, InQueue, Holders
    <2>3. QED
      BY <2>1, <2>2 DEF Inv
  <1>10. CASE UNCHANGED vars
    BY <1>10 DEF vars, Inv, TypeOK, DepthShown, Whereabouts, NoJobTwice, NoJobLost, InQueue, Holders
  <1>11. QED
    BY <1>1, <1>2, <1>3, <1>4, <1>5, <1>6, <1>7, <1>8, <1>9, <1>10 DEF Next

\* The inductive invariant: it holds in every reachable state.
LEMMA Invariant == Spec => []Inv
  <1>1. Init => Inv
    BY EmptySeq, WorkQueueAssumption
       DEF Init, Inv, TypeOK, Whereabouts, NoJobLost, NoJobTwice, DepthShown, InQueue, Holders
  <1>2. QED
    BY <1>1, InvNext, PTL DEF Spec

\* Types, and that workers, queue and jobs are where the phase says (start, stop, submit).
THEOREM TypeCorrect == Spec => [](TypeOK /\ Whereabouts)
  BY Invariant, PTL DEF Inv

\* The types alone, the bound of the queue among them (submit, put_nowait).
THEOREM TypesAreKept == Spec => []TypeOK
  BY TypeCorrect, PTL

\* No accepted job is lost: whoever still waits has its job in the queue once or in the
\* hands of exactly one live worker, unless a stop stranded it.
THEOREM NoJobIsLost == Spec => []NoJobLost
  BY Invariant, PTL DEF Inv

\* No job is anywhere twice, those whose caller is gone included.
THEOREM NoJobIsDoubled == Spec => []NoJobTwice
  BY Invariant, PTL DEF Inv

\* The gauge is right while there is something in the queue.
THEOREM GaugeIsRight == Spec => []DepthShown
  BY Invariant, PTL DEF Inv

\* A settled future stays as it is: the guard future.done() in the worker is enough
\* against every race of a result, an exception, a cancelled caller and a stop.
THEOREM FuturesSettleOnce == Spec => SettledOnce
  <1>1. Inv /\ [Next]_vars =>
            [\A j \in Jobs : future[j] \in Settled \cup Refused => future'[j] = future[j]]_vars
    <2> SUFFICES ASSUME Inv, [Next]_vars, NEW j \in Jobs, future[j] \in Settled \cup Refused
                 PROVE  future'[j] = future[j]
      OBVIOUS
    <2>1. future[j] \notin {"none", "pending"}
      BY DEF Settled, Refused
    <2>2. ASSUME NEW k \in Jobs, Submit(k) \/ CallerCancelled(k)
          PROVE  future'[j] = future[j]
      BY <2>1, <2>2 DEF Submit, Accept, Raise, CallerCancelled, Inv, TypeOK
    <2>3. ASSUME NEW w \in Workers, Finish(w)
          PROVE  future'[j] = future[j]
      BY <2>1, <2>3 DEF Finish, Settle
    <2>4. ASSUME NEW w \in Workers, Get(w) \/ Unwind(w)
          PROVE  future'[j] = future[j]
      BY <2>4 DEF Get, Unwind
    <2>5. CASE Start \/ StopCancels \/ StopReturns \/ UNCHANGED vars
      BY <2>5 DEF Start, StopCancels, StopReturns, vars
    <2>6. QED
      BY <2>2, <2>3, <2>4, <2>5 DEF Next
  <1>2. QED
    BY <1>1, Invariant, PTL DEF Spec, SettledOnce
==============================================================================
