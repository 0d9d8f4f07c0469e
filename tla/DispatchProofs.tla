---------------------------- MODULE DispatchProofs ----------------------------
(***************************************************************************)
(* Theorems about Dispatch.tla, for every set of requests, every chain,    *)
(* every number of retries, every threshold and every cooldown.            *)
(***************************************************************************)
EXTENDS Dispatch, FiniteSetTheorems, TLAPS

(***************************************************************************)
(* The operators on one breaker.                                           *)
(***************************************************************************)

\* Every operation of the registry gives a breaker.
LEMMA BreakerType ==
    ASSUME NEW br \in Breaker
    PROVE  /\ FreshBreaker \in Breaker
           /\ AfterAllow(br) \in Breaker
           /\ AfterSuccess(br) \in Breaker
           /\ AfterFailure(br) \in Breaker
           /\ AfterTick(br) \in Breaker
  <1>1. FreshBreaker \in Breaker /\ AfterSuccess(br) \in Breaker
    BY BreakerAssumption DEF Breaker, CircuitState, FreshBreaker, AfterSuccess
  <1>2. AfterAllow(br) \in Breaker
    BY DEF Breaker, CircuitState, AfterAllow
  <1>3. AfterFailure(br) \in Breaker
    BY BreakerAssumption DEF Breaker, CircuitState, AfterFailure
  <1>4. AfterTick(br) \in Breaker
    BY BreakerAssumption DEF Breaker, CircuitState, AfterTick
  <1>5. QED
    BY <1>1, <1>2, <1>3, <1>4

\* Every operation of the registry keeps a breaker consistent, in whatever state it
\* is applied: closed exactly while its failures are below the threshold.
LEMMA BreakerConsistent ==
    ASSUME NEW br \in Breaker, Consistent(br)
    PROVE  /\ Consistent(FreshBreaker)
           /\ Consistent(AfterAllow(br))
           /\ Consistent(AfterSuccess(br))
           /\ Consistent(AfterFailure(br))
           /\ Consistent(AfterTick(br))
  <1>1. Consistent(FreshBreaker) /\ Consistent(AfterSuccess(br))
    BY BreakerAssumption DEF Consistent, FreshBreaker, AfterSuccess
  <1>2. Consistent(AfterAllow(br)) /\ Consistent(AfterTick(br))
    BY DEF Breaker, Consistent, AfterAllow, AfterTick
  <1>3. Consistent(AfterFailure(br))
    BY BreakerAssumption DEF Breaker, CircuitState, Consistent, AfterFailure
  <1>4. QED
    BY <1>1, <1>2, <1>3


(***************************************************************************)
(* Type correctness and the position of each request.                      *)
(***************************************************************************)
TypeInv == TypeOK /\ Positions

LEMMA RecordedType ==
    ASSUME TypeOK, NEW r \in Requests, idx[r] \in Backends
    PROVE  /\ Recorded(r, AfterFailure) \in [Backends -> Breaker]
           /\ Recorded(r, AfterSuccess) \in [Backends -> Breaker]
  BY BreakerType DEF TypeOK, Recorded

LEMMA SendType ==
    ASSUME calls \in [Requests -> [Backends -> Nat]],
           NEW r \in Requests, NEW b \in Backends, Send(r, b)
    PROVE  calls' \in [Requests -> [Backends -> Nat]]
  <1>1. [calls[r] EXCEPT ![b] = @ + 1] \in [Backends -> Nat]
    OBVIOUS
  <1>2. QED
    BY <1>1 DEF Send

\* Moving on keeps the types and puts the request where it says it is.
LEMMA MoveOnTypeInv ==
    ASSUME TypeInv,
           NEW r \in Requests, pc[r] \in {"new", "calling"},
           NEW brs \in [Backends -> Breaker],
           MoveOn(r, idx[r], brs)
    PROVE  TypeInv'
  <1> USE DispatchAssumption DEF TypeInv, Backends, Awaiting, Ends
  <1>1. PICK j \in (idx[r] + 1)..(NumBackends + 1) :
            /\ idx' = [idx EXCEPT ![r] = j]
            /\ attempt' = [attempt EXCEPT ![r] = 0]
            /\ refused' = [refused EXCEPT ![r] = @ \cup ((idx[r] + 1)..(j - 1))]
            /\ llm_fallbacks_total' =
                   [b \in Backends |->
                       IF b \in GivenUp(r, idx[r], j) THEN llm_fallbacks_total[b] + 1
                                                      ELSE llm_fallbacks_total[b]]
            /\ \/ /\ j \in Backends
                  /\ breakers' = [brs EXCEPT ![j] = AfterAllow(@)]
                  /\ pc' = [pc EXCEPT ![r] = "calling"]
                  /\ Send(r, j)
               \/ /\ j \notin Backends
                  /\ breakers' = brs
                  /\ pc' = [pc EXCEPT ![r] = "AllBackendsFailed"]
                  /\ UNCHANGED calls
            /\ UNCHANGED <<llm_retries_total, emitted>>
    BY DEF MoveOn
  <1>2. idx[r] \in 0..NumBackends /\ j \in 1..(NumBackends + 1)
    BY <1>1 DEF TypeOK, Positions, PositionOf
  <1>3. TypeOK'
    <2>1. breakers' \in [Backends -> Breaker]
      BY <1>1, BreakerType
    <2>2. pc' \in [Requests -> {"new"} \cup Awaiting \cup Ends]
      BY <1>1 DEF TypeOK
    <2>3. idx' \in [Requests -> 0..(NumBackends + 1)] /\ attempt' \in [Requests -> 0..MaxRetries]
      BY <1>1, <1>2 DEF TypeOK
    <2>4. calls' \in [Requests -> [Backends -> Nat]]
      BY <1>1, SendType DEF TypeOK
    <2>5. refused' \in [Requests -> SUBSET Backends]
      <3>1. (idx[r] + 1)..(j - 1) \subseteq Backends
        BY <1>2
      <3>2. refused[r] \cup ((idx[r] + 1)..(j - 1)) \in SUBSET Backends
        BY <3>1 DEF TypeOK
      <3>3. QED
        BY <1>1, <3>2 DEF TypeOK
    <2>6. llm_fallbacks_total' \in [Backends -> Nat]
      BY <1>1 DEF TypeOK
    <2>7. QED
      BY <1>1, <2>1, <2>2, <2>3, <2>4, <2>5, <2>6 DEF TypeOK
  <1>4. Positions'
    <2> SUFFICES ASSUME NEW q \in Requests
                 PROVE  PositionOf(q)'
      BY DEF Positions
    <2>1. CASE q = r
      <3>1. emitted[r] = {} /\ emitted'[r] = {} /\ attempt'[r] = 0 /\ idx'[r] = j
        BY <1>1 DEF TypeOK, Positions, PositionOf
      <3>2. \/ pc'[r] = "calling" /\ j \in Backends
            \/ pc'[r] = "AllBackendsFailed" /\ j = NumBackends + 1
        BY <1>1, <1>2 DEF TypeOK
      <3>3. QED
        BY <2>1, <1>2, <3>1, <3>2 DEF PositionOf
    <2>2. CASE q # r
      BY <1>1, <2>2 DEF TypeOK, Positions, PositionOf
    <2>3. QED
      BY <2>1, <2>2
  <1>5. QED
    BY <1>3, <1>4


\* A request that stays where it is, with another pc, keeps the invariant if the new
\* pc fits its position.
LEMMA StayTypeInv ==
    ASSUME TypeInv,
           NEW r \in Requests, NEW how \in {"new"} \cup Awaiting \cup Ends,
           pc' = [pc EXCEPT ![r] = how],
           breakers' \in [Backends -> Breaker],
           llm_retries_total' \in [Backends -> Nat],
           UNCHANGED <<idx, attempt, llm_fallbacks_total, history>>,
           PositionOf(r)'
    PROVE  TypeInv'
  <1>1. TypeOK'
    BY DEF TypeInv, TypeOK, history
  <1>2. ASSUME NEW q \in Requests, q # r
        PROVE  PositionOf(q)'
    BY <1>2 DEF TypeInv, TypeOK, Positions, PositionOf, history
  <1>3. QED
    BY <1>1, <1>2 DEF TypeInv, Positions

\* Every step keeps the types and the positions.
LEMMA TypeInvNext == TypeInv /\ [Next]_vars => TypeInv'
  <1> SUFFICES ASSUME TypeInv, [Next]_vars
               PROVE  TypeInv'
    OBVIOUS
  <1> USE DispatchAssumption
  <1>1. ASSUME NEW r \in Requests, Start(r)
        PROVE  TypeInv'
    <2>1. idx[r] = 0 /\ pc[r] = "new" /\ breakers \in [Backends -> Breaker]
      BY <1>1 DEF Start, TypeInv, TypeOK, Positions, PositionOf
    <2>2. QED
      BY <1>1, <2>1, MoveOnTypeInv DEF Start
  <1>2. ASSUME NEW r \in Requests, pc[r] = "calling"
        PROVE  /\ idx[r] \in Backends
               /\ Recorded(r, AfterFailure) \in [Backends -> Breaker]
               /\ Recorded(r, AfterSuccess) \in [Backends -> Breaker]
    BY <1>2, RecordedType DEF TypeInv, Positions, PositionOf, Awaiting
  <1>3. ASSUME NEW r \in Requests, NEW brs \in [Backends -> Breaker],
               pc[r] = "calling", ~Exhausted(r), Backoff(r, brs)
        PROVE  TypeInv'
    <2>1. llm_retries_total' \in [Backends -> Nat]
      BY <1>2, <1>3 DEF Backoff, TypeInv, TypeOK
    <2>2. PositionOf(r)'
      BY <1>2, <1>3 DEF Backoff, Exhausted, Requests, TypeInv, TypeOK, Positions, PositionOf,
                        Awaiting, Ends, history
    <2>3. QED
      BY <1>3, <2>1, <2>2, StayTypeInv DEF Backoff, Awaiting
  <1>4. ASSUME NEW r \in Requests, TransportError(r)
        PROVE  TypeInv'
    BY <1>2, <1>3, <1>4, MoveOnTypeInv DEF TransportError
  <1>5. ASSUME NEW r \in Requests, BadGeneration(r)
        PROVE  TypeInv'
    <2>1. breakers \in [Backends -> Breaker]
      BY DEF TypeInv, TypeOK
    <2>2. QED
      BY <1>2, <1>3, <1>5, <2>1, MoveOnTypeInv DEF BadGeneration
  <1>6. ASSUME NEW r \in Requests, NEW how \in Ends, pc[r] \in Awaiting, End(r, how),
               how = "AllBackendsFailed" => (r \in Streams /\ emitted[r] # {}),
               breakers' \in [Backends -> Breaker]
        PROVE  TypeInv'
    <2>1. PositionOf(r)'
      BY <1>6 DEF End, TypeInv, TypeOK, Positions, PositionOf, Awaiting, Ends, counters, history
    <2>2. QED
      BY <1>6, <2>1, StayTypeInv DEF End, TypeInv, TypeOK, counters
  <1>7. ASSUME NEW r \in Requests,
               StreamBreaks(r) \/ GoodGeneration(r) \/ StreamEnds(r) \/ EscapingError(r) \/ Cancel(r)
        PROVE  TypeInv'
    <2>1. pc[r] \in Awaiting /\ idx[r] \in Backends /\ breakers \in [Backends -> Breaker]
      BY <1>7 DEF StreamBreaks, GoodGeneration, StreamEnds, EscapingError, Cancel, Awaiting,
                  TypeInv, TypeOK, Positions, PositionOf
    <2>2. breakers' \in [Backends -> Breaker]
      BY <1>7, <2>1, RecordedType
         DEF StreamBreaks, GoodGeneration, StreamEnds, EscapingError, Cancel, TypeInv
    <2>3. PICK how \in Ends :
              /\ End(r, how)
              /\ how = "AllBackendsFailed" => r \in Streams /\ pc[r] = "streaming"
      BY <1>7 DEF StreamBreaks, GoodGeneration, StreamEnds, EscapingError, Cancel, Ends
    <2>4. pc[r] = "streaming" => emitted[r] # {}
      BY DEF TypeInv, Positions, PositionOf
    <2>5. QED
      BY <1>6, <2>1, <2>2, <2>3, <2>4
  <1>8. ASSUME NEW r \in Requests, WakeUp(r)
        PROVE  TypeInv'
    <2>1. /\ idx[r] \in Backends
          /\ r \in Chats
          /\ attempt[r] + 1 \in 0..MaxRetries
      BY <1>8 DEF WakeUp, TypeInv, TypeOK, Positions, PositionOf, Awaiting
    <2>2. calls' \in [Requests -> [Backends -> Nat]]
      BY <1>8, <2>1, SendType DEF WakeUp, TypeInv, TypeOK
    <2>3. TypeOK'
      BY <1>8, <2>1, <2>2 DEF WakeUp, TypeInv, TypeOK, Awaiting, counters
    <2>4. ASSUME NEW q \in Requests
          PROVE  PositionOf(q)'
      BY <1>8, <2>1, <2>4 DEF WakeUp, TypeInv, TypeOK, Positions, PositionOf, Awaiting, Requests
    <2>5. QED
      BY <2>3, <2>4 DEF TypeInv, Positions
  <1>9. ASSUME NEW r \in Requests, Chunk(r)
        PROVE  TypeInv'
    <2>1. idx[r] \in Backends /\ r \in Streams
      BY <1>9 DEF Chunk, TypeInv, Positions, PositionOf, Awaiting
    <2>2. TypeOK'
      BY <1>9, <2>1 DEF Chunk, TypeInv, TypeOK, Awaiting, counters
    <2>3. ASSUME NEW q \in Requests
          PROVE  PositionOf(q)'
      BY <1>9, <2>1, <2>3 DEF Chunk, TypeInv, TypeOK, Positions, PositionOf, Awaiting
    <2>4. QED
      BY <2>2, <2>3 DEF TypeInv, Positions
  <1>10. CASE Tick
    <2>1. breakers' \in [Backends -> Breaker]
      BY <1>10, BreakerType DEF Tick, TypeInv, TypeOK
    <2>2. QED
      BY <1>10, <2>1 DEF Tick, TypeInv, TypeOK, Positions, PositionOf, counters, history
  <1>11. CASE UNCHANGED vars
    BY <1>11 DEF vars, TypeInv, TypeOK, Positions, PositionOf, counters, history
  <1>12. QED
    BY <1>1, <1>4, <1>5, <1>7, <1>8, <1>9, <1>10, <1>11 DEF Next, Step, Answer, Terminated

\* The initial state.
LEMMA TypeInvInit == Init => TypeInv
  BY DispatchAssumption, BreakerAssumption
     DEF Init, TypeInv, TypeOK, Positions, PositionOf, Backends, Awaiting,
         Breaker, FreshBreaker, CircuitState

\* The types, and with them that a request is where its control state says: at a backend
\* of the chain exactly while it awaits something, past the end exactly when it failed
\* unless it is a stream that had already yielded a chunk (dispatch, dispatch_stream).
THEOREM TypeCorrect == Spec => [](TypeOK /\ Positions)
  <1>1. Init => TypeInv
    BY TypeInvInit
  <1>2. TypeInv /\ [Next]_vars => TypeInv'
    BY TypeInvNext
  <1>3. QED
    BY <1>1, <1>2, PTL DEF Spec, TypeInv

\* The types alone: no counter, position or attempt leaves its range (dispatch).
THEOREM TypesAreKept == Spec => []TypeOK
  BY TypeCorrect, PTL


(***************************************************************************)
(* The breakers.                                                           *)
(***************************************************************************)

\* A step applies at most one operation of the registry to each breaker.
LEMMA BreakerSteps ==
    ASSUME TypeInv, [Next]_vars, NEW b \in Backends
    PROVE  LET br == breakers[b]
           IN  breakers'[b] \in {br, AfterAllow(br), AfterSuccess(br), AfterFailure(br), AfterTick(br)}
  <1> DEFINE br == breakers[b]
             After == {br, AfterAllow(br), AfterSuccess(br), AfterFailure(br), AfterTick(br)}
  <1>1. ASSUME NEW r \in Requests, NEW brs \in [Backends -> Breaker],
               MoveOn(r, idx[r], brs),
               brs[b] = br \/ (b = idx[r] /\ brs[b] \in {AfterSuccess(br), AfterFailure(br)})
        PROVE  breakers'[b] \in After
    BY <1>1 DEF MoveOn, TypeInv, TypeOK
  <1>2. ASSUME NEW r \in Requests, pc[r] \in Awaiting
        PROVE  /\ Recorded(r, AfterFailure) \in [Backends -> Breaker]
               /\ Recorded(r, AfterSuccess) \in [Backends -> Breaker]
               /\ Recorded(r, AfterFailure)[b] = IF b = idx[r] THEN AfterFailure(br) ELSE br
               /\ Recorded(r, AfterSuccess)[b] = IF b = idx[r] THEN AfterSuccess(br) ELSE br
    <2>1. idx[r] \in Backends
      BY <1>2 DEF TypeInv, Positions, PositionOf
    <2>2. QED
      BY <2>1, RecordedType DEF TypeInv, TypeOK, Recorded
  <1>3. breakers \in [Backends -> Breaker]
    BY DEF TypeInv, TypeOK
  <1>4. ASSUME NEW r \in Requests, Start(r)
        PROVE  breakers'[b] \in After
    <2>1. idx[r] = 0
      BY <1>4 DEF Start, TypeInv, Positions, PositionOf
    <2>2. QED
      BY <1>1, <1>3, <1>4, <2>1 DEF Start
  <1>5. ASSUME NEW r \in Requests, TransportError(r) \/ BadGeneration(r)
        PROVE  breakers'[b] \in After
    <2>1. pc[r] \in Awaiting
      BY <1>5 DEF TransportError, BadGeneration, Awaiting
    <2>2. CASE Exhausted(r)
      BY <1>1, <1>2, <1>5, <2>1, <2>2 DEF TransportError, BadGeneration
    <2>3. CASE ~Exhausted(r)
      BY <1>2, <1>5, <2>1, <2>3 DEF TransportError, BadGeneration, Backoff
    <2>4. QED
      BY <2>2, <2>3
  <1>6. ASSUME NEW r \in Requests, StreamBreaks(r) \/ GoodGeneration(r) \/ StreamEnds(r)
        PROVE  breakers'[b] \in After
    BY <1>2, <1>6 DEF StreamBreaks, GoodGeneration, StreamEnds, Awaiting
  <1>7. ASSUME NEW r \in Requests, EscapingError(r) \/ Cancel(r) \/ WakeUp(r) \/ Chunk(r)
        PROVE  breakers'[b] \in After
    BY <1>7 DEF EscapingError, Cancel, WakeUp, Chunk
  <1>8. CASE Tick
    BY <1>8 DEF Tick
  <1>9. CASE UNCHANGED vars
    BY <1>9 DEF vars
  <1>10. QED
    BY <1>4, <1>5, <1>6, <1>7, <1>8, <1>9 DEF Next, Step, Answer, Terminated

\* Every breaker is tripped exactly while its consecutive failures are at or above the
\* threshold, whatever the in-flight requests report and in whatever order
\* (CircuitBreakerRegistry).
THEOREM BreakersConsistent == Spec => []TrippedIffThreshold
  <1>1. Init => TrippedIffThreshold
    BY BreakerAssumption DEF Init, TrippedIffThreshold, Consistent, FreshBreaker
  <1>2. TypeInv /\ TrippedIffThreshold /\ [Next]_vars => TrippedIffThreshold'
    <2> SUFFICES ASSUME TypeInv, TrippedIffThreshold, [Next]_vars, NEW b \in Backends
                 PROVE  Consistent(breakers'[b])
      BY DEF TrippedIffThreshold, Consistent
    <2>1. breakers[b] \in Breaker /\ Consistent(breakers[b])
      BY DEF TypeInv, TypeOK, TrippedIffThreshold
    <2>2. QED
      BY <2>1, BreakerSteps, BreakerConsistent
  <1>3. QED
    BY <1>1, <1>2, TypeCorrect, PTL DEF Spec, TypeInv


(***************************************************************************)
(* The chain.                                                              *)
(***************************************************************************)
ChainInv == TypeInv /\ ChainWalked

\* Moving on from a backend that is used up, or from before the chain, leaves nobody
\* out and calls nobody twice.
LEMMA MoveOnChain ==
    ASSUME ChainInv, TypeInv',
           NEW r \in Requests, pc[r] = "new" \/ (pc[r] = "calling" /\ Exhausted(r)),
           NEW brs \in [Backends -> Breaker],
           MoveOn(r, idx[r], brs)
    PROVE  ChainWalked'
  <1> USE DispatchAssumption DEF Backends
  <1>1. PICK j \in (idx[r] + 1)..(NumBackends + 1) :
            /\ idx' = [idx EXCEPT ![r] = j]
            /\ attempt' = [attempt EXCEPT ![r] = 0]
            /\ refused' = [refused EXCEPT ![r] = @ \cup ((idx[r] + 1)..(j - 1))]
            /\ \/ j \in Backends /\ Send(r, j)
               \/ j \notin Backends /\ UNCHANGED calls
    BY DEF MoveOn
  <1>2. idx[r] \in 0..NumBackends /\ j \in 1..(NumBackends + 1)
    BY <1>1 DEF ChainInv, TypeInv, TypeOK, Positions, PositionOf, Awaiting
  <1>3. ASSUME NEW b \in Backends, b = idx[r]
        PROVE  calls[r][b] = Tries(r)
    <2>1. pc[r] = "calling" /\ Exhausted(r)
      BY <1>3 DEF ChainInv, TypeInv, Positions, PositionOf
    <2>2. attempt[r] + 1 = Tries(r)
      <3>1. attempt[r] \in 0..MaxRetries /\ (r \in Streams => attempt[r] = 0)
        BY DEF ChainInv, TypeInv, TypeOK, Positions, PositionOf
      <3>2. r \in Chats \/ r \in Streams
        BY DEF Requests
      <3>3. QED
        BY <2>1, <3>1, <3>2 DEF Exhausted, Tries
    <2>3. QED
      BY <1>3, <2>2 DEF ChainInv, ChainWalked, ChainOf
  <1>4. ASSUME NEW b \in Backends
        PROVE  calls'[r][b] = IF b = j THEN calls[r][b] + 1 ELSE calls[r][b]
    <2>1. calls \in [Requests -> [Backends -> Nat]] /\ calls[r] \in [Backends -> Nat]
      BY DEF ChainInv, TypeInv, TypeOK
    <2>2. CASE j \in Backends /\ Send(r, j)
      BY <2>1, <2>2 DEF Send
    <2>3. CASE j \notin Backends /\ UNCHANGED calls
      BY <2>3
    <2>4. QED
      BY <1>1, <2>2, <2>3
  <1>5. ChainOf(r)'
    <2> SUFFICES ASSUME NEW b \in Backends
                 PROVE  /\ b \in refused'[r] => b < idx'[r] /\ calls'[r][b] = 0
                        /\ b \notin refused'[r] /\ b < idx'[r] => calls'[r][b] = Tries(r)
                        /\ b = idx'[r] => calls'[r][b] = attempt'[r] + 1
                        /\ b > idx'[r] => calls'[r][b] = 0
      BY DEF ChainOf, Tries
    <2>1. idx'[r] = j /\ attempt'[r] = 0
      BY <1>1 DEF ChainInv, TypeInv, TypeOK
    <2>2. refused'[r] = refused[r] \cup ((idx[r] + 1)..(j - 1))
      BY <1>1 DEF ChainInv, TypeInv, TypeOK
    <2>3. ChainOf(r)!(b)
      BY DEF ChainInv, ChainWalked, ChainOf
    <2>4. QED
      BY <1>2, <1>3, <1>4, <2>1, <2>2, <2>3
  <1>6. ASSUME NEW q \in Requests, q # r
        PROVE  ChainOf(q)'
    <2>1. UNCHANGED <<idx[q], attempt[q], refused[q]>>
      BY <1>1, <1>6 DEF ChainInv, TypeInv, TypeOK
    <2>2. UNCHANGED calls[q]
      BY <1>1, <1>6 DEF Send, ChainInv, TypeInv, TypeOK
    <2>3. QED
      BY <2>1, <2>2 DEF ChainInv, ChainWalked, ChainOf, Tries
  <1>7. QED
    BY <1>5, <1>6 DEF ChainWalked

\* Every step keeps the account of who was called and who was refused.
LEMMA ChainInvNext == ChainInv /\ [Next]_vars => ChainInv'
  <1> SUFFICES ASSUME ChainInv, [Next]_vars
               PROVE  ChainWalked'
    BY TypeInvNext DEF ChainInv
  <1>1. TypeInv'
    BY TypeInvNext DEF ChainInv
  <1>2. ASSUME NEW r \in Requests, pc[r] = "calling"
        PROVE  /\ Recorded(r, AfterFailure) \in [Backends -> Breaker]
               /\ Recorded(r, AfterSuccess) \in [Backends -> Breaker]
    <2>1. idx[r] \in Backends
      BY <1>2 DEF ChainInv, TypeInv, Positions, PositionOf, Awaiting
    <2>2. QED
      BY <2>1, RecordedType DEF ChainInv, TypeInv
  <1>3. CASE UNCHANGED <<idx, attempt, calls, refused>>
    BY <1>3 DEF ChainInv, ChainWalked, ChainOf, Tries
  <1>4. ASSUME NEW r \in Requests, Start(r)
        PROVE  ChainWalked'
    <2>1. idx[r] = 0 /\ pc[r] = "new" /\ breakers \in [Backends -> Breaker]
      BY <1>4 DEF Start, ChainInv, TypeInv, TypeOK, Positions, PositionOf
    <2>2. QED
      BY <1>1, <1>4, <2>1, MoveOnChain DEF Start
  <1>5. ASSUME NEW r \in Requests, TransportError(r) \/ BadGeneration(r)
        PROVE  ChainWalked'
    <2>1. CASE Exhausted(r)
      BY <1>1, <1>2, <1>5, <2>1, MoveOnChain DEF TransportError, BadGeneration
    <2>2. CASE ~Exhausted(r)
      BY <1>3, <1>5, <2>2 DEF TransportError, BadGeneration, Backoff, history
    <2>3. QED
      BY <2>1, <2>2
  <1>6. ASSUME NEW r \in Requests,
               \/ StreamBreaks(r) \/ GoodGeneration(r) \/ StreamEnds(r)
               \/ EscapingError(r) \/ Cancel(r) \/ Chunk(r)
        PROVE  ChainWalked'
    <2>1. UNCHANGED <<idx, attempt, calls, refused>>
      BY <1>6
         DEF StreamBreaks, GoodGeneration, StreamEnds, EscapingError, Cancel, Chunk, End, history
    <2>2. QED
      BY <1>3, <2>1
  <1>7. ASSUME NEW r \in Requests, WakeUp(r)
        PROVE  ChainWalked'
    <2>1. idx[r] \in Backends
      BY <1>7 DEF WakeUp, ChainInv, TypeInv, Positions, PositionOf, Awaiting
    <2>2. ASSUME NEW q \in Requests
          PROVE  ChainOf(q)'
      <3> SUFFICES ASSUME NEW b \in Backends
                   PROVE  ChainOf(q)!(b)'
        BY DEF ChainOf
      <3>1. calls'[q][b] = IF q = r /\ b = idx[r] THEN calls[q][b] + 1 ELSE calls[q][b]
        BY <1>7, <2>1 DEF WakeUp, Send, ChainInv, TypeInv, TypeOK
      <3>2. attempt'[q] = IF q = r THEN attempt[q] + 1 ELSE attempt[q]
        BY <1>7 DEF WakeUp, ChainInv, TypeInv, TypeOK
      <3>3. ChainOf(q)!(b)
        BY DEF ChainInv, ChainWalked, ChainOf
      <3>4. idx' = idx /\ refused' = refused
        BY <1>7 DEF WakeUp
      <3>5. QED
        BY <2>1, <3>1, <3>2, <3>3, <3>4
           DEF Tries, Backends, ChainInv, TypeInv, TypeOK
    <2>3. QED
      BY <2>2 DEF ChainWalked
  <1>8. CASE Tick
    BY <1>3, <1>8 DEF Tick, history
  <1>9. CASE UNCHANGED vars
    BY <1>3, <1>9 DEF vars, history
  <1>10. QED
    BY <1>4, <1>5, <1>6, <1>7, <1>8, <1>9 DEF Next, Step, Answer, Terminated

\* The inductive invariant of the chain holds in every reachable state.
LEMMA ChainInvariant == Spec => []ChainInv
  <1>1. Init => ChainInv
    BY TypeInvInit, DispatchAssumption
       DEF Init, ChainInv, ChainWalked, ChainOf, Backends
  <1>2. ChainInv /\ [Next]_vars => ChainInv'
    BY ChainInvNext
  <1>3. QED
    BY <1>1, <1>2, PTL DEF Spec

\* The chain is walked in order: whoever is behind a request was refused by its breaker
\* or called exactly as often as dispatch (dispatch_stream) may, whoever is ahead of it
\* was neither.
THEOREM ChainIsWalked == Spec => []ChainWalked
  BY ChainInvariant, PTL DEF ChainInv

\* AllBackendsFailed means what it says: every backend of the chain was refused by its
\* breaker or used up, or the request is a stream that broke after its first chunk.
THEOREM FailureIsHonest == Spec => []FailedMeansExhausted
  <1>1. ChainInv => FailedMeansExhausted
    <2> SUFFICES ASSUME ChainInv,
                        NEW r \in Requests, pc[r] = "AllBackendsFailed",
                        ~(r \in Streams /\ emitted[r] # {}),
                        NEW b \in Backends, b \notin refused[r]
                 PROVE  calls[r][b] = Tries(r)
      BY DEF FailedMeansExhausted
    <2>1. idx[r] = NumBackends + 1
      BY DEF ChainInv, TypeInv, Positions, PositionOf
    <2>2. b < idx[r]
      BY <2>1, DispatchAssumption DEF Backends
    <2>3. QED
      BY <2>2 DEF ChainInv, ChainWalked, ChainOf
  <1>2. QED
    BY <1>1, ChainInvariant, PTL

\* A stream's chunks all come from one backend, and none behind it is called once the
\* first of them is out (dispatch_stream).
THEOREM StreamsAreNotMixed == Spec => []OneBackendPerStream
  <1>1. ChainInv => OneBackendPerStream
    BY DEF ChainInv, TypeInv, TypeOK, Positions, PositionOf, ChainWalked, ChainOf,
           OneBackendPerStream
  <1>2. QED
    BY <1>1, ChainInvariant, PTL

(***************************************************************************)
(* Admission.                                                              *)
(***************************************************************************)

\* Who moves on joins no backend whose breaker refuses.
LEMMA MoveOnAdmission ==
    ASSUME TypeInv,
           NEW r \in Requests,
           NEW brs \in [Backends -> Breaker],
           MoveOn(r, idx[r], brs),
           NEW b \in Backends, Cooling(brs[b])
    PROVE  Engaged(b)' \subseteq Engaged(b) \ {r}
  <1>1. PICK j \in (idx[r] + 1)..(NumBackends + 1) :
            /\ idx' = [idx EXCEPT ![r] = j]
            /\ \/ /\ Allows(brs[j])
                  /\ pc' = [pc EXCEPT ![r] = "calling"]
               \/ /\ j \notin Backends
                  /\ pc' = [pc EXCEPT ![r] = "AllBackendsFailed"]
    BY DEF MoveOn
  <1>2. ASSUME NEW q \in Requests, q \in Engaged(b)'
        PROVE  q \in Engaged(b) /\ q # r
    <2>1. q # r
      BY <1>1, <1>2 DEF Engaged, Allows, Awaiting, TypeInv, TypeOK
    <2>2. QED
      BY <1>1, <1>2, <2>1 DEF Engaged, TypeInv, TypeOK
  <1>3. QED
    BY <1>2 DEF Engaged

\* allow is asked in the step that moves a request to a backend, so that no await lies
\* between the two, and nobody joins a backend whose breaker refuses.
LEMMA NobodyJoins ==
    ASSUME TypeInv, [Next]_vars, NEW b \in Backends, Cooling(breakers[b])
    PROVE  Engaged(b)' \subseteq Engaged(b)
  <1>1. ASSUME NEW r \in Requests, Start(r)
        PROVE  Engaged(b)' \subseteq Engaged(b)
    <2>1. idx[r] = 0 /\ breakers \in [Backends -> Breaker]
      BY <1>1 DEF Start, TypeInv, TypeOK, Positions, PositionOf
    <2>2. QED
      BY <1>1, <2>1, MoveOnAdmission DEF Start
  <1>2. ASSUME NEW r \in Requests, TransportError(r) \/ BadGeneration(r), Exhausted(r)
        PROVE  Engaged(b)' \subseteq Engaged(b)
    <2>1. PICK brs \in [Backends -> Breaker] :
              /\ MoveOn(r, idx[r], brs)
              /\ b # idx[r] => brs[b] = breakers[b]
      <3>1. idx[r] \in Backends
        BY <1>2 DEF TransportError, BadGeneration, Awaiting, TypeInv, Positions, PositionOf
      <3>2. QED
        BY <1>2, <3>1, RecordedType DEF TransportError, BadGeneration, Recorded, TypeInv, TypeOK
    <2>2. CASE b # idx[r]
      BY <2>1, <2>2, MoveOnAdmission
    <2>3. CASE b = idx[r]
      <3>1. PICK j \in (idx[r] + 1)..(NumBackends + 1) :
                /\ idx' = [idx EXCEPT ![r] = j]
                /\ \E how : pc' = [pc EXCEPT ![r] = how]
        BY <2>1 DEF MoveOn
      <3>2. ASSUME NEW q \in Requests, q \in Engaged(b)'
            PROVE  q \in Engaged(b)
        BY <2>3, <3>1, <3>2 DEF Engaged, TypeInv, TypeOK, Backends
      <3>3. QED
        BY <3>2 DEF Engaged
    <2>4. QED
      BY <2>2, <2>3
  <1>3. ASSUME NEW r \in Requests,
               \/ (TransportError(r) \/ BadGeneration(r)) /\ ~Exhausted(r)
               \/ WakeUp(r) \/ Chunk(r)
        PROVE  Engaged(b)' \subseteq Engaged(b)
    <2>1. /\ UNCHANGED idx
          /\ pc[r] \in Awaiting
          /\ \E how \in Awaiting : pc' = [pc EXCEPT ![r] = how]
      BY <1>3 DEF TransportError, BadGeneration, Backoff, WakeUp, Chunk, Awaiting
    <2>2. QED
      BY <2>1 DEF Engaged, TypeInv, TypeOK
  <1>4. ASSUME NEW r \in Requests,
               \/ StreamBreaks(r) \/ GoodGeneration(r) \/ StreamEnds(r)
               \/ EscapingError(r) \/ Cancel(r)
        PROVE  Engaged(b)' \subseteq Engaged(b)
    <2>1. UNCHANGED idx /\ \E how \in Ends : pc' = [pc EXCEPT ![r] = how]
      BY <1>4 DEF StreamBreaks, GoodGeneration, StreamEnds, EscapingError, Cancel, End, Ends
    <2>2. QED
      BY <2>1 DEF Engaged, Awaiting, Ends, TypeInv, TypeOK
  <1>5. CASE Tick \/ UNCHANGED vars
    BY <1>5 DEF Tick, vars, Engaged
  <1>6. QED
    BY <1>1, <1>2, <1>3, <1>4, <1>5 DEF Next, Step, Answer, Terminated

\* Who sends a call awaits it then, at the backend it is sent to.
LEMMA MoveOnCalls ==
    ASSUME TypeInv, NEW r \in Requests, NEW brs, MoveOn(r, idx[r], brs),
           NEW q \in Requests, NEW b \in Backends, calls'[q][b] # calls[q][b]
    PROVE  q = r /\ idx'[q] = b /\ pc'[q] = "calling"
  <1>1. PICK j \in (idx[r] + 1)..(NumBackends + 1) :
            /\ idx' = [idx EXCEPT ![r] = j]
            /\ \/ /\ pc' = [pc EXCEPT ![r] = "calling"]
                  /\ Send(r, j)
               \/ UNCHANGED calls
    BY DEF MoveOn
  <1>2. pc' = [pc EXCEPT ![r] = "calling"] /\ Send(r, j)
    BY <1>1
  <1>3. QED
    BY <1>1, <1>2 DEF Send, TypeInv, TypeOK

LEMMA CallersAwait ==
    ASSUME TypeInv, [Next]_vars,
           NEW q \in Requests, NEW b \in Backends, calls'[q][b] # calls[q][b]
    PROVE  idx'[q] = b /\ pc'[q] = "calling"
  <1>1. ASSUME NEW r \in Requests, NEW brs, MoveOn(r, idx[r], brs)
        PROVE  idx'[q] = b /\ pc'[q] = "calling"
    BY <1>1, MoveOnCalls
  <1>2. ASSUME NEW r \in Requests, Start(r)
        PROVE  idx'[q] = b /\ pc'[q] = "calling"
    <2>1. idx[r] = 0
      BY <1>2 DEF Start, TypeInv, Positions, PositionOf
    <2>2. QED
      BY <1>1, <1>2, <2>1 DEF Start
  <1>3. ASSUME NEW r \in Requests, WakeUp(r)
        PROVE  idx'[q] = b /\ pc'[q] = "calling"
    BY <1>3 DEF WakeUp, Send, TypeInv, TypeOK
  <1>4. ASSUME NEW r \in Requests, TransportError(r) \/ BadGeneration(r)
        PROVE  idx'[q] = b /\ pc'[q] = "calling"
    BY <1>1, <1>4 DEF TransportError, BadGeneration, Backoff, history
  <1>5. ASSUME NEW r \in Requests,
               \/ StreamBreaks(r) \/ GoodGeneration(r) \/ StreamEnds(r)
               \/ EscapingError(r) \/ Cancel(r) \/ Chunk(r)
        PROVE  calls' = calls
    BY <1>5
    DEF StreamBreaks, GoodGeneration, StreamEnds, EscapingError, Cancel, Chunk, End, history
  <1>6. CASE Tick \/ Terminated \/ UNCHANGED vars
    BY <1>6 DEF Tick, Terminated, vars, history
  <1>7. QED
    BY <1>2, <1>3, <1>4, <1>5, <1>6 DEF Next, Step, Answer

\* While a breaker is open and cooling nobody new is sent to its backend, and the retries
\* of those who are there come to an end with their attempts (allow, dispatch).
THEOREM NobodyIsAdmitted == Spec => OpenAdmitsNobody
  <1>1. ASSUME ChainInv, ChainInv', [Next]_vars, NEW b \in Backends, Cooling(breakers[b])
        PROVE  /\ Engaged(b)' \subseteq Engaged(b)
               /\ \A r \in Requests : calls'[r][b] # calls[r][b] =>
                      r \in Engaged(b) /\ calls'[r][b] <= Tries(r)
    <2>1. Engaged(b)' \subseteq Engaged(b)
      BY <1>1, NobodyJoins DEF ChainInv
    <2>2. ASSUME NEW r \in Requests, calls'[r][b] # calls[r][b]
          PROVE  r \in Engaged(b) /\ calls'[r][b] <= Tries(r)
      <3>1. idx'[r] = b /\ pc'[r] = "calling"
        BY <1>1, <2>2, CallersAwait DEF ChainInv
      <3>2. r \in Engaged(b)'
        BY <3>1 DEF Engaged, Awaiting
      <3>3. calls'[r][b] = attempt'[r] + 1
        BY <1>1, <3>1 DEF ChainInv, ChainWalked, ChainOf
      <3>4. attempt'[r] \in 0..MaxRetries /\ (r \in Streams => attempt'[r] = 0)
        BY <1>1 DEF ChainInv, TypeInv, TypeOK, Positions, PositionOf
      <3>5. (r \in Chats \/ r \in Streams) /\ MaxRetries \in Nat
        BY DispatchAssumption DEF Requests
      <3>6. QED
        BY <2>1, <3>2, <3>3, <3>4, <3>5 DEF Tries
    <2>3. QED
      BY <2>1, <2>2
  <1>2. ChainInv /\ ChainInv' /\ [Next]_vars =>
            [\A b \in Backends : Cooling(breakers[b]) =>
                 /\ Engaged(b)' \subseteq Engaged(b)
                 /\ \A r \in Requests : calls'[r][b] # calls[r][b] =>
                        r \in Engaged(b) /\ calls'[r][b] <= Tries(r)]_vars
    BY <1>1
  <1>3. QED
    BY <1>2, ChainInvariant, PTL DEF Spec, OpenAdmitsNobody


(***************************************************************************)
(* The fallback counter.                                                   *)
(***************************************************************************)

\* The chats that are past backend b.
Past(b) == {r \in Chats : idx[r] > b}

\* Whoever moves on is counted once at each backend it goes past, and at no other.
LEMMA MoveOnCounts ==
    ASSUME TypeInv, FallbacksAccounted,
           NEW r \in Requests, pc[r] \in {"new", "calling"},
           NEW brs \in [Backends -> Breaker],
           MoveOn(r, idx[r], brs)
    PROVE  FallbacksAccounted'
  <1> USE DEF Backends
  <1>1. PICK j \in (idx[r] + 1)..(NumBackends + 1) :
            /\ idx' = [idx EXCEPT ![r] = j]
            /\ llm_fallbacks_total' =
                   [b \in Backends |->
                       IF b \in GivenUp(r, idx[r], j) THEN llm_fallbacks_total[b] + 1
                                                      ELSE llm_fallbacks_total[b]]
    BY DEF MoveOn
  <1>2. idx[r] \in 0..NumBackends /\ j \in 1..(NumBackends + 1) /\ NumBackends \in Nat
    BY <1>1, DispatchAssumption DEF TypeInv, TypeOK, Positions, PositionOf, Awaiting
  <1> SUFFICES ASSUME NEW b \in Backends
               PROVE  llm_fallbacks_total'[b] =
                          IF b = NumBackends THEN 0 ELSE Cardinality(Past(b)')
    BY DEF FallbacksAccounted, Past
  <1>3. llm_fallbacks_total[b] = IF b = NumBackends THEN 0 ELSE Cardinality(Past(b))
    BY DEF FallbacksAccounted, Past
  <1>4. CASE b \in GivenUp(r, idx[r], j)
    <2>1. r \in Chats /\ idx[r] <= b /\ b < j /\ b < NumBackends
      BY <1>2, <1>4 DEF GivenUp
    <2>2. Past(b)' = Past(b) \cup {r} /\ r \notin Past(b)
      BY <1>1, <1>2, <2>1 DEF Past, Requests, TypeInv, TypeOK
    <2>3. IsFiniteSet(Past(b))
      <3>1. Past(b) \subseteq Requests
        BY DEF Past, Requests
      <3>2. QED
        BY <3>1, DispatchAssumption, FS_Subset
    <2>4. Cardinality(Past(b)') = Cardinality(Past(b)) + 1
      BY <2>2, <2>3, FS_AddElement
    <2>5. llm_fallbacks_total'[b] = llm_fallbacks_total[b] + 1
      BY <1>1, <1>4
    <2>6. QED
      BY <1>2, <1>3, <2>1, <2>4, <2>5
  <1>5. CASE b \notin GivenUp(r, idx[r], j)
    <2>1. llm_fallbacks_total'[b] = llm_fallbacks_total[b]
      BY <1>1, <1>5
    <2>2. CASE b = NumBackends
      BY <1>3, <2>1, <2>2
    <2>3. CASE b # NumBackends
      <3>1. r \notin Chats \/ b < idx[r] \/ j <= b
        BY <1>2, <1>5, <2>3 DEF GivenUp
      <3>2. Past(b)' = Past(b)
        BY <1>1, <1>2, <3>1 DEF Past, Requests, TypeInv, TypeOK
      <3>3. QED
        BY <1>3, <2>1, <2>3, <3>2
    <2>4. QED
      BY <2>2, <2>3
  <1>6. QED
    BY <1>4, <1>5

\* llm_fallbacks_total of a backend is, at any moment, the number of non-streaming
\* requests that went past it with a backend left to try (dispatch).
THEOREM FallbacksAreCounted == Spec => []FallbacksAccounted
  <1>1. Init => FallbacksAccounted
    <2> SUFFICES ASSUME Init, NEW b \in Backends
                 PROVE  llm_fallbacks_total[b] = 0 /\ Cardinality(Past(b)) = 0
      BY DEF FallbacksAccounted, Past
    <2>1. Past(b) = {}
      BY DEF Past, Init, Requests, Backends
    <2>2. QED
      BY <2>1, FS_EmptySet DEF Init
  <1>2. TypeInv /\ FallbacksAccounted /\ [Next]_vars => FallbacksAccounted'
    <2> SUFFICES ASSUME TypeInv, FallbacksAccounted, [Next]_vars
                 PROVE  FallbacksAccounted'
      OBVIOUS
    <2>1. CASE UNCHANGED <<idx, llm_fallbacks_total>>
      BY <2>1 DEF FallbacksAccounted
    <2>2. ASSUME NEW r \in Requests, Start(r)
          PROVE  FallbacksAccounted'
      <3>1. idx[r] = 0 /\ breakers \in [Backends -> Breaker]
        BY <2>2 DEF Start, TypeInv, TypeOK, Positions, PositionOf
      <3>2. QED
        BY <2>2, <3>1, MoveOnCounts DEF Start
    <2>3. ASSUME NEW r \in Requests, (TransportError(r) \/ BadGeneration(r)) /\ Exhausted(r)
          PROVE  FallbacksAccounted'
      <3>1. idx[r] \in Backends
        BY <2>3 DEF TransportError, BadGeneration, TypeInv, Positions, PositionOf, Awaiting
      <3>2. QED
        BY <2>3, <3>1, RecordedType, MoveOnCounts DEF TransportError, BadGeneration, TypeInv
    <2>4. ASSUME NEW r \in Requests,
                 \/ (TransportError(r) \/ BadGeneration(r)) /\ ~Exhausted(r)
                 \/ StreamBreaks(r) \/ GoodGeneration(r) \/ StreamEnds(r)
                 \/ EscapingError(r) \/ Cancel(r) \/ WakeUp(r) \/ Chunk(r)
          PROVE  FallbacksAccounted'
      <3>1. UNCHANGED <<idx, llm_fallbacks_total>>
        BY <2>4 DEF TransportError, BadGeneration, Backoff, StreamBreaks, GoodGeneration,
                    StreamEnds, EscapingError, Cancel, WakeUp, Chunk, End, counters
      <3>2. QED
        BY <2>1, <3>1
    <2>5. CASE Tick \/ UNCHANGED vars
      BY <2>1, <2>5 DEF Tick, vars, counters
    <2>6. QED
      BY <2>2, <2>3, <2>4, <2>5 DEF Next, Step, Answer, Terminated
  <1>3. QED
    BY <1>1, <1>2, TypeCorrect, PTL DEF Spec, TypeInv

(***************************************************************************)
(* How far a request is from its end.                                      *)
(***************************************************************************)

\* StepsLeft of a request that is at p, at position i and attempt a.
Left(p, i, a) ==
    IF p \in Ends THEN 0
    ELSE IF p = "streaming" THEN 1
    ELSE 2 + (2 * MaxRetries + 2) * (NumBackends - i) + 2 * (MaxRetries - a)
           + (IF p = "calling" THEN 1 ELSE 0)

LEMMA LeftType ==
    ASSUME NEW p, NEW i \in 0..(NumBackends + 1), NEW a \in 0..MaxRetries,
           p \notin Ends \cup {"streaming"} => i \in 0..NumBackends
    PROVE  /\ Left(p, i, a) \in Nat
           /\ p \notin Ends => Left(p, i, a) >= 1
           /\ p \notin Ends \cup {"streaming"} => Left(p, i, a) >= 2
  <1>1. \A m, n \in Nat : m * n \in Nat
    BY Z3
  <1>2. CASE p \in Ends
    BY <1>2 DEF Left
  <1>3. CASE p \notin Ends /\ p = "streaming"
    BY <1>3 DEF Left
  <1>4. CASE p \notin Ends \cup {"streaming"}
    <2> DEFINE all == (2 * MaxRetries + 2) * (NumBackends - i)
               more == (IF p = "calling" THEN 1 ELSE 0)
    <2>1. 2 * MaxRetries + 2 \in Nat /\ NumBackends - i \in Nat /\ MaxRetries - a \in Nat
      BY <1>4, DispatchAssumption
    <2>2. all \in Nat
      BY <1>1, <2>1
    <2>3. more \in Nat
      OBVIOUS
    <2>4. Left(p, i, a) = 2 + all + 2 * (MaxRetries - a) + more
      BY <1>4 DEF Left
    <2> HIDE DEF all, more
    <2>5. Left(p, i, a) \in Nat /\ Left(p, i, a) >= 2
      BY <2>1, <2>2, <2>3, <2>4
    <2>6. QED
      BY <2>5
  <1>5. QED
    BY <1>2, <1>3, <1>4

\* A backend further on leaves less to do, however often this one was tried.
LEMMA FurtherIsLess ==
    ASSUME NEW p \in {"new", "calling"}, NEW i \in 0..NumBackends, NEW a \in 0..MaxRetries,
           NEW j \in (i + 1)..NumBackends
    PROVE  Left("calling", j, 0) < Left(p, i, a)
  <1> DEFINE k == 2 * MaxRetries + 2
             here == NumBackends - i
             there == NumBackends - j
             more == (IF p = "calling" THEN 1 ELSE 0)
  <1>1. /\ k \in Nat /\ here \in Nat /\ there \in Nat /\ there + 1 <= here
        /\ MaxRetries \in Nat /\ MaxRetries - a \in Nat /\ more \in Nat
    BY DispatchAssumption
  <1>2. Left("calling", j, 0) = 2 + k * there + 2 * (MaxRetries - 0) + 1
    BY DEF Left, Ends
  <1>3. Left(p, i, a) = 2 + k * here + 2 * (MaxRetries - a) + more
    BY DEF Left, Ends
  <1>4. k * there \in Nat /\ k * here \in Nat /\ k * there + k <= k * here
    <2>1. \A c, m, n \in Nat : m + 1 <= n => c * m \in Nat /\ c * n \in Nat /\ c * m + c <= c * n
      BY Z3
    <2> HIDE DEF k, here, there
    <2>2. QED
      BY <1>1, <2>1
  <1>5. k > 2 * MaxRetries + 1
    BY <1>1
  <1> DEFINE rest == k * there
             all == k * here
  <1>6. /\ rest \in Nat /\ all \in Nat /\ rest + k <= all
        /\ Left("calling", j, 0) = 2 + rest + 2 * (MaxRetries - 0) + 1
        /\ Left(p, i, a) = 2 + all + 2 * (MaxRetries - a) + more
    BY <1>2, <1>3, <1>4
  <1> HIDE DEF rest, all, k, more, here, there
  <1>7. QED
    BY <1>1, <1>5, <1>6

\* A sleep is less than the call before it, and the next call is less than the sleep.
LEMMA RetryIsLess ==
    ASSUME NEW i \in 0..NumBackends, NEW a \in 0..MaxRetries
    PROVE  /\ Left("backoff", i, a) < Left("calling", i, a)
           /\ a < MaxRetries => Left("calling", i, a + 1) < Left("backoff", i, a)
  <1> DEFINE all == (2 * MaxRetries + 2) * (NumBackends - i)
  <1>1. all \in Nat /\ MaxRetries \in Nat
    <2>1. \A m, n \in Nat : m * n \in Nat
      BY Z3
    <2>2. 2 * MaxRetries + 2 \in Nat /\ NumBackends - i \in Nat
      BY DispatchAssumption
    <2>3. QED
      BY <2>1, <2>2, DispatchAssumption
  <1>2. /\ Left("backoff", i, a) = 2 + all + 2 * (MaxRetries - a) + 0
        /\ Left("calling", i, a) = 2 + all + 2 * (MaxRetries - a) + 1
        /\ Left("calling", i, a + 1) = 2 + all + 2 * (MaxRetries - (a + 1)) + 1
    BY DEF Left, Ends
  <1> HIDE DEF all
  <1>3. QED
    BY <1>1, <1>2

\* What a request has got to is what it was, or there is less left of it.
Got(r) == <<pc[r], idx[r], attempt[r], calls[r], refused[r]>>
Lessens(r) == StepsLeft(r)' \in Nat /\ StepsLeft(r)' < StepsLeft(r)

LEMMA StepsLeftIs ==
    ASSUME NEW r
    PROVE  /\ StepsLeft(r) = Left(pc[r], idx[r], attempt[r])
           /\ StepsLeft(r)' = Left(pc'[r], idx'[r], attempt'[r])
  BY DEF StepsLeft, Left

\* The end of a call leaves nothing.
LEMMA EndLessens ==
    ASSUME TypeInv, NEW r \in Requests, pc[r] \notin Ends, pc'[r] \in Ends
    PROVE  Lessens(r)
  <1>1. /\ idx[r] \in 0..(NumBackends + 1) /\ attempt[r] \in 0..MaxRetries
        /\ pc[r] # "streaming" => idx[r] \in 0..NumBackends
    BY DispatchAssumption DEF TypeInv, TypeOK, Positions, PositionOf, Awaiting, Backends
  <1>2. Left(pc[r], idx[r], attempt[r]) \in Nat /\ Left(pc[r], idx[r], attempt[r]) >= 1
    BY <1>1, LeftType
  <1>3. Left(pc'[r], idx'[r], attempt'[r]) = 0
    BY DEF Left
  <1>4. QED
    BY <1>2, <1>3, StepsLeftIs DEF Lessens

LEMMA MoveOnLessens ==
    ASSUME TypeInv,
           NEW r \in Requests, pc[r] \in {"new", "calling"},
           NEW brs, MoveOn(r, idx[r], brs)
    PROVE  Lessens(r) /\ \A q \in Requests \ {r} : UNCHANGED Got(q)
  <1>1. PICK j \in (idx[r] + 1)..(NumBackends + 1) :
            /\ idx' = [idx EXCEPT ![r] = j]
            /\ attempt' = [attempt EXCEPT ![r] = 0]
            /\ refused' = [refused EXCEPT ![r] = @ \cup ((idx[r] + 1)..(j - 1))]
            /\ \/ /\ j \in Backends
                  /\ pc' = [pc EXCEPT ![r] = "calling"]
                  /\ Send(r, j)
               \/ /\ j \notin Backends
                  /\ pc' = [pc EXCEPT ![r] = "AllBackendsFailed"]
                  /\ UNCHANGED calls
    BY DEF MoveOn
  <1>2. \A q \in Requests \ {r} : UNCHANGED Got(q)
    BY <1>1 DEF Got, Send, TypeInv, TypeOK
  <1>3. idx[r] \in 0..NumBackends /\ attempt[r] \in 0..MaxRetries
    BY DispatchAssumption DEF TypeInv, TypeOK, Positions, PositionOf, Awaiting, Backends
  <1>4. CASE j \in Backends
    <2>1. pc'[r] = "calling" /\ idx'[r] = j /\ attempt'[r] = 0
      BY <1>1, <1>4 DEF TypeInv, TypeOK
    <2>2. j \in (idx[r] + 1)..NumBackends /\ 0 \in 0..MaxRetries
      BY <1>1, <1>4, DispatchAssumption DEF Backends
    <2>3. Left("calling", j, 0) \in Nat
      <3>1. j \in 0..(NumBackends + 1) /\ j \in 0..NumBackends
        BY <1>3, <2>2
      <3>2. QED
        BY <2>2, <3>1, LeftType
    <2>4. Left("calling", j, 0) < Left(pc[r], idx[r], attempt[r])
      BY <1>3, <2>2, FurtherIsLess
    <2>5. QED
      BY <1>2, <2>1, <2>3, <2>4, StepsLeftIs DEF Lessens
  <1>5. CASE j \notin Backends
    <2>1. pc'[r] = "AllBackendsFailed"
      BY <1>1, <1>5 DEF TypeInv, TypeOK
    <2>2. QED
      BY <1>2, <2>1, EndLessens DEF Ends
  <1>6. QED
    BY <1>4, <1>5

\* A step changes one request, and of that less is left.
LEMMA StepLessens ==
    ASSUME TypeInv, NEW r \in Requests, Step(r)
    PROVE  /\ Lessens(r) \/ UNCHANGED Got(r)
           /\ \A q \in Requests \ {r} : UNCHANGED Got(q)
  <1>1. /\ pc[r] \in {"calling", "backoff"} => idx[r] \in 0..NumBackends
        /\ attempt[r] \in 0..MaxRetries
        /\ pc[r] = "backoff" => attempt[r] < MaxRetries
    BY DispatchAssumption DEF TypeInv, TypeOK, Positions, PositionOf, Awaiting, Backends
  <1>2. CASE Start(r)
    <2>1. pc[r] = "new" /\ MoveOn(r, idx[r], breakers)
      BY <1>2 DEF Start, TypeInv, Positions, PositionOf
    <2>2. QED
      BY <2>1, MoveOnLessens
  <1>3. CASE TransportError(r) \/ BadGeneration(r)
    <2>1. ASSUME NEW brs, MoveOn(r, idx[r], brs)
          PROVE  Lessens(r) /\ \A q \in Requests \ {r} : UNCHANGED Got(q)
      BY <1>3, <2>1, MoveOnLessens DEF TransportError, BadGeneration
    <2>2. ASSUME NEW brs, Backoff(r, brs)
          PROVE  Lessens(r) /\ \A q \in Requests \ {r} : UNCHANGED Got(q)
      <3>1. /\ pc[r] = "calling" /\ pc'[r] = "backoff"
            /\ idx' = idx /\ attempt' = attempt
        BY <1>3, <2>2 DEF TransportError, BadGeneration, Backoff, TypeInv, TypeOK
      <3>2. Left("backoff", idx[r], attempt[r]) \in Nat
        BY <1>1, <3>1, LeftType DEF TypeInv, TypeOK
      <3>3. Lessens(r)
        BY <1>1, <3>1, <3>2, RetryIsLess, StepsLeftIs DEF Lessens
      <3>4. \A q \in Requests \ {r} : UNCHANGED Got(q)
        BY <2>2 DEF Backoff, Got, history, TypeInv, TypeOK
      <3>5. QED
        BY <3>3, <3>4
    <2>3. QED
      BY <1>3, <2>1, <2>2 DEF TransportError, BadGeneration
  <1>4. CASE StreamBreaks(r) \/ GoodGeneration(r) \/ StreamEnds(r) \/ EscapingError(r) \/ Cancel(r)
    <2>1. PICK how \in Ends : End(r, how)
      BY <1>4 DEF StreamBreaks, GoodGeneration, StreamEnds, EscapingError, Cancel, Ends
    <2>2. pc[r] \notin Ends /\ pc'[r] \in Ends
      BY <1>4, <2>1 DEF StreamBreaks, GoodGeneration, StreamEnds, EscapingError, Cancel, End,
                        Ends, Awaiting, TypeInv, TypeOK
    <2>3. \A q \in Requests \ {r} : UNCHANGED Got(q)
      BY <2>1 DEF End, Got, history, TypeInv, TypeOK
    <2>4. QED
      BY <2>2, <2>3, EndLessens
  <1>5. CASE WakeUp(r)
    <2>1. /\ pc[r] = "backoff" /\ pc'[r] = "calling"
          /\ idx'[r] = idx[r] /\ attempt'[r] = attempt[r] + 1
      BY <1>5 DEF WakeUp, TypeInv, TypeOK
    <2>2. attempt[r] + 1 \in 0..MaxRetries /\ idx[r] \in 0..(NumBackends + 1)
      BY <1>1, <2>1, DispatchAssumption DEF TypeInv, TypeOK
    <2>3. Left("calling", idx[r], attempt[r] + 1) \in Nat
      BY <1>1, <2>1, <2>2, LeftType
    <2>4. Lessens(r)
      BY <1>1, <2>1, <2>3, RetryIsLess, StepsLeftIs DEF Lessens
    <2>5. \A q \in Requests \ {r} : UNCHANGED Got(q)
      BY <1>5 DEF WakeUp, Send, Got, TypeInv, TypeOK
    <2>6. QED
      BY <2>4, <2>5
  <1>6. CASE Chunk(r)
    <2>1. \A q \in Requests \ {r} : UNCHANGED Got(q)
      BY <1>6 DEF Chunk, Got, TypeInv, TypeOK
    <2>2. CASE pc[r] = "streaming"
      BY <1>6, <2>1, <2>2 DEF Chunk, Got, TypeInv, TypeOK
    <2>3. CASE pc[r] = "calling"
      <3>1. pc'[r] = "streaming"
        BY <1>6 DEF Chunk, TypeInv, TypeOK
      <3>2. Left("streaming", idx'[r], attempt'[r]) = 1
        BY DEF Left, Ends
      <3>3. Left("calling", idx[r], attempt[r]) \in Nat /\ Left("calling", idx[r], attempt[r]) >= 2
        BY <1>1, <2>3, LeftType DEF Ends, TypeInv, TypeOK
      <3>4. Lessens(r)
        BY <2>3, <3>1, <3>2, <3>3, StepsLeftIs DEF Lessens
      <3>5. QED
        BY <2>1, <3>4
    <2>4. QED
      BY <1>6, <2>2, <2>3 DEF Chunk
  <1>7. QED
    BY <1>2, <1>3, <1>4, <1>5, <1>6 DEF Step, Answer

LEMMA AdvanceNext ==
    TypeInv /\ [Next]_vars =>
        [\A r \in Requests : \/ UNCHANGED <<pc[r], idx[r], attempt[r], calls[r], refused[r]>>
                             \/ StepsLeft(r)' \in Nat /\ StepsLeft(r)' < StepsLeft(r)]_vars
  <1> SUFFICES ASSUME TypeInv, Next, NEW r \in Requests
               PROVE  UNCHANGED Got(r) \/ Lessens(r)
    BY DEF Got, Lessens
  <1>1. ASSUME NEW q \in Requests, Step(q)
        PROVE  UNCHANGED Got(r) \/ Lessens(r)
    BY <1>1, StepLessens
  <1>2. CASE Tick \/ Terminated
    BY <1>2 DEF Tick, Terminated, Got, vars, history
  <1>3. QED
    BY <1>1, <1>2 DEF Next

\* Every step of a request leaves it fewer steps to its end or first chunk, and no step of
\* anybody else leaves it more: the safety half of DispatchEnds, so that a dispatch makes a
\* bounded number of calls and sleeps whatever upstream and the breakers do (dispatch,
\* dispatch_stream).
THEOREM DispatchesAdvance == Spec => DispatchAdvances
  BY AdvanceNext, TypeCorrect, PTL DEF Spec, TypeInv, DispatchAdvances

\* Nothing but a failure lengthens what is left of a cooldown.
LEMMA WaitsShorten ==
    ASSUME NEW br \in Breaker
    PROVE  /\ AfterAllow(br).wait = br.wait
           /\ ~(AfterSuccess(br).wait > br.wait)
           /\ ~(AfterTick(br).wait > br.wait)
           /\ ~(br.wait > br.wait)
  <1>1. br.wait \in 0..Cooldown /\ Cooldown \in Nat
    BY BreakerAssumption DEF Breaker
  <1>2. AfterAllow(br).wait = br.wait
    BY DEF AfterAllow, Breaker
  <1>3. AfterSuccess(br).wait = 0
    BY DEF AfterSuccess, FreshBreaker
  <1>4. AfterTick(br).wait = IF br.wait > 0 THEN br.wait - 1 ELSE 0
    BY DEF AfterTick, Breaker
  <1>5. QED
    BY <1>1, <1>2, <1>3, <1>4

\* A longer wait is the work of a request at the backend, which the step takes further.
LEMMA WhoRearms ==
    ASSUME TypeInv, [Next]_vars, NEW b \in Backends,
           breakers'[b].wait > breakers[b].wait
    PROVE  \E r \in Engaged(b) : Step(r) /\ ~UNCHANGED Got(r)
  <1>1. breakers \in [Backends -> Breaker] /\ breakers[b] \in Breaker
    BY DEF TypeInv, TypeOK
  <1>2. ASSUME NEW r \in Requests, NEW brs \in [Backends -> Breaker], MoveOn(r, idx[r], brs)
        PROVE  brs[b].wait > breakers[b].wait /\ idx'[r] # idx[r]
    <2>1. PICK j \in (idx[r] + 1)..(NumBackends + 1) :
              /\ idx' = [idx EXCEPT ![r] = j]
              /\ \/ breakers' = [brs EXCEPT ![j] = AfterAllow(@)]
                 \/ breakers' = brs
      BY <1>2 DEF MoveOn
    <2>2. brs[b] \in Breaker /\ breakers'[b] \in {brs[b], AfterAllow(brs[b])}
      BY <2>1
    <2>3. breakers'[b].wait = brs[b].wait
      BY <2>2, WaitsShorten
    <2>4. idx'[r] # idx[r]
      BY <2>1 DEF TypeInv, TypeOK
    <2>5. QED
      BY <2>3, <2>4
  <1>3. ASSUME NEW r \in Requests, pc[r] \in Awaiting
        PROVE  /\ Recorded(r, AfterFailure) \in [Backends -> Breaker]
               /\ Recorded(r, AfterSuccess) \in [Backends -> Breaker]
               /\ Recorded(r, AfterFailure)[b].wait > breakers[b].wait => r \in Engaged(b)
               /\ ~(Recorded(r, AfterSuccess)[b].wait > breakers[b].wait)
    <2>1. idx[r] \in Backends
      BY <1>3 DEF TypeInv, Positions, PositionOf
    <2>2. /\ Recorded(r, AfterFailure)[b] = breakers[b] \/ b = idx[r]
          /\ Recorded(r, AfterSuccess)[b] \in {breakers[b], AfterSuccess(breakers[b])}
      BY <1>1, <2>1 DEF Recorded
    <2>3. QED
      BY <1>1, <1>3, <2>1, <2>2, RecordedType, WaitsShorten DEF Engaged, TypeInv
  <1>4. ASSUME NEW r \in Requests, Start(r)
        PROVE  FALSE
    <2>1. idx[r] = 0
      BY <1>4 DEF Start, TypeInv, Positions, PositionOf
    <2>2. QED
      BY <1>1, <1>2, <1>4, <2>1, WaitsShorten DEF Start
  <1>5. ASSUME NEW r \in Requests, TransportError(r) \/ BadGeneration(r)
        PROVE  r \in Engaged(b) /\ ~UNCHANGED Got(r)
    <2>1. pc[r] = "calling" /\ pc[r] \in Awaiting
      BY <1>5 DEF TransportError, BadGeneration, Awaiting
    <2>2. CASE Exhausted(r)
      <3>1. PICK brs \in {Recorded(r, AfterFailure), Recorded(r, AfterSuccess)} :
                MoveOn(r, idx[r], brs)
        BY <1>5, <2>2 DEF TransportError, BadGeneration
      <3>2. brs[b].wait > breakers[b].wait /\ idx'[r] # idx[r]
        BY <1>2, <1>3, <2>1, <3>1
      <3>3. QED
        BY <1>3, <2>1, <3>1, <3>2 DEF Got
    <2>3. CASE ~Exhausted(r)
      <3>1. PICK brs \in {Recorded(r, AfterFailure), breakers} : Backoff(r, brs)
        BY <1>5, <2>3 DEF TransportError, BadGeneration
      <3>2. breakers' = brs /\ pc'[r] = "backoff"
        BY <3>1 DEF Backoff, TypeInv, TypeOK
      <3>3. QED
        BY <1>1, <1>3, <2>1, <3>1, <3>2, WaitsShorten DEF Got
    <2>4. QED
      BY <2>2, <2>3
  <1>6. ASSUME NEW r \in Requests, StreamBreaks(r)
        PROVE  r \in Engaged(b) /\ ~UNCHANGED Got(r)
    <2>1. /\ pc[r] = "streaming" /\ pc'[r] = "AllBackendsFailed"
          /\ breakers' = Recorded(r, AfterFailure)
      BY <1>6 DEF StreamBreaks, End, TypeInv, TypeOK
    <2>2. QED
      BY <1>3, <2>1 DEF Got, Awaiting
  <1>7. ASSUME NEW r \in Requests, GoodGeneration(r) \/ StreamEnds(r)
        PROVE  FALSE
    BY <1>3, <1>7 DEF GoodGeneration, StreamEnds, Awaiting
  <1>8. ASSUME NEW r \in Requests, EscapingError(r) \/ Cancel(r) \/ WakeUp(r) \/ Chunk(r)
        PROVE  FALSE
    BY <1>1, <1>8, WaitsShorten DEF EscapingError, Cancel, WakeUp, Chunk
  <1>9. CASE Tick
    BY <1>1, <1>9, WaitsShorten DEF Tick
  <1>10. CASE UNCHANGED vars
    BY <1>1, <1>10, WaitsShorten DEF vars
  <1>11. QED
    BY <1>4, <1>5, <1>6, <1>7, <1>8, <1>9, <1>10 DEF Next, Step, Answer, Terminated, Engaged

LEMMA RearmNext ==
    TypeInv /\ [Next]_vars =>
        [\A b \in Backends :
            (breakers[b].wait)' > breakers[b].wait =>
                \E r \in Engaged(b) : StepsLeft(r)' \in Nat /\ StepsLeft(r)' < StepsLeft(r)]_vars
  <1>1. ASSUME TypeInv, [Next]_vars, NEW b \in Backends,
               breakers'[b].wait > breakers[b].wait
        PROVE  \E r \in Engaged(b) : StepsLeft(r)' \in Nat /\ StepsLeft(r)' < StepsLeft(r)
    BY <1>1, WhoRearms, StepLessens DEF Lessens, Engaged
  <1>2. QED
    BY <1>1

\* No refusal, probe or success, and nothing that happens at other backends, prolongs a
\* cooldown: it takes the failure of a request that was at the backend and is then nearer
\* to its end, so that each request prolongs it boundedly often (allow, record_failure).
THEOREM AnswersRearm == Spec => OnlyAnswersRearm
  BY RearmNext, TypeCorrect, PTL DEF Spec, TypeInv, OnlyAnswersRearm


(***************************************************************************)
(* The contract of FallbackChain.tla.                                      *)
(***************************************************************************)
committed == [r \in Requests |-> emitted[r] # {}]
outcome == [r \in Requests |-> Outcome(r)]

\* Moving on is an Advance of the contract.
LEMMA MoveOnAdvances ==
    ASSUME TypeInv,
           NEW r \in Requests, pc[r] \in {"new", "calling"},
           NEW brs \in [Backends -> Breaker],
           MoveOn(r, idx[r], brs)
    PROVE  FallbackChain!Advance(r)
  <1>1. PICK j \in (idx[r] + 1)..(NumBackends + 1) :
            /\ idx' = [idx EXCEPT ![r] = j]
            /\ UNCHANGED emitted
            /\ \/ j \in Backends /\ pc' = [pc EXCEPT ![r] = "calling"]
               \/ j \notin Backends /\ pc' = [pc EXCEPT ![r] = "AllBackendsFailed"]
    BY DEF MoveOn
  <1>2. idx[r] \in 0..(NumBackends + 1) /\ emitted[r] = {} /\ Outcome(r) = "pending"
    BY DEF TypeInv, TypeOK, Positions, PositionOf, Outcome, Ends
  <1>3. outcome' = [outcome EXCEPT ![r] = IF j > NumBackends THEN "failed" ELSE @]
    <2>1. ASSUME NEW q \in Requests
          PROVE  Outcome(q)' = IF q = r /\ j > NumBackends THEN "failed" ELSE Outcome(q)
      <3>1. CASE q # r
        BY <1>1, <3>1 DEF Outcome, TypeInv, TypeOK
      <3>2. CASE q = r /\ j \in Backends
        BY <1>1, <1>2, <3>2, DispatchAssumption DEF Outcome, Ends, Backends, TypeInv, TypeOK
      <3>3. CASE q = r /\ j \notin Backends
        <4>1. j > NumBackends
          BY <1>2, <3>3, DispatchAssumption DEF Backends
        <4>2. pc'[r] = "AllBackendsFailed"
          BY <1>1, <3>3 DEF TypeInv, TypeOK
        <4>3. QED
          BY <3>3, <4>1, <4>2 DEF Outcome, Ends
      <3>4. QED
        BY <3>1, <3>2, <3>3
    <2>2. QED
      BY <2>1 DEF outcome
  <1>4. committed' = committed
    BY <1>1 DEF committed
  <1>5. QED
    BY <1>1, <1>2, <1>3, <1>4 DEF FallbackChain!Advance, outcome, committed

\* The end of a call is the end of the contract: a failure if it is a stream that broke.
LEMMA EndConcludes ==
    ASSUME TypeInv,
           NEW r \in Requests, pc[r] \in Awaiting,
           NEW how \in Ends, End(r, how),
           how = "AllBackendsFailed" => pc[r] = "streaming"
    PROVE  FallbackChain!Conclude(r) \/ FallbackChain!Break(r)
  <1>1. /\ Outcome(r) = "pending"
        /\ idx[r] > 0
        /\ how = "AllBackendsFailed" => emitted[r] # {}
    <2>1. PositionOf(r)
      BY DEF TypeInv, Positions
    <2>2. Outcome(r) = "pending"
      BY DEF Outcome, Awaiting, Ends
    <2>3. idx[r] > 0
      BY <2>1, DispatchAssumption DEF PositionOf, Backends
    <2>4. QED
      BY <2>1, <2>2, <2>3 DEF PositionOf
  <1>2. idx' = idx /\ committed' = committed
    BY DEF End, history, committed
  <1>3. outcome' = [outcome EXCEPT ![r] = IF how = "AllBackendsFailed" THEN "failed" ELSE "done"]
    BY DEF End, outcome, Outcome, TypeInv, TypeOK
  <1>4. QED
    BY <1>1, <1>2, <1>3 DEF FallbackChain!Conclude, FallbackChain!Break, outcome, committed

\* dispatch and dispatch_stream implement the contract of a fallback chain: every one of
\* their steps is a step of the contract or invisible to it.
THEOREM ImplementsContract == Spec => ImplementsFallbackChain
  <1>1. Init => FallbackChain!Init
    BY DEF Init, FallbackChain!Init, Outcome, Ends
  <1>2. ASSUME TypeInv, [Next]_vars
        PROVE  [FallbackChain!Next]_(FallbackChain!vars)
    <2>1. ASSUME idx' = idx, committed' = committed, outcome' = outcome
          PROVE  UNCHANGED FallbackChain!vars
      BY <2>1 DEF FallbackChain!vars, committed, outcome
    <2>2. ASSUME NEW r \in Requests, pc[r] = "calling"
          PROVE  /\ Recorded(r, AfterFailure) \in [Backends -> Breaker]
                 /\ Recorded(r, AfterSuccess) \in [Backends -> Breaker]
      <3>1. idx[r] \in Backends
        BY <1>2, <2>2 DEF TypeInv, Positions, PositionOf, Awaiting
      <3>2. QED
        BY <1>2, <3>1, RecordedType DEF TypeInv
    <2>3. ASSUME NEW r \in Requests,
                 \/ Start(r)
                 \/ (TransportError(r) \/ BadGeneration(r)) /\ Exhausted(r)
          PROVE  FallbackChain!Advance(r)
      <3>1. CASE Start(r)
        <4>1. idx[r] = 0 /\ breakers \in [Backends -> Breaker]
          BY <1>2, <3>1 DEF Start, TypeInv, TypeOK, Positions, PositionOf
        <4>2. QED
          BY <1>2, <3>1, <4>1, MoveOnAdvances DEF Start
      <3>2. CASE (TransportError(r) \/ BadGeneration(r)) /\ Exhausted(r)
        BY <1>2, <2>2, <3>2, MoveOnAdvances DEF TransportError, BadGeneration
      <3>3. QED
        BY <2>3, <3>1, <3>2
    <2>4. ASSUME NEW r \in Requests,
                 \/ (TransportError(r) \/ BadGeneration(r)) /\ ~Exhausted(r)
                 \/ WakeUp(r)
          PROVE  UNCHANGED FallbackChain!vars
      <3>1. /\ idx' = idx
            /\ emitted' = emitted
            /\ pc[r] \notin Ends
            /\ \E how \in Awaiting : pc' = [pc EXCEPT ![r] = how]
        BY <2>4 DEF TransportError, BadGeneration, Backoff, WakeUp, history, Awaiting, Ends
      <3>2. outcome' = outcome /\ committed' = committed
        BY <1>2, <3>1 DEF outcome, committed, Outcome, Awaiting, Ends, TypeInv, TypeOK
      <3>3. QED
        BY <2>1, <3>1, <3>2
    <2>5. ASSUME NEW r \in Requests, Chunk(r)
          PROVE  FallbackChain!Commit(r)
      <3>1. idx[r] \in Backends /\ Outcome(r) = "pending"
        BY <1>2, <2>5 DEF Chunk, TypeInv, Positions, PositionOf, Awaiting, Ends, Outcome
      <3>2. committed' = [committed EXCEPT ![r] = TRUE]
        BY <1>2, <2>5 DEF Chunk, committed, TypeInv, TypeOK
      <3>3. outcome' = outcome /\ idx' = idx
        BY <1>2, <2>5 DEF Chunk, outcome, Outcome, Ends, TypeInv, TypeOK
      <3>4. QED
        BY <3>1, <3>2, <3>3, DispatchAssumption
           DEF FallbackChain!Commit, outcome, committed, Backends
    <2>6. ASSUME NEW r \in Requests,
                 \/ StreamBreaks(r) \/ GoodGeneration(r) \/ StreamEnds(r)
                 \/ EscapingError(r) \/ Cancel(r)
          PROVE  FallbackChain!Conclude(r) \/ FallbackChain!Break(r)
      <3>1. pc[r] \in Awaiting
        BY <2>6 DEF StreamBreaks, GoodGeneration, StreamEnds, EscapingError, Cancel, Awaiting
      <3>2. PICK how \in Ends : End(r, how) /\ (how = "AllBackendsFailed" => pc[r] = "streaming")
        BY <2>6 DEF StreamBreaks, GoodGeneration, StreamEnds, EscapingError, Cancel, Ends
      <3>3. QED
        BY <1>2, <3>1, <3>2, EndConcludes
    <2>7. CASE Tick \/ UNCHANGED vars
      BY <2>7 DEF Tick, vars, history, FallbackChain!vars, Outcome
    <2>8. QED
      BY <1>2, <2>3, <2>4, <2>5, <2>6, <2>7
         DEF Next, Step, Answer, Terminated, FallbackChain!Next, FallbackChain!Step
  <1>3. QED
    BY <1>1, <1>2, TypeCorrect, PTL
       DEF Spec, TypeInv, ImplementsFallbackChain, FallbackChain!Safety
==============================================================================
