-------------------------- MODULE ContextBudgetProofs --------------------------
(***************************************************************************)
(* What the guard of ContextBudget.tla does to every conversation, however *)
(* long, with any window and headroom.                                     *)
(***************************************************************************)
EXTENDS ContextBudget, FiniteSetTheorems, SequenceTheorems, TLAPS

(***************************************************************************)
(* Induction and recursion over the numbers, of sets and functions.        *)
(***************************************************************************)

\* A set of natural numbers with 0 and every successor has them all: adding one maps a
\* finite initial part without its bound into itself, hence onto itself, but never to 0.
LEMMA Induction ==
    ASSUME NEW S \in SUBSET Nat, 0 \in S, \A n \in S : n + 1 \in S
    PROVE  S = Nat
<1> SUFFICES ASSUME NEW n \in Nat, n \notin S
             PROVE  FALSE
  OBVIOUS
<1> DEFINE T == S \cap 0..n
           next == [k \in T |-> k + 1]
<1>1. IsFiniteSet(T)
  <2>1. IsFiniteSet(0..n) /\ T \in SUBSET (0..n)
    BY FS_Interval
  <2>2. QED
    BY <2>1, FS_Subset
<1>2. \A k \in T : k + 1 \in T
  OBVIOUS
<1>3. next \in Injection(T, T)
  BY <1>2 DEF Injection, IsInjective
<1>4. next \in Surjection(T, T)
  BY <1>1, <1>3, FS_Injection
<1>5. PICK k \in T : k + 1 = 0
  BY <1>4, 0 \in T DEF Surjection
<1>6. QED
  BY <1>5

\* Two functions that start alike and step alike end alike.
LEMMA Agreement ==
    ASSUME NEW f, NEW g, NEW n \in Nat,
           f[0] = g[0],
           \A i \in 1..n : f[i - 1] = g[i - 1] => f[i] = g[i]
    PROVE  f[n] = g[n]
<1> DEFINE S == {k \in Nat : k <= n => f[k] = g[k]}
<1>1. 0 \in S
  OBVIOUS
<1>2. ASSUME NEW k \in S, k + 1 <= n
      PROVE  f[k + 1] = g[k + 1]
  <2>1. k \in Nat /\ k + 1 \in 1..n /\ (k + 1) - 1 = k
    BY <1>2
  <2>2. QED
    BY <1>2, <2>1
<1>3. S = Nat
  <2>1. \A k \in S : k + 1 \in S
    BY <1>2
  <2>2. QED
    <3> HIDE DEF S
    <3>1. QED
      BY <1>1, <2>1, Induction, S \subseteq Nat DEF S
<1>4. QED
  BY <1>3

\* For each number a step on V, and the values they lead through from base.
Steps(n, V) == [1..n -> [V -> V]]
IsRun(f, n, V, base, step) ==
    /\ f \in [0..n -> V]
    /\ f[0] = base
    /\ \A i \in 1..n : f[i] = step[i][f[i - 1]]

\* Any steps can be taken one after the other.
LEMMA Recursion ==
    ASSUME NEW V, NEW base \in V, NEW n \in Nat, NEW step \in Steps(n, V)
    PROVE  \E f : IsRun(f, n, V, base, step)
<1> DEFINE S == {k \in Nat : k <= n => \E f : IsRun(f, k, V, base, step)}
<1>1. 0 \in S
  <2>1. IsRun([i \in 0..0 |-> base], 0, V, base, step)
    BY DEF IsRun
  <2>2. QED
    BY <2>1
<1>2. ASSUME NEW k \in S, k + 1 <= n
      PROVE  \E f : IsRun(f, k + 1, V, base, step)
  <2>1. k \in Nat /\ k + 1 \in 1..n
    BY <1>2
  <2>2. PICK f : IsRun(f, k, V, base, step)
    BY <1>2, <2>1
  <2> DEFINE g == [i \in 0..(k + 1) |-> IF i = k + 1 THEN step[k + 1][f[k]] ELSE f[i]]
  <2>3. step[k + 1][f[k]] \in V
    BY <2>1, <2>2 DEF IsRun, Steps
  <2>4. g \in [0..(k + 1) -> V] /\ g[0] = base
    BY <2>1, <2>2, <2>3 DEF IsRun
  <2>5. ASSUME NEW i \in 1..(k + 1)
        PROVE  g[i] = step[i][g[i - 1]]
    <3>1. g[i - 1] = f[i - 1]
      BY <2>1
    <3>2. CASE i = k + 1
      BY <2>1, <3>1, <3>2
    <3>3. CASE i # k + 1
      BY <2>1, <2>2, <3>1, <3>3 DEF IsRun
    <3>4. QED
      BY <3>2, <3>3
  <2>6. IsRun(g, k + 1, V, base, step)
    BY <2>4, <2>5 DEF IsRun
  <2>7. QED
    BY <2>6
<1>3. S = Nat
  <2>1. \A k \in S : k + 1 \in S
    BY <1>2
  <2>2. QED
    <3> HIDE DEF S
    <3>1. QED
      BY <1>1, <2>1, Induction, S \subseteq Nat DEF S
<1>4. QED
  BY <1>3

(***************************************************************************)
(* Conversations: their messages, in order, and what they cost.            *)
(***************************************************************************)
Message == [role : {"system", "user", "assistant", "tool"}, tokens : Nat]

LEMMA CostType ==
    ASSUME NEW m \in Message
    PROVE  Cost(m) \in Nat \ {0}
  BY ContextBudgetAssumption DEF ContextBudgetAssumption, Message, Cost

\* A set with the empty sequence, and with every sequence by one element longer than one of
\* its own, has all the sequences.
LEMMA SequenceInduction ==
    ASSUME NEW A, NEW S \in SUBSET Seq(A), <<>> \in S,
           \A s \in S, a \in A : Append(s, a) \in S
    PROVE  S = Seq(A)
<1> DEFINE N == {n \in Nat : \A s \in Seq(A) : Len(s) = n => s \in S}
<1>1. 0 \in N
  BY EmptySeq
<1>2. ASSUME NEW n \in N
      PROVE  n + 1 \in N
  <2>1. n \in Nat /\ \A s \in Seq(A) : Len(s) = n => s \in S
    OBVIOUS
  <2>2. ASSUME NEW s \in Seq(A), Len(s) = n + 1
        PROVE  s \in S
    <3>1. s # <<>>
      BY <2>1, <2>2, EmptySeq
    <3>2. PICK t \in Seq(A), a \in A : s = Append(t, a)
      BY <3>1, SequenceEmptyOrAppend
    <3>3. Len(t) = n
      BY <2>1, <2>2, <3>2, AppendProperties, LenProperties
    <3>4. QED
      BY <2>1, <3>2, <3>3
  <2>3. QED
    BY <2>1, <2>2
<1>3. N = Nat
  <2> HIDE DEF N
  <2>1. QED
    BY <1>1, <1>2, Induction, N \subseteq Nat DEF N
<1>4. QED
  <2>1. \A s \in Seq(A) : Len(s) \in N
    BY <1>3, LenProperties
  <2>2. QED
    BY <2>1

LEMMA TotalIsDefined ==
    ASSUME NEW ms \in Seq(Message)
    PROVE  \E total \in [0..Len(ms) -> Nat] :
               /\ total[0] = 0
               /\ \A i \in 1..Len(ms) : total[i] = total[i - 1] + Cost(ms[i])
               /\ count_message_tokens(ms) = total[Len(ms)]
<1> DEFINE n == Len(ms)
           Sums(f) == f = [i \in 0..n |-> IF i = 0 THEN 0 ELSE f[i - 1] + Cost(ms[i])]
           step == [i \in 1..n |-> [v \in Nat |-> v + Cost(ms[i])]]
<1>1. n \in Nat /\ \A i \in 1..n : Cost(ms[i]) \in Nat
  BY LenProperties, ElementOfSeq, CostType
<1>2. PICK f : IsRun(f, n, Nat, 0, step)
  <2>1. step \in Steps(n, Nat)
    BY <1>1 DEF Steps
  <2> HIDE DEF step, n
  <2>2. 0 \in Nat
    OBVIOUS
  <2>3. QED
    BY <1>1, <2>1, <2>2, Recursion
<1>3. /\ f \in [0..n -> Nat]
      /\ f[0] = 0
      /\ \A i \in 1..n : f[i] = f[i - 1] + Cost(ms[i])
  <2>1. f \in [0..n -> Nat] /\ f[0] = 0
    BY <1>2 DEF IsRun
  <2>2. ASSUME NEW i \in 1..n
        PROVE  f[i] = f[i - 1] + Cost(ms[i])
    <3>1. i - 1 \in 0..n
      BY <1>1
    <3>2. f[i - 1] \in Nat /\ f[i] = step[i][f[i - 1]]
      BY <1>2, <2>1, <3>1 DEF IsRun
    <3>3. QED
      BY <3>2
  <2>3. QED
    BY <2>1, <2>2
<1>4. Sums(f)
  BY <1>1, <1>3
<1> DEFINE g == CHOOSE total : Sums(total)
<1>5. Sums(g)
  <2> HIDE DEF Sums
  <2>1. QED
    BY <1>4
<1>6. count_message_tokens(ms) = g[n]
  BY DEF count_message_tokens
<1>7. g[0] = 0 /\ \A i \in 1..n : g[i] = g[i - 1] + Cost(ms[i])
  <2> HIDE DEF g
  <2>1. QED
    BY <1>1, <1>5
<1>8. g = f
  <2> HIDE DEF g
  <2>1. ASSUME NEW k \in 0..n
        PROVE  g[k] = f[k]
    <3>1. k \in Nat /\ g[0] = f[0]
      BY <1>3, <1>7
    <3>2. \A i \in 1..k : g[i - 1] = f[i - 1] => g[i] = f[i]
      BY <1>1, <1>3, <1>7
    <3>3. QED
      BY <3>1, <3>2, Agreement
  <2>2. QED
    BY <1>4, <1>5, <2>1
<1>9. QED
  BY <1>3, <1>6, <1>8

LEMMA CountOfNothing == count_message_tokens(<<>>) = 0
<1>1. <<>> \in Seq(Message) /\ Len(<<>>) = 0
  BY EmptySeq
<1>2. QED
  BY <1>1, TotalIsDefined

LEMMA CountType ==
    ASSUME NEW ms \in Seq(Message)
    PROVE  count_message_tokens(ms) \in Nat
<1>1. Len(ms) \in Nat
  BY LenProperties
<1>2. QED
  BY <1>1, TotalIsDefined

LEMMA CountOfAppend ==
    ASSUME NEW ms \in Seq(Message), NEW m \in Message
    PROVE  count_message_tokens(Append(ms, m)) = count_message_tokens(ms) + Cost(m)
<1> DEFINE n == Len(ms)
           more == Append(ms, m)
<1>1. /\ n \in Nat
      /\ more \in Seq(Message) /\ Len(more) = n + 1
      /\ \A i \in 1..n : more[i] = ms[i]
      /\ more[n + 1] = m
  BY LenProperties, AppendProperties
<1>2. PICK f \in [0..n -> Nat] :
          /\ f[0] = 0
          /\ \A i \in 1..n : f[i] = f[i - 1] + Cost(ms[i])
          /\ count_message_tokens(ms) = f[n]
  BY TotalIsDefined
<1>3. PICK g \in [0..Len(more) -> Nat] :
          /\ g[0] = 0
          /\ \A i \in 1..Len(more) : g[i] = g[i - 1] + Cost(more[i])
          /\ count_message_tokens(more) = g[Len(more)]
  BY <1>1, TotalIsDefined
<1> HIDE DEF n, more
<1>4. f[n] = g[n]
  <2>1. \A i \in 1..n : f[i - 1] = g[i - 1] => f[i] = g[i]
    BY <1>1, <1>2, <1>3
  <2>2. n \in Nat /\ f[0] = g[0]
    BY <1>1, <1>2, <1>3
  <2>3. QED
    BY <2>1, <2>2, Agreement
<1>5. g[n + 1] = g[n] + Cost(m)
  BY <1>1, <1>3
<1>6. QED
  BY <1>1, <1>2, <1>3, <1>4, <1>5 DEF more

LEMMA CountOfConcat ==
    ASSUME NEW s \in Seq(Message), NEW t \in Seq(Message)
    PROVE  count_message_tokens(s \o t) = count_message_tokens(s) + count_message_tokens(t)
<1> DEFINE S == {u \in Seq(Message) :
                    count_message_tokens(s \o u)
                        = count_message_tokens(s) + count_message_tokens(u)}
<1>1. <<>> \in S
  <2>1. <<>> \in Seq(Message) /\ s \o <<>> = s
    BY EmptySeq, ConcatEmptySeq
  <2>2. QED
    BY <2>1, CountOfNothing, CountType
<1>2. ASSUME NEW u \in S, NEW m \in Message
      PROVE  Append(u, m) \in S
  <2>1. /\ u \in Seq(Message)
        /\ count_message_tokens(s \o u) = count_message_tokens(s) + count_message_tokens(u)
    OBVIOUS
  <2>2. s \o Append(u, m) = Append(s \o u, m)
    BY <2>1
  <2>3. Append(u, m) \in Seq(Message) /\ s \o u \in Seq(Message)
    BY <2>1
  <2>4. /\ count_message_tokens(Append(u, m)) = count_message_tokens(u) + Cost(m)
        /\ count_message_tokens(Append(s \o u, m)) = count_message_tokens(s \o u) + Cost(m)
    BY <2>1, <2>3, CountOfAppend
  <2>5. /\ count_message_tokens(s) \in Nat
        /\ count_message_tokens(u) \in Nat
        /\ Cost(m) \in Nat
    BY <2>1, CountType, CostType
  <2>6. count_message_tokens(s \o Append(u, m))
            = count_message_tokens(s) + count_message_tokens(Append(u, m))
    BY <2>1, <2>2, <2>4, <2>5
  <2>7. QED
    BY <2>3, <2>6
<1>3. S = Seq(Message)
  <2> HIDE DEF S
  <2>1. QED
    BY <1>1, <1>2, SequenceInduction, S \subseteq Seq(Message) DEF S
<1>4. QED
  BY <1>3

LEMMA ThoseAreDefined ==
    ASSUME NEW ms \in Seq(Message), NEW system \in BOOLEAN
    PROVE  \E those \in [0..Len(ms) -> Seq(Message)] :
               /\ those[0] = <<>>
               /\ \A i \in 1..Len(ms) : those[i] = AppendIf(those[i - 1], ms[i], system)
               /\ Those(ms, system) = those[Len(ms)]
<1> DEFINE n == Len(ms)
           Collects(f) == f = [i \in 0..n |->
                                  IF i = 0 THEN <<>> ELSE AppendIf(f[i - 1], ms[i], system)]
           step == [i \in 1..n |-> [s \in Seq(Message) |-> AppendIf(s, ms[i], system)]]
<1>1. n \in Nat /\ \A i \in 1..n : ms[i] \in Message
  BY LenProperties, ElementOfSeq
<1>2. PICK f : IsRun(f, n, Seq(Message), <<>>, step)
  <2>1. \A i \in 1..n, s \in Seq(Message) : AppendIf(s, ms[i], system) \in Seq(Message)
    BY <1>1, AppendProperties DEF AppendIf
  <2>2. step \in Steps(n, Seq(Message))
    <3> HIDE DEF n
    <3>1. QED
      BY <2>1 DEF Steps
  <2> HIDE DEF step, n
  <2>3. <<>> \in Seq(Message)
    BY EmptySeq
  <2>4. QED
    BY <1>1, <2>2, <2>3, Recursion
<1>3. /\ f \in [0..n -> Seq(Message)]
      /\ f[0] = <<>>
      /\ \A i \in 1..n : f[i] = AppendIf(f[i - 1], ms[i], system)
  <2>1. f \in [0..n -> Seq(Message)] /\ f[0] = <<>>
    BY <1>2 DEF IsRun
  <2>2. ASSUME NEW i \in 1..n
        PROVE  f[i] = AppendIf(f[i - 1], ms[i], system)
    <3>1. i - 1 \in 0..n
      BY <1>1
    <3>2. f[i - 1] \in Seq(Message) /\ f[i] = step[i][f[i - 1]]
      BY <1>2, <2>1, <3>1 DEF IsRun
    <3>3. QED
      BY <3>2
  <2>3. QED
    BY <2>1, <2>2
<1>4. Collects(f)
  BY <1>1, <1>3
<1> DEFINE g == CHOOSE those : Collects(those)
<1>5. Collects(g)
  <2> HIDE DEF Collects
  <2>1. QED
    BY <1>4
<1>6. Those(ms, system) = g[n]
  BY DEF Those
<1>7. g[0] = <<>> /\ \A i \in 1..n : g[i] = AppendIf(g[i - 1], ms[i], system)
  <2> HIDE DEF g
  <2>1. QED
    BY <1>1, <1>5
<1>8. g = f
  <2> HIDE DEF g
  <2>1. ASSUME NEW k \in 0..n
        PROVE  g[k] = f[k]
    <3>1. k \in Nat /\ g[0] = f[0]
      BY <1>3, <1>7
    <3>2. \A i \in 1..k : g[i - 1] = f[i - 1] => g[i] = f[i]
      BY <1>1, <1>3, <1>7
    <3>3. QED
      BY <3>1, <3>2, Agreement
  <2>2. QED
    BY <1>4, <1>5, <2>1
<1>9. QED
  BY <1>3, <1>6, <1>8

LEMMA ThoseOfNothing ==
    ASSUME NEW system \in BOOLEAN
    PROVE  Those(<<>>, system) = <<>>
<1>1. <<>> \in Seq(Message) /\ Len(<<>>) = 0
  BY EmptySeq
<1>2. QED
  BY <1>1, ThoseAreDefined

LEMMA ThoseType ==
    ASSUME NEW ms \in Seq(Message), NEW system \in BOOLEAN
    PROVE  Those(ms, system) \in Seq(Message)
<1>1. Len(ms) \in Nat
  BY LenProperties
<1>2. QED
  BY <1>1, ThoseAreDefined

LEMMA ThoseOfAppend ==
    ASSUME NEW ms \in Seq(Message), NEW m \in Message, NEW system \in BOOLEAN
    PROVE  Those(Append(ms, m), system) =
               AppendIf(Those(ms, system), m, system)
<1> DEFINE n == Len(ms)
           more == Append(ms, m)
<1>1. /\ n \in Nat
      /\ more \in Seq(Message) /\ Len(more) = n + 1
      /\ \A i \in 1..n : more[i] = ms[i]
      /\ more[n + 1] = m
  BY LenProperties, AppendProperties
<1>2. PICK f \in [0..n -> Seq(Message)] :
          /\ f[0] = <<>>
          /\ \A i \in 1..n : f[i] = AppendIf(f[i - 1], ms[i], system)
          /\ Those(ms, system) = f[n]
  BY ThoseAreDefined
<1>3. PICK g \in [0..Len(more) -> Seq(Message)] :
          /\ g[0] = <<>>
          /\ \A i \in 1..Len(more) : g[i] = AppendIf(g[i - 1], more[i], system)
          /\ Those(more, system) = g[Len(more)]
  BY <1>1, ThoseAreDefined
<1> HIDE DEF n, more
<1>4. f[n] = g[n]
  <2>1. \A i \in 1..n : f[i - 1] = g[i - 1] => f[i] = g[i]
    BY <1>1, <1>2, <1>3
  <2>2. n \in Nat /\ f[0] = g[0]
    BY <1>1, <1>2, <1>3
  <2>3. QED
    BY <2>1, <2>2, Agreement
<1>5. g[n + 1] = AppendIf(g[n], m, system)
  BY <1>1, <1>3
<1>6. QED
  BY <1>1, <1>2, <1>3, <1>4, <1>5 DEF more

\* A conversation is made of its system messages and the rest of it.
LEMMA Parts ==
    ASSUME NEW ms \in Seq(Message)
    PROVE  /\ SystemOf(ms) \in Seq(Message) /\ RestOf(ms) \in Seq(Message)
           /\ Len(SystemOf(ms)) + Len(RestOf(ms)) = Len(ms)
           /\ count_message_tokens(SystemOf(ms)) + count_message_tokens(RestOf(ms))
                  = count_message_tokens(ms)
<1> DEFINE Whole(s) ==
               /\ Len(SystemOf(s)) + Len(RestOf(s)) = Len(s)
               /\ count_message_tokens(SystemOf(s)) + count_message_tokens(RestOf(s))
                      = count_message_tokens(s)
           S == {s \in Seq(Message) : Whole(s)}
<1>1. \A s \in Seq(Message) : SystemOf(s) \in Seq(Message) /\ RestOf(s) \in Seq(Message)
  BY ThoseType DEF SystemOf, RestOf
<1>2. <<>> \in S
  <2>1. SystemOf(<<>>) = <<>> /\ RestOf(<<>>) = <<>>
    BY ThoseOfNothing DEF SystemOf, RestOf
  <2>2. QED
    BY <2>1, EmptySeq, CountOfNothing
<1>3. ASSUME NEW s \in S, NEW m \in Message
      PROVE  Append(s, m) \in S
  <2>1. s \in Seq(Message) /\ Whole(s)
    OBVIOUS
  <2>2. \/ /\ SystemOf(Append(s, m)) = Append(SystemOf(s), m)
           /\ RestOf(Append(s, m)) = RestOf(s)
        \/ /\ SystemOf(Append(s, m)) = SystemOf(s)
           /\ RestOf(Append(s, m)) = Append(RestOf(s), m)
    BY <2>1, ThoseOfAppend DEF SystemOf, RestOf, AppendIf
  <2>3. /\ Append(s, m) \in Seq(Message)
        /\ \A t \in Seq(Message) :
               /\ Len(Append(t, m)) = Len(t) + 1
               /\ count_message_tokens(Append(t, m)) = count_message_tokens(t) + Cost(m)
    BY <2>1, AppendProperties, CountOfAppend
  <2>4. /\ Cost(m) \in Nat
        /\ \A t \in Seq(Message) : Len(t) \in Nat /\ count_message_tokens(t) \in Nat
    BY CostType, CountType, LenProperties
  <2>5. Whole(Append(s, m))
    <3> DEFINE ByOne(t, u) ==
                   /\ Len(u) = Len(t) + 1
                   /\ count_message_tokens(u) = count_message_tokens(t) + Cost(m)
               Counts(t) == Len(t) \in Nat /\ count_message_tokens(t) \in Nat
    <3>1. SystemOf(s) \in Seq(Message) /\ RestOf(s) \in Seq(Message)
      BY <1>1, <2>1
    <3>2. Counts(s) /\ Counts(SystemOf(s)) /\ Counts(RestOf(s)) /\ Cost(m) \in Nat
      BY <2>1, <2>4, <3>1
    <3>3. ByOne(s, Append(s, m))
      BY <2>1, <2>3
    <3>4. CASE SystemOf(Append(s, m)) = Append(SystemOf(s), m) /\ RestOf(Append(s, m)) = RestOf(s)
      <4>1. ByOne(SystemOf(s), SystemOf(Append(s, m)))
        BY <2>3, <3>1, <3>4
      <4>2. QED
        BY <2>1, <3>2, <3>3, <3>4, <4>1
    <3>5. CASE SystemOf(Append(s, m)) = SystemOf(s) /\ RestOf(Append(s, m)) = Append(RestOf(s), m)
      <4>1. ByOne(RestOf(s), RestOf(Append(s, m)))
        BY <2>3, <3>1, <3>5
      <4>2. QED
        BY <2>1, <3>2, <3>3, <3>5, <4>1
    <3>6. QED
      BY <2>2, <3>4, <3>5
  <2>6. QED
    BY <2>3, <2>5
<1>4. S = Seq(Message)
  <2> HIDE DEF S
  <2>1. QED
    BY <1>2, <1>3, SequenceInduction, S \subseteq Seq(Message) DEF S
<1>5. QED
  BY <1>1, <1>4

\* Every message costs something.
LEMMA CountBoundsLength ==
    ASSUME NEW ms \in Seq(Message)
    PROVE  Len(ms) <= count_message_tokens(ms)
<1> DEFINE S == {s \in Seq(Message) : Len(s) <= count_message_tokens(s)}
<1>1. <<>> \in S
  BY EmptySeq, CountOfNothing
<1>2. ASSUME NEW s \in S, NEW m \in Message
      PROVE  Append(s, m) \in S
  <2>1. s \in Seq(Message) /\ Len(s) <= count_message_tokens(s)
    OBVIOUS
  <2>2. /\ Append(s, m) \in Seq(Message) /\ Len(Append(s, m)) = Len(s) + 1
        /\ count_message_tokens(Append(s, m)) = count_message_tokens(s) + Cost(m)
    BY <2>1, AppendProperties, CountOfAppend
  <2>3. Len(s) \in Nat /\ count_message_tokens(s) \in Nat /\ Cost(m) \in Nat \ {0}
    BY <2>1, CostType, CountType, LenProperties
  <2>4. QED
    BY <2>1, <2>2, <2>3
<1>3. S = Seq(Message)
  <2> HIDE DEF S
  <2>1. QED
    BY <1>1, <1>2, SequenceInduction, S \subseteq Seq(Message) DEF S
<1>4. QED
  BY <1>3

-----------------------------------------------------------------------------
(***************************************************************************)
(* The newest messages, and how many of them are kept.                     *)
(***************************************************************************)

LEMMA NewestType ==
    ASSUME NEW ms \in Seq(Message), NEW n \in 0..Len(ms)
    PROVE  Newest(ms, n) \in Seq(Message) /\ Len(Newest(ms, n)) = n
<1>1. Len(ms) \in Nat /\ \A i \in 1..Len(ms) : ms[i] \in Message
  BY LenProperties, ElementOfSeq
<1>2. \A i \in (Len(ms) - n + 1)..Len(ms) : ms[i] \in Message
  BY <1>1
<1>3. /\ SubSeq(ms, Len(ms) - n + 1, Len(ms)) \in Seq(Message)
      /\ Len(SubSeq(ms, Len(ms) - n + 1, Len(ms)))
             = IF Len(ms) - n + 1 <= Len(ms) THEN Len(ms) - (Len(ms) - n + 1) + 1 ELSE 0
  BY <1>1, <1>2, SubSeqProperties
<1>4. QED
  BY <1>1, <1>3 DEF Newest

\* More messages cost more.
LEMMA NewestCost ==
    ASSUME NEW ms \in Seq(Message), NEW n \in 0..Len(ms), NEW k \in 0..n
    PROVE  count_message_tokens(Newest(ms, k)) <= count_message_tokens(Newest(ms, n))
<1> DEFINE l == Len(ms)
           older == SubSeq(ms, l - n + 1, l - k)
<1>1. l \in Nat /\ k \in 0..l /\ \A i \in 1..l : ms[i] \in Message
  BY LenProperties, ElementOfSeq
<1>2. older \o Newest(ms, k) = Newest(ms, n)
  <2>1. l - n + 1 \in 1..(l + 1) /\ l - k \in (l - n)..l /\ l \in (l - k)..l
    BY <1>1
  <2>2. (l - n + 1) - 1 = l - n
    BY <1>1
  <2>3. SubSeq(ms, l - n + 1, l - k) \o SubSeq(ms, (l - k) + 1, l) = SubSeq(ms, l - n + 1, l)
    BY <2>1, <2>2, ConcatAdjacentSubSeq
  <2>4. QED
    BY <2>3 DEF Newest
<1>3. older \in Seq(Message)
  <2>1. \A i \in (l - n + 1)..(l - k) : ms[i] \in Message
    BY <1>1
  <2>2. l - n + 1 \in Int /\ l - k \in Int
    BY <1>1
  <2>3. QED
    BY <2>1, <2>2, SubSeqProperties
<1>4. Newest(ms, k) \in Seq(Message)
  BY <1>1, NewestType
<1> HIDE DEF older, l
<1>5. /\ count_message_tokens(older) \in Nat
      /\ count_message_tokens(Newest(ms, k)) \in Nat
  BY <1>3, <1>4, CountType
<1>6. count_message_tokens(Newest(ms, n))
          = count_message_tokens(older) + count_message_tokens(Newest(ms, k))
  BY <1>2, <1>3, <1>4, CountOfConcat
<1>7. QED
  BY <1>5, <1>6

LEMMA NewestOfAppend ==
    ASSUME NEW ms \in Seq(Message), NEW m \in Message, NEW n \in 0..Len(ms)
    PROVE  Newest(Append(ms, m), n + 1) = Append(Newest(ms, n), m)
<1> DEFINE more == Append(ms, m)
           l == Len(ms)
<1>1. /\ l \in Nat
      /\ more \in Seq(Message) /\ Len(more) = l + 1
      /\ \A i \in 1..l : more[i] = ms[i]
      /\ more[l + 1] = m
  BY LenProperties, AppendProperties
<1>2. Newest(ms, n) \in Seq(Message) /\ Len(Newest(ms, n)) = n
  BY NewestType
<1>3. Newest(more, n + 1) \in Seq(Message) /\ Len(Newest(more, n + 1)) = n + 1
  <2>1. n + 1 \in 0..Len(more)
    BY <1>1
  <2> HIDE DEF more
  <2>2. QED
    BY <1>1, <2>1, NewestType
<1>4. /\ Append(Newest(ms, n), m) \in Seq(Message)
      /\ Len(Append(Newest(ms, n), m)) = n + 1
      /\ \A i \in 1..n : Append(Newest(ms, n), m)[i] = Newest(ms, n)[i]
      /\ Append(Newest(ms, n), m)[n + 1] = m
  <2>1. Newest(ms, n) \in Seq(Message) /\ n = Len(Newest(ms, n))
    BY <1>2
  <2>2. QED
    BY <2>1, AppendProperties
<1>5. ASSUME NEW i \in 1..(n + 1)
      PROVE  Newest(more, n + 1)[i] = Append(Newest(ms, n), m)[i]
  <2>1. Newest(more, n + 1)[i] = more[l - n + i]
    <3>1. \A j \in 1..(l + 1) : more[j] \in Message
      BY <1>1, ElementOfSeq
    <3>2. /\ l - n + 1 \in Int /\ l + 1 \in Int /\ i \in 1..((l + 1) - (l - n + 1) + 1)
          /\ \A j \in (l - n + 1)..(l + 1) : more[j] \in Message
      BY <1>1, <3>1
    <3>3. SubSeq(more, l - n + 1, l + 1)[i] = more[(l - n + 1) + i - 1]
      <4> HIDE DEF more, l
      <4>1. QED
        BY <3>2, SubSeqProperties
    <3>4. Len(more) - (n + 1) + 1 = l - n + 1 /\ (l - n + 1) + i - 1 = l - n + i
      BY <1>1
    <3> HIDE DEF more, l
    <3>5. QED
      BY <1>1, <3>3, <3>4 DEF Newest
  <2>2. CASE i = n + 1
    <3>1. l - n + i = l + 1
      BY <1>1, <2>2
    <3>2. QED
      BY <1>1, <1>4, <2>1, <2>2, <3>1
  <2>3. CASE i # n + 1
    <3>1. i \in 1..n /\ l - n + i \in 1..l
      BY <1>1, <2>3
    <3>2. more[l - n + i] = ms[l - n + i]
      BY <1>1, <3>1
    <3>3. Newest(ms, n)[i] = ms[l - n + i]
      <4>1. \A j \in 1..l : ms[j] \in Message
        BY <1>1, ElementOfSeq
      <4>2. /\ l - n + 1 \in Int /\ l \in Int /\ i \in 1..(l - (l - n + 1) + 1)
            /\ \A j \in (l - n + 1)..l : ms[j] \in Message
        BY <1>1, <3>1, <4>1
      <4>3. SubSeq(ms, l - n + 1, l)[i] = ms[(l - n + 1) + i - 1]
        <5> HIDE DEF l
        <5>1. QED
          BY <4>2, SubSeqProperties
      <4>4. (l - n + 1) + i - 1 = l - n + i
        BY <1>1
      <4>5. QED
        BY <4>3, <4>4 DEF Newest
    <3>4. QED
      BY <1>4, <2>1, <3>1, <3>2, <3>3
  <2>4. QED
    BY <2>2, <2>3
<1>6. QED
  <2> HIDE DEF more, l
  <2>1. QED
    BY <1>1, <1>3, <1>4, <1>5, SeqEqual DEF more

LEMMA KeptIsDefined ==
    ASSUME NEW system \in Seq(Message), NEW rest \in Seq(Message), NEW budget
    PROVE  LET n == Kept(system, rest, budget)
           IN  /\ n \in 0..Len(rest)
               /\ n = Len(rest) \/ (n > 0 /\ ~Fits(system, rest, n + 1, budget))
               /\ \A k \in 1..(n - 1) : Fits(system, rest, k + 1, budget)
<1> DEFINE IsKept(n) ==
               /\ n = Len(rest) \/ (n > 0 /\ ~Fits(system, rest, n + 1, budget))
               /\ \A k \in 1..(n - 1) : Fits(system, rest, k + 1, budget)
<1>1. Len(rest) \in Nat
  BY LenProperties
<1>2. \E n \in 0..Len(rest) : IsKept(n)
  <2> SUFFICES ASSUME \A n \in 0..Len(rest) : ~IsKept(n)
               PROVE  FALSE
    OBVIOUS
  <2> DEFINE S == {n \in Nat : n < Len(rest) =>
                      \A k \in 1..n : Fits(system, rest, k + 1, budget)}
  <2>1. 0 \in S
    OBVIOUS
  <2>2. ASSUME NEW n \in S
        PROVE  n + 1 \in S
    <3>1. n \in Nat
      OBVIOUS
    <3>2. CASE n + 1 < Len(rest)
      <4>1. \A k \in 1..n : Fits(system, rest, k + 1, budget)
        BY <1>1, <3>1, <3>2
      <4>2. n + 1 \in 0..Len(rest) /\ n + 1 # Len(rest) /\ n + 1 > 0 /\ (n + 1) - 1 = n
        BY <1>1, <3>1, <3>2
      <4>3. Fits(system, rest, (n + 1) + 1, budget)
        BY <4>1, <4>2
      <4>4. \A k \in 1..(n + 1) : Fits(system, rest, k + 1, budget)
        BY <3>1, <4>1, <4>3
      <4>5. QED
        BY <3>1, <4>4
    <3>3. CASE ~(n + 1 < Len(rest))
      BY <3>1, <3>3
    <3>4. QED
      BY <3>2, <3>3
  <2>3. S = Nat
    <3> HIDE DEF S
    <3>1. QED
      BY <2>1, <2>2, Induction, S \subseteq Nat DEF S
  <2>4. IsKept(Len(rest))
    <3>1. CASE Len(rest) = 0
      BY <3>1
    <3>2. CASE Len(rest) # 0
      <4>1. Len(rest) - 1 \in Nat /\ Len(rest) - 1 < Len(rest)
        BY <1>1, <3>2
      <4>2. \A k \in 1..(Len(rest) - 1) : Fits(system, rest, k + 1, budget)
        <5>1. Len(rest) - 1 \in S
          <6> HIDE DEF S
          <6>1. QED
            BY <2>3, <4>1
        <5>2. QED
          BY <4>1, <5>1
      <4>3. QED
        BY <4>2
    <3>3. QED
      BY <3>1, <3>2
  <2>5. QED
    BY <1>1, <2>4
<1> DEFINE n == CHOOSE k \in 0..Len(rest) : IsKept(k)
<1>3. n \in 0..Len(rest) /\ IsKept(n)
  <2> HIDE DEF IsKept
  <2>1. QED
    BY <1>2
<1>4. Kept(system, rest, budget) = n
  BY DEF Kept
<1>5. QED
  <2> HIDE DEF n
  <2>1. QED
    BY <1>3, <1>4

-----------------------------------------------------------------------------
(***************************************************************************)
(* The guard.                                                              *)
(***************************************************************************)

\* What apply_context_budget makes of a conversation that is over budget.
Trimmed(ms, budget) ==
    SystemOf(ms) \o Newest(RestOf(ms), Kept(SystemOf(ms), RestOf(ms), budget))

LEMMA TrimmedType ==
    ASSUME NEW ms \in Seq(Message), NEW budget
    PROVE  LET n == Kept(SystemOf(ms), RestOf(ms), budget)
           IN  /\ Newest(RestOf(ms), n) \in Seq(Message) /\ Len(Newest(RestOf(ms), n)) = n
               /\ Trimmed(ms, budget) \in Seq(Message)
               /\ Len(Trimmed(ms, budget)) = Len(SystemOf(ms)) + n
               /\ Len(Trimmed(ms, budget)) <= Len(ms)
<1> DEFINE n == Kept(SystemOf(ms), RestOf(ms), budget)
           tail == Newest(RestOf(ms), n)
<1>1. /\ SystemOf(ms) \in Seq(Message) /\ RestOf(ms) \in Seq(Message)
      /\ Len(SystemOf(ms)) + Len(RestOf(ms)) = Len(ms)
  BY Parts
<1>2. n \in 0..Len(RestOf(ms))
  BY <1>1, KeptIsDefined
<1> HIDE DEF n
<1>3. tail \in Seq(Message) /\ Len(tail) = n
  BY <1>1, <1>2, NewestType
<1>4. Len(SystemOf(ms)) \in Nat /\ Len(RestOf(ms)) \in Nat
  BY <1>1, LenProperties
<1>5. Trimmed(ms, budget) = SystemOf(ms) \o tail
  BY DEF Trimmed, n
<1> HIDE DEF tail
<1>6. /\ Trimmed(ms, budget) \in Seq(Message)
      /\ Len(Trimmed(ms, budget)) = Len(SystemOf(ms)) + n
  BY <1>1, <1>3, <1>5, ConcatProperties
<1>7. Len(SystemOf(ms)) + n <= Len(ms)
  BY <1>1, <1>2, <1>4
<1>8. QED
  BY <1>3, <1>6, <1>7 DEF n, tail

\* What is sent is a conversation no longer than what came, counted anew; what is within
\* the budget is left as it is, and it counts as trimmed if something was left out.
LEMMA Guard ==
    ASSUME NEW ms \in Seq(Message), NEW num_ctx \in Nat, NEW headroom \in Nat
    PROVE  LET guarded == apply_context_budget(ms, num_ctx, headroom)
               budget  == Budget(num_ctx, headroom)
           IN  /\ guarded.messages = IF count_message_tokens(ms) <= budget
                                     THEN ms ELSE Trimmed(ms, budget)
               /\ guarded.messages \in Seq(Message)
               /\ Len(guarded.messages) <= Len(ms)
               /\ guarded.tokens = count_message_tokens(guarded.messages)
               /\ guarded.tokens \in Nat
               /\ guarded.trimmed \in BOOLEAN
<1> DEFINE guarded == apply_context_budget(ms, num_ctx, headroom)
           budget  == Budget(num_ctx, headroom)
<1>1. guarded = IF count_message_tokens(ms) <= budget
                THEN [messages |-> ms, tokens |-> count_message_tokens(ms), trimmed |-> FALSE]
                ELSE [messages |-> Trimmed(ms, budget),
                      tokens   |-> count_message_tokens(Trimmed(ms, budget)),
                      trimmed  |-> Len(Trimmed(ms, budget)) < Len(ms)]
  BY DEF apply_context_budget, Trimmed
<1> HIDE DEF budget, guarded
<1>2. Trimmed(ms, budget) \in Seq(Message) /\ Len(Trimmed(ms, budget)) <= Len(ms)
  BY TrimmedType
<1>3. Len(ms) <= Len(ms)
  BY LenProperties
<1>4. \A s \in Seq(Message) : count_message_tokens(s) \in Nat
  BY CountType
<1>5. guarded.trimmed \in BOOLEAN
  <2>1. (Len(Trimmed(ms, budget)) < Len(ms)) \in BOOLEAN
    OBVIOUS
  <2>2. guarded.trimmed \in {FALSE, Len(Trimmed(ms, budget)) < Len(ms)}
    BY <1>1, Zenon
  <2>3. QED
    BY <2>1, <2>2
<1>6. /\ guarded.messages = IF count_message_tokens(ms) <= budget
                            THEN ms ELSE Trimmed(ms, budget)
      /\ guarded.messages \in Seq(Message)
      /\ Len(guarded.messages) <= Len(ms)
      /\ guarded.tokens = count_message_tokens(guarded.messages)
      /\ guarded.tokens \in Nat
  BY <1>1, <1>2, <1>3, <1>4
<1>7. QED
  BY <1>5, <1>6, Zenon DEF budget, guarded

LEMMA SuffixesAreNewest ==
    ASSUME NEW ms \in Seq(Message)
    PROVE  Suffixes(ms) = {Newest(ms, n) : n \in 0..Len(ms)}
<1> DEFINE l == Len(ms)
<1>1. l \in Nat
  BY LenProperties
<1>2. Newest(ms, 0) = <<>>
  <2>1. l + 1 \in Int /\ l \in Int /\ l < l + 1 /\ l - 0 + 1 = l + 1
    BY <1>1
  <2>2. SubSeq(ms, l + 1, l) = <<>>
    <3> HIDE DEF l
    <3>1. QED
      BY <2>1, SubSeqEmpty
  <2>3. QED
    BY <2>1, <2>2 DEF Newest
<1>3. Suffixes(ms) = {SubSeq(ms, i, l) : i \in 1..l} \cup {<<>>}
  BY DEF Suffixes
<1>4. ASSUME NEW i \in 1..l
      PROVE  l - i + 1 \in 0..l /\ SubSeq(ms, i, l) = Newest(ms, l - i + 1)
  <2>1. l - i + 1 \in 0..l /\ l - (l - i + 1) + 1 = i
    BY <1>1
  <2>2. QED
    BY <2>1 DEF Newest
<1>5. ASSUME NEW n \in 0..l, n # 0
      PROVE  l - n + 1 \in 1..l /\ Newest(ms, n) = SubSeq(ms, l - n + 1, l)
  BY <1>1, <1>5 DEF Newest
<1>6. QED
  <2> HIDE DEF l
  <2>1. ASSUME NEW suffix \in Suffixes(ms)
        PROVE  suffix \in {Newest(ms, n) : n \in 0..l}
    <3>1. CASE suffix = <<>>
      BY <1>1, <1>2, <3>1
    <3>2. CASE \E i \in 1..l : suffix = SubSeq(ms, i, l)
      <4>1. PICK i \in 1..l : suffix = SubSeq(ms, i, l)
        BY <3>2
      <4>2. QED
        BY <1>4, <4>1
    <3>3. QED
      BY <1>3, <3>1, <3>2
  <2>2. {Newest(ms, n) : n \in 0..l} \subseteq Suffixes(ms)
    BY <1>1, <1>2, <1>3, <1>5
  <2>3. QED
    BY <2>1, <2>2 DEF l

LEMMA FitsIsWithin ==
    ASSUME NEW ms \in Seq(Message), NEW n \in 0..Len(RestOf(ms)), NEW budget
    PROVE  Fits(SystemOf(ms), RestOf(ms), n, budget)
               <=> count_message_tokens(SystemOf(ms) \o Newest(RestOf(ms), n)) <= budget
<1>1. SystemOf(ms) \in Seq(Message) /\ Newest(RestOf(ms), n) \in Seq(Message)
  BY Parts, NewestType
<1>2. QED
  BY <1>1, CountOfConcat DEF Fits

\* A conversation of one message, or of none, is its system message or the rest of it.
LEMMA PartsOfShort ==
    ASSUME NEW ms \in Seq(Message), Len(ms) <= 1
    PROVE  SystemOf(ms) \o RestOf(ms) = ms
<1>1. CASE ms = <<>>
  <2>1. SystemOf(<<>>) = <<>> /\ RestOf(<<>>) = <<>>
    BY ThoseOfNothing DEF SystemOf, RestOf
  <2>2. QED
    BY <1>1, <2>1
<1>2. CASE ms # <<>>
  <2>1. PICK t \in Seq(Message), m \in Message : ms = Append(t, m)
    BY <1>2, SequenceEmptyOrAppend
  <2>2. t = <<>>
    <3>1. Len(t) + 1 = Len(ms) /\ Len(t) \in Nat
      BY <2>1, AppendProperties, LenProperties
    <3>2. QED
      BY <3>1, EmptySeq
  <2>3. \/ SystemOf(ms) = <<m>> /\ RestOf(ms) = <<>>
        \/ SystemOf(ms) = <<>> /\ RestOf(ms) = <<m>>
    <3>1. SystemOf(<<>>) = <<>> /\ RestOf(<<>>) = <<>> /\ <<>> \in Seq(Message)
      BY ThoseOfNothing, EmptySeq DEF SystemOf, RestOf
    <3>2. /\ SystemOf(Append(<<>>, m)) = AppendIf(SystemOf(<<>>), m, TRUE)
          /\ RestOf(Append(<<>>, m)) = AppendIf(RestOf(<<>>), m, FALSE)
      BY <3>1, ThoseOfAppend DEF SystemOf, RestOf
    <3>3. Append(<<>>, m) = <<m>>
      OBVIOUS
    <3>4. QED
      BY <2>1, <2>2, <3>1, <3>2, <3>3 DEF AppendIf
  <2>4. ms = <<m>> /\ <<m>> \o <<>> = <<m>> /\ <<>> \o <<m>> = <<m>>
    <3>1. ms = <<m>> /\ <<m>> \in Seq(Message)
      BY <2>1, <2>2
    <3>2. QED
      BY <3>1, ConcatEmptySeq
  <2>5. QED
    BY <2>3, <2>4, Zenon
<1>3. QED
  BY <1>1, <1>2

\* A conversation that does not fit is cut down to its system messages, in order, before the
\* longest tail of the rest that fits with them; if none does, before the newest message
\* alone (apply_context_budget).
THEOREM LongestTailIsKept ==
    ASSUME NEW ms \in Seq(Message), NEW num_ctx \in Nat, NEW headroom \in Nat,
           NEW sent, sent = apply_context_budget(ms, num_ctx, headroom).messages
    PROVE  \/ count_message_tokens(ms) <= num_ctx - headroom /\ sent = ms
           \/ /\ ~(count_message_tokens(ms) <= num_ctx - headroom)
              /\ \E tail \in Suffixes(RestOf(ms)) :
                     /\ sent = SystemOf(ms) \o tail
                     /\ count_message_tokens(sent) <= num_ctx - headroom \/ Len(tail) <= 1
                     /\ tail = <<>> => RestOf(ms) = <<>>
                     /\ \A longer \in Suffixes(RestOf(ms)) :
                            Len(longer) > Len(tail) /\ longer # <<>> =>
                                /\ Len(longer) > 1
                                /\ ~(count_message_tokens(SystemOf(ms) \o longer)
                                         <= num_ctx - headroom)
<1> DEFINE budget == Budget(num_ctx, headroom)
           system == SystemOf(ms)
           rest == RestOf(ms)
           l == Len(rest)
<1>1. /\ budget \in Nat
      /\ \/ budget = num_ctx - headroom
         \/ budget = 1 /\ num_ctx - headroom < 1
  BY DEF Budget, Larger
<1>2. /\ system \in Seq(Message) /\ rest \in Seq(Message) /\ l \in Nat
      /\ l <= Len(ms)
  <2>1. /\ system \in Seq(Message) /\ rest \in Seq(Message)
        /\ Len(system) + Len(rest) = Len(ms)
    BY Parts
  <2>2. Len(system) \in Nat /\ Len(rest) \in Nat
    BY <2>1, LenProperties
  <2>3. QED
    BY <2>1, <2>2
<1>3. count_message_tokens(ms) \in Nat /\ num_ctx - headroom \in Int
  BY CountType
<1>4. sent = IF count_message_tokens(ms) <= budget THEN ms ELSE Trimmed(ms, budget)
  BY Guard
<1>5. Suffixes(rest) = {Newest(rest, k) : k \in 0..l}
  BY <1>2, SuffixesAreNewest
<1>6. CASE count_message_tokens(ms) <= budget /\ count_message_tokens(ms) <= num_ctx - headroom
  BY <1>4, <1>6
<1>7. CASE count_message_tokens(ms) <= budget /\ ~(count_message_tokens(ms) <= num_ctx - headroom)
  <2>1. Len(ms) <= 1
    <3>1. Len(ms) <= count_message_tokens(ms) /\ Len(ms) \in Nat
      BY CountBoundsLength, LenProperties
    <3>2. QED
      BY <1>1, <1>3, <1>7, <3>1
  <2>2. sent = system \o rest
    BY <1>4, <1>7, <2>1, PartsOfShort
  <2>3. rest \in Suffixes(rest)
    <3>1. Newest(rest, l) = SubSeq(rest, 1, l)
      BY <1>2 DEF Newest
    <3>2. Newest(rest, l) = rest
      BY <1>2, <3>1, SubSeqFull
    <3>3. l \in 0..l
      BY <1>2
    <3> HIDE DEF rest, l
    <3>4. QED
      BY <1>5, <3>2, <3>3
  <2>4. \A longer \in Suffixes(rest) : ~(Len(longer) > l)
    <3>1. \A k \in 0..l : Len(Newest(rest, k)) = k
      BY <1>2, NewestType
    <3>2. QED
      BY <1>2, <1>5, <3>1
  <2>5. l <= 1
    BY <1>2, <2>1, LenProperties
  <2>6. QED
    BY <1>7, <2>2, <2>3, <2>4, <2>5
<1>8. CASE ~(count_message_tokens(ms) <= budget)
  <2> DEFINE n == Kept(system, rest, budget)
             tail == Newest(rest, n)
  <2>1. /\ n \in 0..l
        /\ n = l \/ (n > 0 /\ ~Fits(system, rest, n + 1, budget))
        /\ \A k \in 1..(n - 1) : Fits(system, rest, k + 1, budget)
    BY <1>2, KeptIsDefined
  <2> HIDE DEF n
  <2>2. tail \in Suffixes(rest) /\ Len(tail) = n
    BY <1>2, <1>5, <2>1, NewestType
  <2>3. sent = system \o tail
    BY <1>4, <1>8 DEF Trimmed, n
  <2>4. ~(count_message_tokens(ms) <= num_ctx - headroom)
    BY <1>1, <1>3, <1>8
  <2>5. ASSUME n > 1
        PROVE  count_message_tokens(sent) <= num_ctx - headroom
    <3>1. Fits(system, rest, n, budget)
      <4>1. n - 1 \in 1..(n - 1) /\ (n - 1) + 1 = n
        BY <1>2, <2>1, <2>5
      <4>2. QED
        BY <2>1, <4>1
    <3>2. count_message_tokens(sent) <= budget
      BY <2>1, <2>3, <3>1, FitsIsWithin
    <3>3. sent \in Seq(Message) /\ Len(sent) = Len(system) + n
      <4>1. system \in Seq(Message) /\ tail \in Seq(Message) /\ Len(tail) = n
        BY <1>2, <2>1, NewestType
      <4> HIDE DEF tail, system
      <4>2. QED
        BY <2>3, <4>1, ConcatProperties
    <3>4. count_message_tokens(sent) >= 2 /\ count_message_tokens(sent) \in Nat
      <4>1. Len(sent) <= count_message_tokens(sent) /\ count_message_tokens(sent) \in Nat
        BY <3>3, CountBoundsLength, CountType
      <4>2. Len(system) \in Nat /\ n \in Nat
        BY <1>2, <2>1, LenProperties
      <4>3. QED
        BY <2>5, <3>3, <4>1, <4>2
    <3>5. QED
      BY <1>1, <3>2, <3>4
  <2>6. ASSUME tail = <<>>
        PROVE  rest = <<>>
    <3>1. n = 0
      BY <2>2, <2>6, EmptySeq
    <3>2. l = 0
      BY <2>1, <3>1
    <3>3. QED
      BY <1>2, <3>2, EmptySeq
  <2>7. ASSUME NEW longer \in Suffixes(rest), Len(longer) > n
        PROVE  /\ Len(longer) > 1
               /\ ~(count_message_tokens(system \o longer) <= num_ctx - headroom)
    <3>1. PICK k \in 0..l : longer = Newest(rest, k)
      BY <1>5
    <3>2. Len(longer) = k /\ k > n
      BY <1>2, <2>7, <3>1, NewestType
    <3>3. n > 0 /\ ~Fits(system, rest, n + 1, budget) /\ n + 1 \in 0..k /\ k > 1
      BY <1>2, <2>1, <3>2
    <3>4. ~Fits(system, rest, k, budget)
      <4>1. count_message_tokens(Newest(rest, n + 1)) <= count_message_tokens(Newest(rest, k))
        BY <1>2, <3>3, NewestCost
      <4>2. n + 1 \in 0..l
        BY <1>2, <3>3
      <4>3. /\ count_message_tokens(Newest(rest, n + 1)) \in Nat
            /\ count_message_tokens(Newest(rest, k)) \in Nat
            /\ count_message_tokens(system) \in Nat
        BY <1>2, <4>2, NewestType, CountType
      <4>4. QED
        BY <1>1, <3>3, <4>1, <4>3 DEF Fits
    <3>5. ~(count_message_tokens(system \o longer) <= budget)
      BY <3>1, <3>4, FitsIsWithin
    <3>6. count_message_tokens(system \o longer) \in Nat
      <4>1. system \in Seq(Message) /\ longer \in Seq(Message)
        BY <1>2, <3>1, NewestType
      <4> HIDE DEF system
      <4>2. system \o longer \in Seq(Message)
        BY <4>1, ConcatProperties
      <4>3. QED
        BY <4>2, CountType
    <3>7. QED
      BY <1>1, <3>2, <3>3, <3>5, <3>6
  <2>8. count_message_tokens(sent) <= num_ctx - headroom \/ Len(tail) <= 1
    BY <2>1, <2>2, <2>5
  <2> HIDE DEF tail
  <2>9. QED
    BY <2>2, <2>3, <2>4, <2>6, <2>7, <2>8
<1>9. QED
  BY <1>6, <1>7, <1>8

\* How many messages of ms the guard leaves out.
LeftOut(ms, num_ctx, headroom) ==
    Len(ms) - Len(apply_context_budget(ms, num_ctx, headroom).messages)

LEMMA LeftOutType ==
    ASSUME NEW ms \in Seq(Message), NEW num_ctx \in Nat, NEW headroom \in Nat
    PROVE  /\ LeftOut(ms, num_ctx, headroom) \in Nat
           /\ LeftOut(ms, num_ctx, headroom) <= Len(ms)
<1> DEFINE sent == apply_context_budget(ms, num_ctx, headroom).messages
<1>1. sent \in Seq(Message) /\ Len(sent) <= Len(ms)
  BY Guard
<1> HIDE DEF sent
<1>2. Len(sent) \in Nat /\ Len(ms) \in Nat
  BY <1>1, LenProperties
<1>3. QED
  BY <1>1, <1>2 DEF LeftOut, sent

\* Where nothing fits, all of the rest but what is kept is left out.
LEMMA LeftOutOfTrimmed ==
    ASSUME NEW ms \in Seq(Message), NEW num_ctx \in Nat, NEW headroom \in Nat,
           ~(count_message_tokens(ms) <= Budget(num_ctx, headroom))
    PROVE  LeftOut(ms, num_ctx, headroom)
               = Len(RestOf(ms)) - Kept(SystemOf(ms), RestOf(ms), Budget(num_ctx, headroom))
<1> DEFINE budget == Budget(num_ctx, headroom)
           n == Kept(SystemOf(ms), RestOf(ms), budget)
<1>1. apply_context_budget(ms, num_ctx, headroom).messages = Trimmed(ms, budget)
  BY Guard
<1>2. Len(Trimmed(ms, budget)) = Len(SystemOf(ms)) + n
  BY TrimmedType
<1>3. /\ Len(SystemOf(ms)) + Len(RestOf(ms)) = Len(ms)
      /\ SystemOf(ms) \in Seq(Message) /\ RestOf(ms) \in Seq(Message)
  BY Parts
<1>4. Len(SystemOf(ms)) \in Nat /\ Len(RestOf(ms)) \in Nat /\ n \in 0..Len(RestOf(ms))
  BY <1>3, LenProperties, KeptIsDefined
<1> HIDE DEF n, budget
<1>5. QED
  BY <1>1, <1>2, <1>3, <1>4 DEF LeftOut, n, budget

\* One more message, and no less is left out.
LEMMA OneMoreMessage ==
    ASSUME NEW ms \in Seq(Message), NEW m \in Message,
           NEW num_ctx \in Nat, NEW headroom \in Nat
    PROVE  LeftOut(ms, num_ctx, headroom) <= LeftOut(Append(ms, m), num_ctx, headroom)
<1> DEFINE more == Append(ms, m)
           budget == Budget(num_ctx, headroom)
           rest == RestOf(ms)
           n == Kept(SystemOf(ms), rest, budget)
           k == Kept(SystemOf(more), RestOf(more), budget)
<1>1. /\ more \in Seq(Message)
      /\ count_message_tokens(more) = count_message_tokens(ms) + Cost(m)
      /\ \/ SystemOf(more) = Append(SystemOf(ms), m) /\ RestOf(more) = rest
         \/ SystemOf(more) = SystemOf(ms) /\ RestOf(more) = Append(rest, m)
  BY AppendProperties, CountOfAppend, ThoseOfAppend DEF SystemOf, RestOf, AppendIf
<1>2. Cost(m) \in Nat /\ count_message_tokens(ms) \in Nat /\ budget \in Nat
  BY CostType, CountType DEF Budget, Larger
<1>3. /\ LeftOut(ms, num_ctx, headroom) \in Nat
      /\ LeftOut(more, num_ctx, headroom) \in Nat
  <2> HIDE DEF more
  <2>1. QED
    BY <1>1, LeftOutType
<1>4. CASE count_message_tokens(ms) <= budget
  <2>1. LeftOut(ms, num_ctx, headroom) = 0
    <3>1. apply_context_budget(ms, num_ctx, headroom).messages = ms
      BY <1>4, Guard
    <3>2. Len(ms) \in Nat
      BY LenProperties
    <3>3. QED
      BY <3>1, <3>2 DEF LeftOut
  <2>2. QED
    BY <1>3, <2>1
<1>5. CASE ~(count_message_tokens(ms) <= budget)
  <2>1. LeftOut(ms, num_ctx, headroom) = Len(rest) - n
    BY <1>5, LeftOutOfTrimmed
  <2>2. LeftOut(more, num_ctx, headroom) = Len(RestOf(more)) - k
    <3>1. ~(count_message_tokens(more) <= budget)
      BY <1>1, <1>2, <1>5
    <3> HIDE DEF more
    <3>2. QED
      BY <1>1, <3>1, LeftOutOfTrimmed
  <2>3. /\ SystemOf(ms) \in Seq(Message) /\ rest \in Seq(Message)
        /\ SystemOf(more) \in Seq(Message) /\ RestOf(more) \in Seq(Message)
    BY <1>1, Parts
  <2>4. /\ Len(rest) \in Nat /\ n \in 0..Len(rest)
        /\ n = Len(rest) \/ (n > 0 /\ ~Fits(SystemOf(ms), rest, n + 1, budget))
    BY <2>3, KeptIsDefined, LenProperties
  <2>5. /\ Len(RestOf(more)) \in Nat /\ k \in 0..Len(RestOf(more))
        /\ \A j \in 1..(k - 1) : Fits(SystemOf(more), RestOf(more), j + 1, budget)
    BY <2>3, KeptIsDefined, LenProperties
  <2> HIDE DEF n, k, more, rest, budget
  <2>6. CASE SystemOf(more) = Append(SystemOf(ms), m) /\ RestOf(more) = rest
    <3>1. k <= n
      <4> SUFFICES ASSUME k > n
                   PROVE  FALSE
        BY <2>4, <2>5
      <4>1. n # Len(rest)
        BY <2>4, <2>5, <2>6
      <4>2. n \in 1..(k - 1) /\ n + 1 \in 0..Len(rest)
        BY <2>4, <2>5, <2>6, <4>1
      <4>3. Fits(Append(SystemOf(ms), m), rest, n + 1, budget)
        BY <2>5, <2>6, <4>2
      <4>4. count_message_tokens(Append(SystemOf(ms), m))
                = count_message_tokens(SystemOf(ms)) + Cost(m)
        BY <2>3, CountOfAppend
      <4>5. /\ count_message_tokens(SystemOf(ms)) \in Nat
            /\ count_message_tokens(Newest(rest, n + 1)) \in Nat
        BY <2>3, <4>2, NewestType, CountType
      <4>6. Fits(SystemOf(ms), rest, n + 1, budget)
        BY <1>2, <4>3, <4>4, <4>5 DEF Fits
      <4>7. QED
        BY <2>4, <4>1, <4>6
    <3>2. QED
      BY <2>1, <2>2, <2>4, <2>5, <2>6, <3>1 DEF more
  <2>7. CASE SystemOf(more) = SystemOf(ms) /\ RestOf(more) = Append(rest, m)
    <3>1. Len(RestOf(more)) = Len(rest) + 1
      BY <2>3, <2>7, AppendProperties
    <3>2. k <= n + 1
      <4> SUFFICES ASSUME k > n + 1
                   PROVE  FALSE
        BY <2>4, <2>5
      <4>1. n # Len(rest) /\ n + 1 \in 0..Len(rest) /\ n + 1 \in 1..(k - 1)
        BY <2>4, <2>5, <3>1
      <4>2. Fits(SystemOf(ms), Append(rest, m), (n + 1) + 1, budget)
        BY <2>5, <2>7, <4>1
      <4>3. Newest(Append(rest, m), (n + 1) + 1) = Append(Newest(rest, n + 1), m)
        BY <2>3, <4>1, NewestOfAppend
      <4>4. /\ Newest(rest, n + 1) \in Seq(Message)
            /\ count_message_tokens(Append(Newest(rest, n + 1), m))
                   = count_message_tokens(Newest(rest, n + 1)) + Cost(m)
        BY <2>3, <4>1, NewestType, CountOfAppend
      <4>5. /\ count_message_tokens(SystemOf(ms)) \in Nat
            /\ count_message_tokens(Newest(rest, n + 1)) \in Nat
        BY <2>3, <4>4, CountType
      <4>6. count_message_tokens(SystemOf(ms))
                + count_message_tokens(Append(Newest(rest, n + 1), m)) <= budget
        BY <4>2, <4>3 DEF Fits
      <4>7. Fits(SystemOf(ms), rest, n + 1, budget)
        BY <1>2, <4>4, <4>5, <4>6 DEF Fits
      <4>8. QED
        BY <2>4, <4>1, <4>7
    <3>3. QED
      BY <2>1, <2>2, <2>4, <2>5, <3>1, <3>2 DEF more
  <2>8. QED
    BY <1>1, <2>6, <2>7 DEF more
<1>6. QED
  BY <1>4, <1>5

\* However a conversation goes on, what the guard has left out of it stays out: no less is
\* left out of what begins with it (apply_context_budget).
THEOREM WhatIsLeftOutStaysOut ==
    ASSUME NEW s \in Seq(Message), NEW t \in Seq(Message),
           NEW num_ctx \in Nat, NEW headroom \in Nat
    PROVE  LeftOut(s, num_ctx, headroom) <= LeftOut(s \o t, num_ctx, headroom)
<1> DEFINE Out(u) == LeftOut(u, num_ctx, headroom)
           S == {u \in Seq(Message) : Out(s) <= Out(s \o u)}
<1>1. \A u \in Seq(Message) : Out(u) \in Nat
  BY LeftOutType
<1>2. <<>> \in S
  <2>1. <<>> \in Seq(Message) /\ s \o <<>> = s
    BY EmptySeq, ConcatEmptySeq
  <2> HIDE DEF Out
  <2>2. QED
    BY <1>1, <2>1
<1>3. ASSUME NEW u \in S, NEW m \in Message
      PROVE  Append(u, m) \in S
  <2>1. /\ u \in Seq(Message) /\ Out(s) <= Out(s \o u)
        /\ s \o u \in Seq(Message) /\ Append(u, m) \in Seq(Message)
        /\ s \o Append(u, m) = Append(s \o u, m) /\ Append(s \o u, m) \in Seq(Message)
    OBVIOUS
  <2>2. Out(s \o u) <= Out(Append(s \o u, m))
    BY <2>1, OneMoreMessage
  <2>3. Out(s) <= Out(s \o Append(u, m))
    <3>1. Out(s) \in Nat /\ Out(s \o u) \in Nat /\ Out(Append(s \o u, m)) \in Nat
      BY <1>1, <2>1
    <3>2. Out(s \o Append(u, m)) = Out(Append(s \o u, m))
      BY <2>1
    <3> HIDE DEF Out
    <3>3. QED
      BY <2>1, <2>2, <3>1, <3>2
  <2>4. QED
    BY <2>1, <2>3
<1>4. S = Seq(Message)
  <2> HIDE DEF S
  <2>1. QED
    BY <1>2, <1>3, SequenceInduction, S \subseteq Seq(Message) DEF S
<1>5. QED
  BY <1>4
==============================================================================
