----------------------------- MODULE WindowProofs -----------------------------
(***************************************************************************)
(* What the arithmetic of Window.tla guarantees for every ceiling,         *)
(* headroom, context length, number of slots and tolerance.  Conversation  *)
(* checks the same of whole conversations, on a small instance.            *)
(***************************************************************************)
EXTENDS Window, TLAPS

LEMMA Divides ==
    ASSUME NEW n \in Nat, NEW k \in Nat \ {0}, NEW m \in Nat, n * k <= m
    PROVE  n <= m \div k
<1>1. m = k * (m \div k) + (m % k) /\ m % k \in 0..(k - 1) /\ m \div k \in Int
  BY Z3
<1>2. QED
  BY <1>1, Z3

\* The window is a positive number, below the length and the ceiling by the headroom if it
\* is above the floor.
LEMMA Derived ==
    ASSUME NEW length \in Nat
    PROVE  /\ derive_num_ctx(length) \in Nat \ {0}
           /\ derive_num_ctx(length) > 1 => derive_num_ctx(length) + Headroom <= Ceiling
           /\ length > 0 /\ derive_num_ctx(length) > 1 =>
                  derive_num_ctx(length) + Headroom <= length
  BY WindowAssumption DEF WindowAssumption, derive_num_ctx, Larger, Smaller

\* The window of a slot is no smaller than the window that was derived, as long as the
\* backend has no more slots than the proxy is told (_inject_options).
THEOREM WindowIsDelivered ==
    ASSUME NEW length \in Nat, NEW num_parallel \in Nat, NEW slots \in Nat \ {0},
           slots <= Larger(num_parallel, 1)
    PROVE  derive_num_ctx(length) <= inject_options(derive_num_ctx(length), num_parallel) \div slots
<1> DEFINE n == derive_num_ctx(length)
           p == Larger(num_parallel, 1)
<1>1. n \in Nat /\ p \in Nat
  BY Derived DEF Larger
<1>2. n * slots <= n * p /\ n * p \in Nat
  <2>1. \A a, b, c \in Nat : b <= c => a * b <= a * c /\ a * c \in Nat
    BY Z3
  <2>2. QED
    BY <1>1, <2>1
<1>3. n <= (n * p) \div slots
  <2> HIDE DEF n, p
  <2>1. QED
    BY <1>1, <1>2, Divides
<1>4. QED
  BY <1>3 DEF inject_options

\* A prompt that the guard lets through as fitting is evaluated whole, if the backend counts
\* it longer than the proxy by no more than the headroom (apply_context_budget, chat).
THEOREM FittingPromptFits ==
    ASSUME NEW length \in Nat, NEW num_parallel \in Nat, NEW slots \in Nat \ {0},
           slots <= Larger(num_parallel, 1),
           NEW sent \in Nat, NEW actual \in Nat,
           derive_num_ctx(length) > Headroom,
           sent <= Budget(derive_num_ctx(length), Headroom),
           actual <= sent + Headroom
    PROVE  actual <= inject_options(derive_num_ctx(length), num_parallel) \div slots
<1>1. actual <= derive_num_ctx(length)
  BY Derived, WindowAssumption DEF WindowAssumption, Budget, Larger
<1>2. derive_num_ctx(length) <= inject_options(derive_num_ctx(length), num_parallel) \div slots
  BY WindowIsDelivered
<1>3. inject_options(derive_num_ctx(length), num_parallel) \div slots \in Int
  <2>1. inject_options(derive_num_ctx(length), num_parallel) \in Int
    BY Derived DEF inject_options, Larger
  <2>2. QED
    BY <2>1
<1>4. QED
  BY <1>1, <1>2, <1>3, Derived

\* The guard leaves the headroom free twice over: derive_num_ctx has taken it off already
\* (apply_context_budget, num_ctx_headroom).
THEOREM HeadroomIsLeftTwice ==
    ASSUME NEW length \in Nat, derive_num_ctx(length) > Headroom + 1
    PROVE  Budget(derive_num_ctx(length), Headroom) + 2 * Headroom <= Ceiling
  BY Derived, WindowAssumption DEF WindowAssumption, Budget, Larger

\* A backend that reports what it evaluated, all of the prompt or what its window holds, is
\* accused only if it cut the prompt or counts it materially shorter than the proxy does
\* (detect_context_truncation).
THEOREM AlarmsAreTrue ==
    ASSUME NEW sent \in Nat, NEW actual \in Nat, NEW window \in Nat, NEW target \in Nat,
           NEW tolerance \in Nat,
           detect_context_truncation(sent, Smaller(actual, window), target, tolerance)
    PROVE  actual > window \/ Short(actual, sent, tolerance)
<1> SUFFICES ASSUME actual <= window
             PROVE  Short(actual, sent, tolerance)
  OBVIOUS
<1>1. Smaller(actual, window) = actual
  BY DEF Smaller
<1>2. QED
  BY <1>1 DEF detect_context_truncation

\* A window materially smaller than the one asked for and than the prompt is detected
\* whenever it cuts the prompt (detect_context_truncation).
THEOREM CutsAreDetected ==
    ASSUME NEW sent \in Nat, NEW actual \in Nat, NEW window \in Nat \ {0},
           NEW target \in Nat \ {0}, NEW tolerance \in Nat,
           actual > window,
           Short(window, target, tolerance),
           Short(window, sent, tolerance)
    PROVE  detect_context_truncation(sent, Smaller(actual, window), target, tolerance)
<1>1. Smaller(actual, window) = window
  BY DEF Smaller
<1>2. QED
  BY <1>1 DEF detect_context_truncation
==============================================================================
