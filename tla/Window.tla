-------------------------------- MODULE Window --------------------------------
(***************************************************************************)
(* The arithmetic of a context window, from the length a tag reports to    *)
(* what the backend is asked for, in tokens: derive_num_ctx of             *)
(* app/models.py, the budget of app/analysis.py, _inject_options of        *)
(* app/upstream.py and the check of what was delivered.                    *)
(***************************************************************************)
EXTENDS Integers

CONSTANTS
    Ceiling,   \* num_ctx_ceiling
    Headroom   \* num_ctx_headroom

ASSUME WindowAssumption ==
    /\ Ceiling \in Nat
    /\ Headroom \in Nat

Smaller(m, n) == IF m <= n THEN m ELSE n
Larger(m, n) == IF m <= n THEN n ELSE m

\* (Mutant: without the floor.)
derive_num_ctx_unfloored(context_length) ==
    (IF context_length = 0 THEN Ceiling ELSE Smaller(context_length, Ceiling)) - Headroom

\* (Mutant: what the tag reports is not looked at.)
derive_num_ctx_by_ceiling(context_length) == Larger(Ceiling - Headroom, 1)

\* The safe window of a tag that reports context_length, 0 where it reports none.
derive_num_ctx(context_length) ==
    LET base == IF context_length = 0 THEN Ceiling ELSE Smaller(context_length, Ceiling)
    IN  Larger(base - Headroom, 1)

\* What a prompt may take of the window.
Budget(num_ctx, headroom) == Larger(num_ctx - headroom, 1)

\* (Mutant: the window is not scaled.)
inject_unscaled(num_ctx, num_parallel) == num_ctx

\* options.num_ctx for a backend that is configured to serve num_parallel slots.
inject_options(num_ctx, num_parallel) == num_ctx * Larger(num_parallel, 1)

\* n is materially short of m: below it by more than tolerance percent.
Short(n, m, tolerance) == 100 * n < m * (100 - Larger(0, Smaller(tolerance, 100)))

\* (Mutant: a prompt that did not fill its window is an alarm.)
detect_any_short(sent, evaluated, target, tolerance) ==
    /\ evaluated > 0 /\ target > 0
    /\ Short(evaluated, target, tolerance) \/ Short(evaluated, sent, tolerance)

\* detect_context_truncation: the backend reports that it evaluated materially less than
\* both the window and the prompt.
detect_context_truncation(sent, evaluated, target, tolerance) ==
    /\ evaluated > 0 /\ target > 0
    /\ Short(evaluated, target, tolerance)
    /\ Short(evaluated, sent, tolerance)
==============================================================================
