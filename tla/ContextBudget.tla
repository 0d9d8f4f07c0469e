---------------------------- MODULE ContextBudget ----------------------------
(***************************************************************************)
(* The context-budget guard of app/analysis.py.  A message is a record of  *)
(* its role and of the tokens of its text, tool calls included; what the   *)
(* text says matters to nobody here.  fit_to_budget, the public form, is   *)
(* called by no part of the program.                                       *)
(***************************************************************************)
EXTENDS Window, SequencesExt

CONSTANT PerMessageOverhead   \* _PER_MESSAGE_OVERHEAD

ASSUME ContextBudgetAssumption == PerMessageOverhead \in Nat \ {0}

Cost(m) == m.tokens + PerMessageOverhead

count_message_tokens(ms) ==
    LET total[i \in 0..Len(ms)] == IF i = 0 THEN 0 ELSE total[i - 1] + Cost(ms[i])
    IN  total[Len(ms)]

\* m is kept if it is a system message, or if it is not.
AppendIf(kept, m, system) == IF (m.role = "system") = system THEN Append(kept, m) ELSE kept

\* The messages of ms that are system messages, or those that are not, in order.
Those(ms, system) ==
    LET those[i \in 0..Len(ms)] ==
            IF i = 0 THEN <<>> ELSE AppendIf(those[i - 1], ms[i], system)
    IN  those[Len(ms)]

SystemOf(ms) == Those(ms, TRUE)
RestOf(ms) == Those(ms, FALSE)

\* The last n messages of ms.
Newest(ms, n) == SubSeq(ms, Len(ms) - n + 1, Len(ms))

\* The system messages and the newest n of the rest are within the budget.
Fits(system, rest, n, budget) ==
    count_message_tokens(system) + count_message_tokens(Newest(rest, n)) <= budget

\* (Mutant: the live turn may be dropped.)
KeptOrNothing(system, rest, budget) ==
    CHOOSE n \in 0..Len(rest) :
        /\ n = Len(rest) \/ ~Fits(system, rest, n + 1, budget)
        /\ \A k \in 0..(n - 1) : Fits(system, rest, k + 1, budget)

\* How many messages the loop over the rest, newest first, has kept when it breaks: it
\* breaks before the first message that would overflow, the newest of all excepted.
Kept(system, rest, budget) ==
    CHOOSE n \in 0..Len(rest) :
        /\ n = Len(rest) \/ (n > 0 /\ ~Fits(system, rest, n + 1, budget))
        /\ \A k \in 1..(n - 1) : Fits(system, rest, k + 1, budget)

\* (Mutant: the count of what was trimmed is that from before.)
trim_and_keep_count(ms, num_ctx, headroom) ==
    LET system == SystemOf(ms)
        rest   == RestOf(ms)
        result == system \o Newest(rest, Kept(system, rest, Budget(num_ctx, headroom)))
    IN  [messages |-> IF count_message_tokens(ms) <= Budget(num_ctx, headroom) THEN ms ELSE result,
         tokens |-> count_message_tokens(ms), trimmed |-> Len(result) < Len(ms)]

\* (Mutant: a prompt that does not fit even so is left as it is.)
trim_or_give_up(ms, num_ctx, headroom) ==
    LET system == SystemOf(ms)
        rest   == RestOf(ms)
        result == system \o Newest(rest, Kept(system, rest, Budget(num_ctx, headroom)))
    IN  IF count_message_tokens(result) <= Budget(num_ctx, headroom)
        THEN [messages |-> result, tokens |-> count_message_tokens(result),
              trimmed |-> Len(result) < Len(ms)]
        ELSE [messages |-> ms, tokens |-> count_message_tokens(ms), trimmed |-> FALSE]

\* apply_context_budget: what is left untouched fits; otherwise the system messages come
\* first and then what is kept of the rest.  It is counted as trimmed, in
\* llm_truncation_avoided_total, if something was dropped, whether or not it fits now.
apply_context_budget(ms, num_ctx, headroom) ==
    LET budget == Budget(num_ctx, headroom)
        system == SystemOf(ms)
        rest   == RestOf(ms)
        result == system \o Newest(rest, Kept(system, rest, budget))
    IN  IF count_message_tokens(ms) <= budget
        THEN [messages |-> ms, tokens |-> count_message_tokens(ms), trimmed |-> FALSE]
        ELSE [messages |-> result, tokens |-> count_message_tokens(result),
              trimmed |-> Len(result) < Len(ms)]

\* fit_to_budget: nine tenths of the window, rounded down, are for the prompt.
fit_to_budget(ms, num_ctx) ==
    apply_context_budget(ms, num_ctx, num_ctx - (9 * num_ctx) \div 10).messages
==============================================================================
