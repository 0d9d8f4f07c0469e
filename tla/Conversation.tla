----------------------------- MODULE Conversation -----------------------------
(***************************************************************************)
(* One conversation between a client and a model, through the proxy: the   *)
(* context-budget guard on the way in (app/main.py, app/analysis.py), the  *)
(* injection of num_ctx (app/upstream.py), the validation and the          *)
(* delivered-context check on the way out (app/resilience.py) and the      *)
(* shaping of the reply.  The client is an agent that says anything, or    *)
(* the loop of scripts/reliability_loop.py.                                *)
(*                                                                         *)
(* What other requests do is in Dispatch.tla and Proxy.tla; here breakers  *)
(* admit, and the queue has room or refuses.  The backend is modelled as the code and  *)
(* docs/proxy.md speak of it: ollama splits the window it is given among   *)
(* its slots and evaluates what fits one, and its tokenizer differs from   *)
(* the proxy's; a backend that is not given a window, or speaks another    *)
(* dialect and does not read it, has the one it was launched with.         *)
(***************************************************************************)
EXTENDS ContextBudget, Validation

CONSTANTS
    Lengths,       \* the context lengths the tag may report, 0 for none
    Parallels,     \* values of num_parallel, as configured and as it is at the backend
    Chain,         \* the backends: their dialects and whether num_ctx is injected
    LaunchWindow,  \* the window of a backend that takes none from the proxy
    Drifts,        \* by how much the backend may count a prompt longer or shorter
    MaxRetries,    \* max_retries
    Tolerance,     \* context_truncation_tolerance, in percent
    Messages,      \* what an agent may say
    MaxMessages,   \* an agent says no more than this
    Draws,         \* the generations that a backend may come up with
    Turns          \* the turns of the harness

\* Backend: a spec of the chain may set the one without the other.
Backends == [dialect : {"ollama", "openai"}, injects_num_ctx : BOOLEAN]

ASSUME ConversationAssumption ==
    /\ Lengths \subseteq Nat
    /\ Parallels \subseteq Nat \ {0}
    /\ Chain \in Seq(Backends) \ {<<>>}
    /\ {LaunchWindow, MaxRetries, Tolerance, MaxMessages, Turns} \subseteq Nat
    /\ Drifts \subseteq Int
    /\ Messages \subseteq [role : {"system", "user", "assistant", "tool"}, tokens : Nat]
    /\ Draws \subseteq Generations

VARIABLES
    deployment,  \* the window of the model and the settings of proxy and backend
    client,      \* "agent" or "harness", until that ends with a traceback
    messages,    \* the conversation as the client has it
    request,     \* the request on its way, if any
    reply,       \* the reply to it, if any, with what became of the prompt
    forgotten,   \* how many turns the last chat request left out
    turn,        \* the turns of the harness that are over
    reasons      \* reasons[s]: how many of them scored s

vars == <<deployment, client, messages, request, reply, forgotten, turn, reasons>>

None == [is |-> "none"]
Surfaces == {"chat", "stream", "completions"}

Scores ==
    {"ok", "empty", "missed_toolcall", "malformed_toolcall", "ungrounded_action_claim",
     "truncation_garbage", "repetition", "upstream_5xx", "http_404", "http_429", "timeout"}

\* The ways in which a request ends for its client, 0 for no status at all.
Ends ==
    {<<"served", 200>>, <<"closed", 200>>, <<"failed", 502>>, <<"failed", 500>>,
     <<"refused", 404>>, <<"refused", 429>>, <<"lost", 0>>}

TypeOK ==
    /\ deployment \in [num_ctx : Nat, num_parallel : Parallels, slots : Parallels, fail : BOOLEAN]
    /\ client \in {"agent", "harness", "crashed"}
    /\ \A i \in DOMAIN messages : messages[i].tokens \in Nat
    /\ request = None \/
           /\ request.surface \in Surfaces
           /\ request.at \in DOMAIN Chain
           /\ request.attempt \in 0..MaxRetries
           /\ request.tokens = count_message_tokens(request.sent)
    /\ reply = None \/
           /\ <<reply.is, reply.status>> \in Ends
           /\ reply.status = 200 => reply.finish \in {"stop", "length", "tool_calls"}
    /\ forgotten \in 0..Len(messages)
    /\ turn \in 0..Turns
    /\ reasons \in [Scores -> 0..Turns]

-----------------------------------------------------------------------------
(***************************************************************************)
(* The harness.                                                            *)
(***************************************************************************)
Says(role, tokens) == [role |-> role, tokens |-> tokens]

\* Each turn adds a file to the conversation, and asks about it.
TurnOfHarness == <<Says("user", 5), Says("assistant", 1), Says("user", 1)>>

\* Every other turn is to be answered with a tool call.
ExpectsTool == turn % 2 = 1

Init ==
    /\ deployment \in [num_ctx : {derive_num_ctx(l) : l \in Lengths},
                       num_parallel : Parallels, slots : Parallels, fail : BOOLEAN]
    /\ \/ client = "agent" /\ messages = <<>>
       \/ client = "harness" /\ messages = <<Says("system", 1)>>
    /\ request = None
    /\ reply = None
    /\ forgotten = 0
    /\ turn = 0
    /\ reasons = [s \in Scores |-> 0]

-----------------------------------------------------------------------------
(***************************************************************************)
(* The way in.                                                             *)
(***************************************************************************)

\* What the proxy makes of ms, and the first call upstream.
Request(surface, tools, ms) ==
    LET guarded == apply_context_budget(ms, deployment.num_ctx, Headroom)
    IN  [surface |-> surface, tools |-> tools, sent |-> guarded.messages,
         tokens |-> guarded.tokens, trimmed |-> guarded.trimmed, at |-> 1, attempt |-> 0]

\* chat_completions, for a conversation ms.
Chats(surface, tools, ms) ==
    /\ request' = Request(surface, tools, ms)
    /\ forgotten' = Len(ms) - Len(request'.sent)
    /\ reply' = None

\* A request that the proxy turns away, and one that no reply comes to.
Refused(status, surface) == [is |-> "refused", status |-> status, surface |-> surface]
Lost(surface) == [is |-> "lost", status |-> 0, surface |-> surface]

\* The request ends with r before the proxy has looked at its conversation.
EndsAtOnce(r) ==
    /\ reply' = r
    /\ UNCHANGED <<request, forgotten>>

\* resolve finds no such tag.
IsUnknown(surface) == EndsAtOnce(Refused(404, surface))

\* The agent has the reply to what it asked, and says something more.
Say(m) ==
    /\ client = "agent"
    /\ request = None
    /\ Len(messages) < MaxMessages
    /\ messages' = Append(messages, m)
    /\ reply' = None
    /\ UNCHANGED <<deployment, client, request, forgotten, turn, reasons>>

\* The agent posts its conversation, tools only where they are understood.
PostChat(surface, tools) ==
    /\ client = "agent"
    /\ request = None /\ reply = None
    /\ Chats(surface, tools, messages) \/ IsUnknown(surface)
    /\ UNCHANGED <<deployment, client, messages, turn, reasons>>

\* It posts the last of it alone, as a prompt: completions makes it a single user turn.
PostPrompt ==
    /\ client = "agent"
    /\ request = None /\ reply = None
    /\ messages # <<>>
    /\ \/ /\ request' = Request("completions", FALSE, <<Says("user", Last(messages).tokens)>>)
          /\ reply' = None
          /\ UNCHANGED forgotten
       \/ IsUnknown("completions")
    /\ UNCHANGED <<deployment, client, messages, turn, reasons>>

\* A turn of the harness, up to the POST of _score_turn, which may find no proxy.
HarnessAsks ==
    /\ client = "harness"
    /\ request = None /\ reply = None
    /\ turn < Turns
    /\ messages' = messages \o TurnOfHarness
    /\ Chats("chat", ExpectsTool, messages') \/ IsUnknown("chat") \/ EndsAtOnce(Lost("chat"))
    /\ UNCHANGED <<deployment, client, turn, reasons>>

-----------------------------------------------------------------------------
(***************************************************************************)
(* The backend, and the way out.                                           *)
(***************************************************************************)
Backend == Chain[request.at]

\* The proxy tells the backend its window, and the backend reads it.
TakesWindow(backend) == backend.dialect = "ollama" /\ backend.injects_num_ctx

\* The window that one slot of the backend has for the prompt.
Delivered ==
    IF TakesWindow(Backend)
    THEN inject_options(deployment.num_ctx, deployment.num_parallel) \div deployment.slots
    ELSE LaunchWindow

\* A prompt that the backend counts as actual, and reports or not.
Evaluation(actual, reported) ==
    [backend |-> Backend, sent |-> request.tokens, actual |-> actual, window |-> Delivered,
     prompt_eval_count |-> IF reported THEN Smaller(actual, Delivered) ELSE 0]

\* What the backend may do with the prompt.
Evaluations ==
    {Evaluation(Larger(request.tokens + drift, 1), reported) :
        drift \in Drifts, reported \in BOOLEAN}

\* _verify_delivered_context marks the result: only where num_ctx is injected.
Marked(evaluation) ==
    /\ evaluation.backend.injects_num_ctx
    /\ detect_context_truncation(request.tokens, evaluation.prompt_eval_count,
                                 deployment.num_ctx, Tolerance)

\* (Mutant: a mark is not a length limit.)
finish_by_backend(result, marked, done_reason) ==
    IF has_tools(result) THEN "tool_calls" ELSE done_reason

\* _finish_reason.
finish_reason(result, marked, done_reason) ==
    IF has_tools(result) THEN "tool_calls" ELSE IF marked THEN "length" ELSE done_reason

\* What the surface makes of a result: chat shows it all, completions the text.
Shaped(result) ==
    IF request.surface = "chat" THEN result
    ELSE [content |-> result.content, thinking |-> FALSE, tool_calls |-> "none"]

Served(result, finish, marked, evaluation) ==
    [is |-> "served", status |-> 200, surface |-> request.surface, result |-> Shaped(result),
     finish |-> finish, marked |-> marked, of |-> evaluation]

Failed(status, why) ==
    [is |-> "failed", status |-> status, surface |-> request.surface, why |-> why]

Replies(r) ==
    /\ reply' = r
    /\ request' = None
    /\ UNCHANGED <<deployment, client, messages, forgotten, turn, reasons>>

Goes(req) ==
    /\ request' = req
    /\ UNCHANGED <<deployment, client, messages, reply, forgotten, turn, reasons>>

\* Nothing came of this attempt: the next one, the next backend, or AllBackendsFailed.  A
\* stream is not retried, and ends with a 200 that stops.
TriesOn ==
    \/ /\ request.surface # "stream" /\ request.attempt < MaxRetries
       /\ Goes([request EXCEPT !.attempt = @ + 1])
    \/ /\ request.surface = "stream" \/ request.attempt = MaxRetries
       /\ \/ request.at < Len(Chain) /\ Goes([request EXCEPT !.at = @ + 1, !.attempt = 0])
          \/ /\ request.at = Len(Chain) /\ request.surface # "stream"
             /\ Replies(Failed(502, "upstream_error"))
          \/ /\ request.at = Len(Chain) /\ request.surface = "stream"
             /\ Replies([is |-> "closed", status |-> 200, surface |-> "stream", finish |-> "stop"])

\* A transport or HTTP error.
CallFails == request # None /\ TriesOn

\* The queue is full: the request never gets to a worker.
Rejected ==
    /\ request # None
    /\ request.surface # "stream"
    /\ request.at = 1 /\ request.attempt = 0
    /\ Replies(Refused(429, request.surface))

\* An error that nobody expects is a 500, and breaks a stream off.
CallEscapes ==
    /\ request # None
    /\ Replies(IF request.surface = "stream" THEN Lost("stream") ELSE Failed(500, "escaped"))

\* (Mutant: the first generation is served, valid or not.)
GenerateUnchecked(result, done_reason, evaluation) ==
    /\ request # None
    /\ request.surface # "stream"
    /\ Replies(Served(result, finish_reason(result, Marked(evaluation), done_reason),
                      Marked(evaluation), evaluation))

\* A generation that is not streamed: validated, then its context verified.
Generate(result, done_reason, evaluation) ==
    /\ request # None
    /\ request.surface # "stream"
    /\ \/ validate_response(result) # "ok" /\ TriesOn
       \/ /\ validate_response(result) = "ok"
          /\ Marked(evaluation) /\ deployment.fail
          /\ Replies(Failed(502, "context_truncated"))
       \/ /\ validate_response(result) = "ok"
          /\ Marked(evaluation) => ~deployment.fail
          /\ Replies(Served(result, finish_reason(result, Marked(evaluation), done_reason),
                            Marked(evaluation), evaluation))

\* A streamed one, complete: its content is passed on as it comes, nothing is looked at.
Stream(result, done_reason, evaluation) ==
    /\ request # None
    /\ request.surface = "stream"
    /\ Replies(Served(result, done_reason, FALSE, evaluation))

\* What the backend may answer.  It calls tools if it was given any.
Answers ==
    \E result \in Draws, done_reason \in {"stop", "length"}, evaluation \in Evaluations :
        /\ has_tools(result) => request.tools
        /\ Generate(result, done_reason, evaluation) \/ Stream(result, done_reason, evaluation)

\* The timeout of _fetch: the proxy may be at it still.
HarnessGivesUp ==
    /\ client = "harness"
    /\ request # None
    /\ Replies(Lost(request.surface))

\* The connection breaks before the reply: _score_turn does not catch it.
HarnessDies ==
    /\ client = "harness"
    /\ request # None
    /\ client' = "crashed"
    /\ request' = None
    /\ UNCHANGED <<deployment, messages, reply, forgotten, turn, reasons>>

\* What _score_turn returns.
Score ==
    CASE reply.is = "lost" -> "timeout"
      [] reply.is = "failed" -> "upstream_5xx"
      [] reply.is = "refused" -> IF reply.status = 404 THEN "http_404" ELSE "http_429"
      [] reply.is = "served" -> score_payload(reply.result, ExpectsTool)

\* The rest of the turn: the reply is scored, and the harness speaks for the assistant.
HarnessScores ==
    /\ client = "harness"
    /\ reply # None
    /\ reasons' = [reasons EXCEPT ![Score] = @ + 1]
    /\ messages' = Append(messages, Says("assistant", 1))
    /\ turn' = turn + 1
    /\ reply' = None
    /\ UNCHANGED <<deployment, client, request, forgotten>>

Next ==
    \/ \E m \in Messages : Say(m)
    \/ \E surface \in {"chat", "stream"}, tools \in BOOLEAN : PostChat(surface, tools)
    \/ PostPrompt
    \/ HarnessAsks
    \/ CallFails
    \/ Rejected
    \/ CallEscapes
    \/ request # None /\ Answers
    \/ HarnessGivesUp
    \/ HarnessDies
    \/ HarnessScores

Spec == Init /\ [][Next]_vars

-----------------------------------------------------------------------------
(***************************************************************************)
(* Safety.                                                                 *)
(***************************************************************************)

\* What a chat is trimmed to is all of it if that fits, and otherwise its system messages,
\* in order, before the longest tail of the rest that fits with them; if none does, before
\* the newest message alone (apply_context_budget).
Fitting(ms) == count_message_tokens(ms) <= deployment.num_ctx - Headroom

TrimKeepsLongestTail ==
    (request # None /\ request.surface # "completions") =>
        \/ Fitting(messages) /\ request.sent = messages
        \/ /\ ~Fitting(messages)
           /\ \E tail \in Suffixes(RestOf(messages)) :
                  /\ request.sent = SystemOf(messages) \o tail
                  /\ Fitting(request.sent) \/ Len(tail) <= 1
                  /\ tail = <<>> => RestOf(messages) = <<>>
                  /\ \A longer \in Suffixes(RestOf(messages)) :
                         Len(longer) > Len(tail) /\ longer # <<>> =>
                             Len(longer) > 1 /\ ~Fitting(SystemOf(messages) \o longer)

\* What the model has forgotten it is never shown again: as the conversation grows, the
\* guard leaves out what it has left out before (chat_completions, which keeps nothing of
\* a conversation from one request to the next).
ForgottenForGood == [][forgotten <= forgotten']_vars

IsServed == reply # None /\ reply.is = "served"
IsCut == reply.of.actual > reply.of.window

\* A prompt within the budget reaches the model whole: the window that is derived, injected
\* and divided holds it, as long as the backend has no more slots than it is configured
\* with and counts the prompt no longer than the headroom allows.
FittingPromptIsDelivered ==
    (/\ IsServed
     /\ TakesWindow(reply.of.backend)
     /\ deployment.num_ctx > Headroom
     /\ reply.of.sent <= deployment.num_ctx - Headroom
     /\ reply.of.actual <= reply.of.sent + Headroom
     /\ deployment.slots <= Larger(deployment.num_parallel, 1)) => ~IsCut

\* A reply is marked as truncated only if its prompt was: neither a short prompt nor a
\* window that is just filled is an alarm, unless the tokenizers differ by more than the
\* tolerance (detect_context_truncation).
NoFalseAlarm ==
    IsServed /\ reply.marked => IsCut \/ Short(reply.of.actual, reply.of.sent, Tolerance)

\* A window that has shrunk materially below what was asked for and what was sent never
\* passes for a complete answer, where the proxy looks at it, at a backend that reports it:
\* the reply is a 502, or says "length" or calls a tool (_verify_delivered_context,
\* _finish_reason).
CutIsLoud ==
    (/\ IsServed
     /\ reply.surface # "stream"
     /\ reply.of.backend.injects_num_ctx
     /\ reply.of.prompt_eval_count > 0
     /\ IsCut
     /\ Short(reply.of.window, deployment.num_ctx, Tolerance)
     /\ Short(reply.of.window, reply.of.sent, Tolerance))
        => ~deployment.fail /\ reply.finish # "stop"

\* What the proxy is there to keep from its clients.
Garbage == {"malformed_toolcall", "ungrounded_action_claim", "truncation_garbage", "repetition"}

\* What the proxy has validated the harness does not take for garbage, in any turn.  It finds
\* a completion empty just where there is neither text nor a tool call, and there is neither
\* only where the model was all thinking (validate_response on both sides, with the shaping
\* of the reply in between).  Refusals, errors and timeouts are scored too, against the
\* proxy, and nothing is said of them.
HarnessAgrees ==
    /\ \A s \in Garbage : reasons[s] = 0
    /\ (client = "harness" /\ IsServed) =>
           /\ Score = "empty" <=> reply.result.content = "nothing" /\ ~has_tools(reply.result)
           /\ Score = "empty" => reply.result.thinking

-----------------------------------------------------------------------------
(***************************************************************************)
(* What docs say and the code does not do.                                 *)
(***************************************************************************)

\* "after every ollama call it compares": "a materially short delivery marks the result
\* (finish_reason=length)".
ShortReadIsLength ==
    (/\ IsServed
     /\ IsCut
     /\ TakesWindow(reply.of.backend)
     /\ reply.of.prompt_eval_count > 0
     /\ Short(reply.of.prompt_eval_count, deployment.num_ctx, Tolerance)
     /\ Short(reply.of.prompt_eval_count, reply.of.sent, Tolerance))
        => reply.finish = "length"

\* "keeps every system message and the latest user turn".
LatestUserTurnKept ==
    \A i \in DOMAIN messages :
        (/\ messages[i].role = "user"
         /\ \A j \in DOMAIN messages : j > i => messages[j].role # "user")
        => Contains(fit_to_budget(messages, deployment.num_ctx), messages[i])
==============================================================================
