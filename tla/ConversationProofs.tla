-------------------------- MODULE ConversationProofs ---------------------------
(***************************************************************************)
(* The invariants of Conversation.tla, for every deployment, chain of      *)
(* backends, tokenizer, agent and number of turns.                         *)
(***************************************************************************)
EXTENDS Conversation, WindowProofs, ContextBudgetProofs

(***************************************************************************)
(* The verdicts.                                                           *)
(***************************************************************************)

LEMMA LeastIsMin ==
    ASSUME NEW I \in SUBSET Nat, NEW n \in I, \A i \in I : n <= i
    PROVE  Min(I) = n
<1> DEFINE least == Min(I)
<1>1. \E i \in I : \A j \in I : i <= j
  OBVIOUS
<1>2. least \in I /\ \A j \in I : least <= j
  BY <1>1, Zenon DEF Min
<1>3. least <= n /\ n <= least
  BY <1>2
<1> HIDE DEF least
<1>4. least \in Nat /\ n \in Nat
  BY <1>2
<1>5. QED
  BY <1>3, <1>4 DEF least

LEMMA FirstIsSelected ==
    ASSUME NEW s, NEW n \in 1..6, Len(s) = 6,
           s[n].holds, \A i \in 1..(n - 1) : ~s[i].holds
    PROVE  SelectInSeq(s, LAMBDA verdict : verdict.holds) = n
<1> DEFINE I == {i \in 1..Len(s) : s[i].holds}
<1>1. n \in I /\ I \subseteq Nat /\ \A i \in I : n <= i
  OBVIOUS
<1>2. Min(I) = n
  BY <1>1, LeastIsMin
<1>3. QED
  BY <1>1, <1>2, Zenon DEF SelectInSeq

LEMMA VerdictIsFirst ==
    ASSUME NEW result \in Generations
    PROVE  validate_response(result) =
               IF result.content = "nothing" /\ ~has_tools(result) /\ ~result.thinking
               THEN "empty"
               ELSE IF result.tool_calls = "malformed" THEN "malformed_toolcall"
               ELSE IF Ungrounded(result) THEN "ungrounded_action_claim"
               ELSE IF ~has_tools(result) /\ result.content = "junk" THEN "truncation_garbage"
               ELSE IF Degenerate(result) THEN "repetition"
               ELSE "ok"
<1> DEFINE s == Verdicts(result)
<1>1. Len(s) = 6
  BY DEF Verdicts
<1>2. /\ s[1].reason = "empty" /\ s[2].reason = "malformed_toolcall"
      /\ s[3].reason = "ungrounded_action_claim" /\ s[4].reason = "truncation_garbage"
      /\ s[5].reason = "repetition" /\ s[6].reason = "ok"
  BY DEF Verdicts
<1>3. /\ s[1].holds <=> result.content = "nothing" /\ ~has_tools(result) /\ ~result.thinking
      /\ s[2].holds <=> result.tool_calls = "malformed"
      /\ s[3].holds <=> Ungrounded(result)
      /\ s[4].holds <=> ~has_tools(result) /\ result.content = "junk"
      /\ s[5].holds <=> Degenerate(result)
      /\ s[6].holds
  BY DEF Verdicts
<1>4. \A n \in 1..6 : s[n].holds /\ (\A i \in 1..(n - 1) : ~s[i].holds)
                          => validate_response(result) = s[n].reason
  <2> HIDE DEF s
  <2>1. QED
    BY <1>1, FirstIsSelected DEF validate_response, s
<1> HIDE DEF s
<1>5. QED
  BY <1>2, <1>3, <1>4

\* What the harness makes of a generation that the proxy found valid: it is usable, or was
\* all thinking, which the harness does not see (score_payload, validate_response).
LEMMA HarnessFindsValidUsable ==
    ASSUME NEW result \in Generations, NEW expect_tool \in BOOLEAN,
           validate_response(result) = "ok"
    PROVE  LET score == score_payload(result, expect_tool)
           IN  /\ score \in {"ok", "missed_toolcall", "empty"}
               /\ score = "empty" <=> result.content = "nothing" /\ ~has_tools(result)
               /\ score = "empty" => result.thinking
<1> DEFINE seen == to_result(result)
<1>1. /\ seen \in Generations
      /\ seen.content = result.content /\ seen.tool_calls = result.tool_calls
      /\ seen.thinking = FALSE
      /\ has_tools(seen) <=> has_tools(result)
  BY DEF to_result, Generations, has_tools
<1>2. /\ Ungrounded(seen) <=> Ungrounded(result)
      /\ Degenerate(seen) <=> Degenerate(result)
  BY <1>1 DEF Ungrounded, Degenerate
<1> HIDE DEF seen
<1>3. /\ ~(result.content = "nothing" /\ ~has_tools(result) /\ ~result.thinking)
      /\ result.tool_calls # "malformed"
      /\ ~Ungrounded(result)
      /\ ~(~has_tools(result) /\ result.content = "junk")
      /\ ~Degenerate(result)
  BY VerdictIsFirst
<1>4. validate_response(seen) =
          IF result.content = "nothing" /\ ~has_tools(result) THEN "empty" ELSE "ok"
  BY <1>1, <1>2, <1>3, VerdictIsFirst
<1>5. score_payload(result, expect_tool) =
          IF validate_response(seen) = "ok" /\ expect_tool /\ ~has_tools(seen)
          THEN "missed_toolcall" ELSE validate_response(seen)
  BY DEF score_payload, seen
<1>6. QED
  BY <1>1, <1>3, <1>4, <1>5

-----------------------------------------------------------------------------
(***************************************************************************)
(* The inductive invariant.                                                *)
(***************************************************************************)

Deployments ==
    [num_ctx : {derive_num_ctx(l) : l \in Lengths}, num_parallel : Parallels,
     slots : Parallels, fail : BOOLEAN]

Requests ==
    [surface : Surfaces, tools : BOOLEAN, sent : Seq(Message), tokens : Nat,
     trimmed : BOOLEAN, at : 1..Len(Chain), attempt : 0..MaxRetries]

Prompts ==
    [backend : Backends, sent : Nat, actual : Nat, window : Nat,
     prompt_eval_count : Nat]

ServedReplies ==
    [is : {"served"}, status : {200}, surface : Surfaces, result : Generations,
     finish : {"stop", "length", "tool_calls"}, marked : BOOLEAN, of : Prompts]

FailedReplies ==
    [is : {"failed"}, status : {502, 500}, surface : Surfaces,
     why : {"upstream_error", "context_truncated", "escaped"}]

ClosedReplies ==
    [is : {"closed"}, status : {200}, surface : {"stream"}, finish : {"stop"}]

RefusedReplies == [is : {"refused"}, status : {404, 429}, surface : Surfaces]

LostReplies == [is : {"lost"}, status : {0}, surface : Surfaces]

Unserved == FailedReplies \cup ClosedReplies \cup RefusedReplies \cup LostReplies

Typed ==
    /\ deployment \in Deployments
    /\ client \in {"agent", "harness", "crashed"}
    /\ messages \in Seq(Message)
    /\ request = None \/ request \in Requests
    /\ reply = None \/ reply \in ServedReplies \cup Unserved
    /\ turn \in 0..Turns
    /\ reasons \in [Scores -> Nat]

\* A request is answered before the client goes on, and the harness only asks for chats.
TakesTurns ==
    /\ request = None \/ reply = None
    /\ client = "harness" =>
           /\ request # None => request.surface = "chat" /\ turn < Turns
           /\ reply # None => reply.surface = "chat" /\ turn < Turns

\* What is under way is what the guard made of the conversation as it is.
IsGuarded ==
    request # None =>
        /\ request.tokens = count_message_tokens(request.sent)
        /\ request.surface # "completions" =>
               request.sent = apply_context_budget(messages, deployment.num_ctx, Headroom).messages

\* What a reply says of its prompt is what the backend did with it.
EvaluationIsHonest ==
    reply \in ServedReplies =>
        /\ reply.of.window =
               IF TakesWindow(reply.of.backend)
               THEN inject_options(deployment.num_ctx, deployment.num_parallel)
                        \div deployment.slots
               ELSE LaunchWindow
        /\ reply.of.prompt_eval_count \in {0, Smaller(reply.of.actual, reply.of.window)}

\* A reply is marked where the proxy looks at it and only for what it sees.
MarkIsHonest ==
    reply \in ServedReplies =>
        /\ reply.surface = "stream" => ~reply.marked
        /\ reply.surface # "stream" =>
               /\ reply.marked <=>
                      /\ reply.of.backend.injects_num_ctx
                      /\ detect_context_truncation(reply.of.sent, reply.of.prompt_eval_count,
                                                   deployment.num_ctx, Tolerance)
               /\ reply.marked => ~deployment.fail /\ reply.finish # "stop"

\* A chat that is not streamed shows a result that was found valid.
ResultIsValid ==
    reply \in ServedReplies /\ reply.surface = "chat" => validate_response(reply.result) = "ok"

\* No reason is given more often than there were turns, and garbage is none.
ReasonsAreFew ==
    \A s \in Scores :
        /\ reasons[s] <= turn
        /\ s \in Garbage => reasons[s] = 0

\* What was left out of a chat is left out of the conversation as it is now.
NothingComesBack ==
    forgotten \in Nat /\ forgotten <= LeftOut(messages, deployment.num_ctx, Headroom)

Inv ==
    /\ Typed /\ TakesTurns /\ IsGuarded
    /\ EvaluationIsHonest /\ MarkIsHonest /\ ResultIsValid
    /\ ReasonsAreFew /\ NothingComesBack

LEMMA Constants ==
    /\ {LaunchWindow, MaxRetries, Tolerance, MaxMessages, Turns} \subseteq Nat
    /\ Headroom \in Nat
    /\ Messages \subseteq Message
    /\ Chain \in Seq(Backends) /\ Len(Chain) \in Nat /\ Len(Chain) >= 1
    /\ \A i \in 1..Len(Chain) : Chain[i] \in Backends
    /\ \A role \in {"system", "user", "assistant", "tool"}, tokens \in Nat :
           Says(role, tokens) \in Message
<1>1. Chain \in Seq(Backends) /\ Chain # <<>>
  BY ConversationAssumption DEF ConversationAssumption
<1>2. Len(Chain) \in Nat /\ Len(Chain) >= 1
  BY <1>1, EmptySeq, LenProperties
<1>3. \A i \in 1..Len(Chain) : Chain[i] \in Backends
  BY <1>1, ElementOfSeq
<1>4. Messages \subseteq Message
  BY ConversationAssumption DEF ConversationAssumption, Message
<1>5. \A role \in {"system", "user", "assistant", "tool"}, tokens \in Nat :
          Says(role, tokens) \in Message
  BY DEF Says, Message
<1>6. QED
  BY <1>1, <1>2, <1>3, <1>4, <1>5, ConversationAssumption, WindowAssumption
  DEF ConversationAssumption, WindowAssumption

LEMMA DeploymentType ==
    ASSUME Typed
    PROVE  /\ deployment.num_ctx \in Nat \ {0}
           /\ deployment.num_parallel \in Nat \ {0} /\ deployment.slots \in Nat \ {0}
           /\ deployment.fail \in BOOLEAN
           /\ inject_options(deployment.num_ctx, deployment.num_parallel) \div deployment.slots
                  \in Nat
<1>1. PICK l \in Lengths : deployment.num_ctx = derive_num_ctx(l)
  BY DEF Typed, Deployments
<1>2. l \in Nat /\ Parallels \subseteq Nat \ {0}
  BY ConversationAssumption DEF ConversationAssumption
<1>3. /\ deployment.num_ctx \in Nat \ {0}
      /\ deployment.num_parallel \in Nat \ {0} /\ deployment.slots \in Nat \ {0}
      /\ deployment.fail \in BOOLEAN
  BY <1>1, <1>2, Derived DEF Typed, Deployments
<1>4. inject_options(deployment.num_ctx, deployment.num_parallel) \in Nat
  <2>1. \A m, n \in Nat : m * n \in Nat
    BY Z3
  <2>2. Larger(deployment.num_parallel, 1) \in Nat
    BY <1>3 DEF Larger
  <2>3. QED
    BY <1>3, <2>1, <2>2 DEF inject_options
<1>5. \A m \in Nat, n \in Nat \ {0} : m \div n \in Nat
  BY Z3
<1>6. QED
  BY <1>3, <1>4, <1>5

LEMMA InitInv == Init => Inv
<1> SUFFICES ASSUME Init
             PROVE  Inv
  OBVIOUS
<1>1. messages \in Seq(Message)
  <2>1. \A m \in Message : <<m>> \in Seq(Message)
    OBVIOUS
  <2>2. Says("system", 1) \in Message
    BY Constants
  <2>3. QED
    BY <2>1, <2>2, EmptySeq DEF Init
<1>2. Typed
  BY <1>1, Constants DEF Init, Typed, Deployments
<1>3. LeftOut(messages, deployment.num_ctx, Headroom) >= 0
  <2>1. LeftOut(messages, deployment.num_ctx, Headroom) \in Nat
    BY <1>1, <1>2, Constants, DeploymentType, LeftOutType
  <2>2. QED
    BY <2>1
<1>4. NothingComesBack
  BY <1>3 DEF Init, NothingComesBack
<1>5. request = None /\ reply = None /\ turn = 0 /\ reasons = [s \in Scores |-> 0]
  BY DEF Init
<1>6. reply \notin ServedReplies
  BY <1>5 DEF None, ServedReplies
<1>7. QED
  BY <1>2, <1>4, <1>5, <1>6
  DEF Inv, TakesTurns, IsGuarded, EvaluationIsHonest, MarkIsHonest, ResultIsValid, ReasonsAreFew

-----------------------------------------------------------------------------
(***************************************************************************)
(* The steps: the way in.                                                  *)
(***************************************************************************)

LEMMA RequestType ==
    ASSUME Typed, NEW surface \in Surfaces, NEW tools \in BOOLEAN, NEW ms \in Seq(Message)
    PROVE  LET r == Request(surface, tools, ms)
           IN  /\ r \in Requests
               /\ r.surface = surface
               /\ r.tokens = count_message_tokens(r.sent)
               /\ r.sent = apply_context_budget(ms, deployment.num_ctx, Headroom).messages
<1> DEFINE guarded == apply_context_budget(ms, deployment.num_ctx, Headroom)
           r == Request(surface, tools, ms)
<1>1. /\ guarded.messages \in Seq(Message)
      /\ guarded.tokens = count_message_tokens(guarded.messages)
      /\ guarded.tokens \in Nat /\ guarded.trimmed \in BOOLEAN
  BY DeploymentType, Constants, Guard
<1>2. r = [surface |-> surface, tools |-> tools, sent |-> guarded.messages,
           tokens |-> guarded.tokens, trimmed |-> guarded.trimmed, at |-> 1, attempt |-> 0]
  BY DEF Request
<1>3. 1 \in 1..Len(Chain) /\ 0 \in 0..MaxRetries
  BY Constants
<1> HIDE DEF guarded, r
<1>4. QED
  BY <1>1, <1>2, <1>3 DEF Requests, r, guarded

\* A reply that is not there keeps its promises.
LEMMA NoReplyIsHonest ==
    ASSUME reply' = None
    PROVE  EvaluationIsHonest' /\ MarkIsHonest' /\ ResultIsValid'
<1>1. reply' \notin ServedReplies
  BY DEF None, ServedReplies
<1>2. ServedReplies' = ServedReplies
  BY DEF ServedReplies, Surfaces, Generations, Contents, ToolCalls, Prompts
<1>3. QED
  BY <1>1, <1>2 DEF EvaluationIsHonest, MarkIsHonest, ResultIsValid

\* No more does one without a completion in it.
LEMMA UnservedIsHonest ==
    ASSUME reply' \in Unserved
    PROVE  EvaluationIsHonest' /\ MarkIsHonest' /\ ResultIsValid'
<1>1. ServedReplies' = ServedReplies
  BY DEF ServedReplies, Surfaces, Generations, Contents, ToolCalls, Prompts
<1>2. reply' \notin ServedReplies
  BY DEF Unserved, ServedReplies, FailedReplies, ClosedReplies, RefusedReplies, LostReplies
<1>3. QED
  BY <1>1, <1>2 DEF EvaluationIsHonest, MarkIsHonest, ResultIsValid

\* The sets that the types are made of are constants.
LEMMA SetsStay ==
    /\ Requests' = Requests /\ Deployments' = Deployments
    /\ ServedReplies' = ServedReplies /\ Unserved' = Unserved
  BY DEF Requests, Deployments, ServedReplies, Unserved, FailedReplies, ClosedReplies,
         RefusedReplies, LostReplies, Surfaces, Generations, Contents, ToolCalls, Prompts

LEMMA RefusedAndLost ==
    ASSUME NEW surface \in Surfaces
    PROVE  /\ \A status \in {404, 429} :
                  /\ Refused(status, surface) \in Unserved
                  /\ Refused(status, surface).surface = surface
           /\ Lost(surface) \in Unserved /\ Lost(surface).surface = surface
  BY DEF Refused, Lost, Unserved, RefusedReplies, LostReplies

\* Nothing comes back either of messages that are added to the conversation.
LEMMA MoreMessagesForget ==
    ASSUME Inv, NEW t \in Seq(Message), messages' = messages \o t,
           UNCHANGED <<deployment, forgotten>>
    PROVE  messages' \in Seq(Message) /\ NothingComesBack'
<1> DEFINE before == LeftOut(messages, deployment.num_ctx, Headroom)
           after == LeftOut(messages \o t, deployment.num_ctx, Headroom)
<1>1. /\ messages \in Seq(Message) /\ messages \o t \in Seq(Message)
      /\ deployment.num_ctx \in Nat /\ Headroom \in Nat
  BY DeploymentType, Constants, ConcatProperties DEF Inv, Typed
<1>2. before \in Nat /\ after \in Nat /\ before <= after
  BY <1>1, LeftOutType, WhatIsLeftOutStaysOut
<1>3. forgotten \in Nat /\ forgotten <= before
  BY DEF Inv, NothingComesBack
<1>4. forgotten \in Nat /\ forgotten <= after
  <2> HIDE DEF before, after
  <2>1. QED
    BY <1>2, <1>3
<1>5. QED
  BY <1>1, <1>4 DEF NothingComesBack

\* A request that ends before it is guarded, for a conversation that has grown or has not.
LEMMA EndsAtOnceInv ==
    ASSUME Inv, request = None, NEW r \in Unserved, EndsAtOnce(r),
           UNCHANGED <<deployment, client, turn, reasons>>,
           client = "harness" => r.surface = "chat" /\ turn < Turns,
           NEW t \in Seq(Message), messages' = messages \o t
    PROVE  Inv'
<1>1. request' = None /\ reply' = r /\ forgotten' = forgotten
  BY DEF EndsAtOnce
<1>2. messages' \in Seq(Message) /\ NothingComesBack'
  BY <1>1, MoreMessagesForget
<1>3. Typed'
  BY <1>1, <1>2, SetsStay DEF Inv, Typed
<1>4. TakesTurns'
  BY <1>1 DEF TakesTurns
<1>5. IsGuarded'
  BY <1>1 DEF IsGuarded
<1>6. ReasonsAreFew'
  BY DEF Inv, ReasonsAreFew
<1>7. reply' \in Unserved
  BY <1>1
<1>8. QED
  BY <1>2, <1>3, <1>4, <1>5, <1>6, <1>7, UnservedIsHonest DEF Inv

\* What is said next brings nothing back.
LEMMA OneMoreForgets ==
    ASSUME Inv, NEW m \in Message, messages' = Append(messages, m),
           UNCHANGED <<deployment, forgotten>>
    PROVE  NothingComesBack'
<1>1. /\ messages \in Seq(Message) /\ Append(messages, m) \in Seq(Message)
      /\ deployment.num_ctx \in Nat /\ Headroom \in Nat
  BY AppendProperties, DeploymentType, Constants DEF Inv, Typed
<1> DEFINE before == LeftOut(messages, deployment.num_ctx, Headroom)
           after == LeftOut(Append(messages, m), deployment.num_ctx, Headroom)
<1>2. before <= after
  BY <1>1, OneMoreMessage
<1>3. before \in Nat
  BY <1>1, LeftOutType
<1>4. after \in Nat
  BY <1>1, LeftOutType
<1>5. forgotten \in Nat /\ forgotten <= before
  BY DEF Inv, NothingComesBack
<1>6. forgotten \in Nat /\ forgotten <= after
  <2> HIDE DEF before, after
  <2>1. QED
    BY <1>2, <1>3, <1>4, <1>5
<1>7. QED
  BY <1>6 DEF NothingComesBack

LEMMA SayInv ==
    ASSUME Inv, NEW m \in Messages, Say(m)
    PROVE  Inv'
<1>1. m \in Message
  BY Constants
<1>2. messages \in Seq(Message) /\ messages' \in Seq(Message)
  BY <1>1, AppendProperties DEF Inv, Typed, Say
<1>3. Typed'
  BY <1>2 DEF Inv, Typed, Say, Deployments, Requests
<1>4. TakesTurns'
  BY DEF Inv, Typed, TakesTurns, Say
<1>5. IsGuarded'
  BY DEF Say, IsGuarded
<1>6. EvaluationIsHonest' /\ MarkIsHonest' /\ ResultIsValid'
  BY NoReplyIsHonest DEF Say
<1>7. ReasonsAreFew'
  BY DEF Inv, Say, ReasonsAreFew
<1>8. NothingComesBack'
  BY <1>1, OneMoreForgets DEF Say
<1>9. QED
  BY <1>3, <1>4, <1>5, <1>6, <1>7, <1>8 DEF Inv

\* The guard on a chat: what it leaves out is what is forgotten.
LEMMA ChatsGuarded ==
    ASSUME Inv, NEW surface \in {"chat", "stream"}, NEW tools \in BOOLEAN,
           NEW ms \in Seq(Message), messages' = ms, deployment' = deployment,
           Chats(surface, tools, ms)
    PROVE  /\ request' \in Requests /\ request'.surface = surface
           /\ IsGuarded'
           /\ NothingComesBack'
           /\ reply' = None
<1> DEFINE r == Request(surface, tools, ms)
           sent == apply_context_budget(ms, deployment.num_ctx, Headroom).messages
<1>1. request' = r /\ forgotten' = Len(ms) - Len(r.sent) /\ reply' = None
  BY DEF Chats
<1>2. /\ r \in Requests /\ r.surface = surface
      /\ r.tokens = count_message_tokens(r.sent) /\ r.sent = sent
  BY RequestType DEF Inv, Surfaces
<1> HIDE DEF r
<1>3. IsGuarded'
  BY <1>1, <1>2 DEF IsGuarded
<1>4. NothingComesBack'
  <2>1. LeftOut(ms, deployment.num_ctx, Headroom) \in Nat
    BY LeftOutType, DeploymentType, Constants DEF Inv
  <2>2. forgotten' = LeftOut(ms, deployment.num_ctx, Headroom)
    BY <1>1, <1>2 DEF LeftOut
  <2>3. QED
    BY <2>1, <2>2 DEF NothingComesBack
<1>5. QED
  BY <1>1, <1>2, <1>3, <1>4

LEMMA PostChatInv ==
    ASSUME Inv, NEW surface \in {"chat", "stream"}, NEW tools \in BOOLEAN,
           PostChat(surface, tools)
    PROVE  Inv'
<1>1. messages \in Seq(Message) /\ messages' = messages /\ deployment' = deployment
  BY DEF Inv, Typed, PostChat
<1>2. CASE Chats(surface, tools, messages)
  <2>1. /\ request' \in Requests /\ request'.surface = surface
        /\ IsGuarded' /\ NothingComesBack' /\ reply' = None
    BY <1>1, <1>2, ChatsGuarded
  <2>2. Typed'
    BY <1>1, <2>1, SetsStay DEF Inv, Typed, PostChat
  <2>3. TakesTurns'
    BY <2>1 DEF Inv, TakesTurns, PostChat
  <2>4. ReasonsAreFew'
    BY DEF Inv, PostChat, ReasonsAreFew
  <2>5. QED
    BY <2>1, <2>2, <2>3, <2>4, NoReplyIsHonest DEF Inv
<1>3. CASE IsUnknown(surface)
  <2>1. Refused(404, surface) \in Unserved
    BY RefusedAndLost DEF Surfaces
  <2>2. <<>> \in Seq(Message) /\ messages' = messages \o <<>>
    BY <1>1, EmptySeq, ConcatEmptySeq
  <2>3. QED
    BY <1>3, <2>1, <2>2, EndsAtOnceInv DEF PostChat, IsUnknown
<1>4. QED
  BY <1>2, <1>3 DEF PostChat

LEMMA PostPromptInv ==
    ASSUME Inv, PostPrompt
    PROVE  Inv'
<1>1. /\ messages \in Seq(Message) /\ messages # <<>>
      /\ request = None /\ client = "agent"
      /\ UNCHANGED <<deployment, client, messages, turn, reasons>>
  BY DEF Inv, Typed, PostPrompt
<1>2. CASE /\ request' = Request("completions", FALSE, <<Says("user", Last(messages).tokens)>>)
           /\ reply' = None
           /\ UNCHANGED forgotten
  <2> DEFINE ms == <<Says("user", Last(messages).tokens)>>
             r == Request("completions", FALSE, ms)
  <2>1. ms \in Seq(Message)
    <3>1. Len(messages) \in 1..Len(messages)
      BY <1>1, EmptySeq, LenProperties
    <3>2. Last(messages) \in Message
      BY <1>1, <3>1, ElementOfSeq DEF Last
    <3>3. Says("user", Last(messages).tokens) \in Message
      BY <3>2, Constants DEF Message
    <3>4. \A m \in Message : <<m>> \in Seq(Message)
      OBVIOUS
    <3>5. QED
      BY <3>3, <3>4
  <2>2. request' = r
    BY <1>2
  <2>3. /\ r \in Requests /\ r.surface = "completions"
        /\ r.tokens = count_message_tokens(r.sent)
    <3> HIDE DEF ms
    <3>1. QED
      BY <2>1, RequestType DEF Inv, Surfaces
  <2> HIDE DEF r
  <2>4. Typed'
    BY <1>1, <1>2, <2>2, <2>3, SetsStay DEF Inv, Typed
  <2>5. TakesTurns'
    BY <1>1, <1>2 DEF TakesTurns
  <2>6. IsGuarded'
    BY <2>2, <2>3 DEF IsGuarded
  <2>7. ReasonsAreFew' /\ NothingComesBack'
    BY <1>1, <1>2 DEF Inv, ReasonsAreFew, NothingComesBack
  <2>8. QED
    BY <1>2, <2>4, <2>5, <2>6, <2>7, NoReplyIsHonest DEF Inv
<1>3. CASE IsUnknown("completions")
  <2>1. Refused(404, "completions") \in Unserved
    BY RefusedAndLost DEF Surfaces
  <2>2. <<>> \in Seq(Message) /\ messages' = messages \o <<>>
    BY <1>1, EmptySeq, ConcatEmptySeq
  <2>3. QED
    BY <1>1, <1>3, <2>1, <2>2, EndsAtOnceInv DEF IsUnknown
<1>4. QED
  BY <1>2, <1>3 DEF PostPrompt

LEMMA TurnType == TurnOfHarness \in Seq(Message)
<1>1. /\ Says("user", 5) \in Message /\ Says("assistant", 1) \in Message
      /\ Says("user", 1) \in Message
  BY Constants
<1>2. \A m, n, o \in Message : <<m, n, o>> \in Seq(Message)
  OBVIOUS
<1>3. QED
  BY <1>1, <1>2 DEF TurnOfHarness

LEMMA HarnessAsksInv ==
    ASSUME Inv, HarnessAsks
    PROVE  Inv'
<1> DEFINE ms == messages \o TurnOfHarness
<1>1. ms \in Seq(Message)
  <2>1. messages \in Seq(Message)
    BY DEF Inv, Typed
  <2>2. QED
    BY <2>1, TurnType, ConcatProperties
<1>2. /\ messages' = ms
      /\ client = "harness" /\ request = None /\ turn < Turns
      /\ UNCHANGED <<deployment, client, turn, reasons>>
  BY DEF HarnessAsks
<1>3. CASE Chats("chat", ExpectsTool, messages')
  <2>1. ExpectsTool \in BOOLEAN
    BY DEF ExpectsTool
  <2>2. Chats("chat", ExpectsTool, ms)
    BY <1>2, <1>3
  <2> HIDE DEF ms
  <2>3. /\ request' \in Requests /\ request'.surface = "chat"
        /\ IsGuarded' /\ NothingComesBack' /\ reply' = None
    BY <1>1, <1>2, <2>1, <2>2, ChatsGuarded
  <2>4. Typed'
    BY <1>1, <1>2, <2>3, SetsStay DEF Inv, Typed
  <2>5. TakesTurns'
    BY <1>2, <2>3 DEF TakesTurns
  <2>6. ReasonsAreFew'
    BY <1>2 DEF Inv, ReasonsAreFew
  <2>7. QED
    BY <2>3, <2>4, <2>5, <2>6, NoReplyIsHonest DEF Inv
<1>4. ASSUME NEW r \in Unserved, r.surface = "chat", EndsAtOnce(r)
      PROVE  Inv'
  BY <1>2, <1>4, TurnType, EndsAtOnceInv
<1>5. CASE IsUnknown("chat")
  BY <1>4, <1>5, RefusedAndLost DEF IsUnknown, Surfaces
<1>6. CASE EndsAtOnce(Lost("chat"))
  BY <1>4, <1>6, RefusedAndLost DEF Surfaces
<1>7. QED
  BY <1>3, <1>5, <1>6 DEF HarnessAsks

-----------------------------------------------------------------------------
(***************************************************************************)
(* The steps: the way out.                                                 *)
(***************************************************************************)

\* The request goes on, as it was guarded.
LEMMA GoesInv ==
    ASSUME Inv, request # None, NEW r \in Requests,
           r.surface = request.surface, r.tokens = request.tokens, r.sent = request.sent,
           Goes(r)
    PROVE  Inv'
<1>1. /\ request' = r
      /\ UNCHANGED <<deployment, client, messages, reply, forgotten, turn, reasons>>
  BY DEF Goes
<1>2. reply = None /\ reply' = None
  BY <1>1 DEF Inv, TakesTurns
<1>3. Typed'
  BY <1>1, <1>2, SetsStay DEF Inv, Typed
<1>4. TakesTurns'
  BY <1>1, <1>2 DEF Inv, TakesTurns
<1>5. IsGuarded'
  BY <1>1 DEF Inv, IsGuarded
<1>6. ReasonsAreFew' /\ NothingComesBack'
  BY <1>1 DEF Inv, ReasonsAreFew, NothingComesBack
<1>7. QED
  BY <1>2, <1>3, <1>4, <1>5, <1>6, NoReplyIsHonest DEF Inv

\* What is left of the invariant when a request is answered, whatever the reply says.
LEMMA RepliesInv ==
    ASSUME Inv, request # None,
           NEW r \in ServedReplies \cup Unserved,
           r.surface = request.surface,
           Replies(r)
    PROVE  Typed' /\ TakesTurns' /\ IsGuarded' /\ ReasonsAreFew' /\ NothingComesBack'
<1>1. /\ request' = None /\ reply' = r
      /\ UNCHANGED <<deployment, client, messages, forgotten, turn, reasons>>
  BY DEF Replies
<1>2. Typed'
  BY <1>1, SetsStay DEF Inv, Typed
<1>3. TakesTurns'
  BY <1>1 DEF Inv, TakesTurns
<1>4. IsGuarded'
  BY <1>1 DEF IsGuarded
<1>5. ReasonsAreFew' /\ NothingComesBack'
  BY <1>1 DEF Inv, ReasonsAreFew, NothingComesBack
<1>6. QED
  BY <1>2, <1>3, <1>4, <1>5

\* A reply with no completion in it promises nothing.
LEMMA UnservedInv ==
    ASSUME Inv, request # None, NEW r \in Unserved,
           r.surface = request.surface, Replies(r)
    PROVE  Inv'
<1>1. Typed' /\ TakesTurns' /\ IsGuarded' /\ ReasonsAreFew' /\ NothingComesBack'
  BY RepliesInv
<1>2. reply' \in Unserved
  BY DEF Replies
<1>3. QED
  BY <1>1, <1>2, UnservedIsHonest DEF Inv

LEMMA TriesOnInv ==
    ASSUME Inv, request # None, TriesOn
    PROVE  Inv'
<1>1. /\ request \in Requests
      /\ Len(Chain) \in Nat /\ MaxRetries \in Nat
  BY Constants DEF Inv, Typed
<1>2. /\ request.at \in 1..Len(Chain) /\ request.attempt \in 0..MaxRetries
      /\ request.surface \in Surfaces
  BY <1>1 DEF Requests
<1>3. CASE /\ request.attempt < MaxRetries
           /\ Goes([request EXCEPT !.attempt = @ + 1])
  <2> DEFINE r == [request EXCEPT !.attempt = @ + 1]
  <2>1. request.attempt + 1 \in 0..MaxRetries
    BY <1>1, <1>2, <1>3
  <2>2. /\ r \in Requests /\ r.surface = request.surface
        /\ r.tokens = request.tokens /\ r.sent = request.sent
    BY <1>1, <2>1 DEF Requests
  <2>3. Goes(r)
    BY <1>3
  <2> HIDE DEF r
  <2>4. QED
    BY <2>2, <2>3, GoesInv
<1>4. CASE request.at < Len(Chain) /\ Goes([request EXCEPT !.at = @ + 1, !.attempt = 0])
  <2> DEFINE r == [request EXCEPT !.at = @ + 1, !.attempt = 0]
  <2>1. request.at + 1 \in 1..Len(Chain) /\ 0 \in 0..MaxRetries
    BY <1>1, <1>2, <1>4
  <2>2. /\ r \in Requests /\ r.surface = request.surface
        /\ r.tokens = request.tokens /\ r.sent = request.sent
    BY <1>1, <2>1 DEF Requests
  <2>3. Goes(r)
    BY <1>4
  <2> HIDE DEF r
  <2>4. QED
    BY <2>2, <2>3, GoesInv
<1>5. CASE Replies(Failed(502, "upstream_error"))
  <2>1. Failed(502, "upstream_error") \in Unserved
    BY <1>2 DEF Failed, FailedReplies, Unserved
  <2>2. Failed(502, "upstream_error").surface = request.surface
    BY DEF Failed
  <2>3. QED
    BY <1>5, <2>1, <2>2, UnservedInv
<1>6. CASE /\ request.surface = "stream"
           /\ Replies([is |-> "closed", status |-> 200, surface |-> "stream",
                       finish |-> "stop"])
  <2> DEFINE r == [is |-> "closed", status |-> 200, surface |-> "stream", finish |-> "stop"]
  <2>1. r \in Unserved /\ r.surface = request.surface
    BY <1>6 DEF ClosedReplies, Unserved
  <2>2. Replies(r)
    BY <1>6
  <2> HIDE DEF r
  <2>3. QED
    BY <2>1, <2>2, UnservedInv
<1>7. QED
  BY <1>3, <1>4, <1>5, <1>6 DEF TriesOn

\* What the backend reports: nothing, or what its window let through.
LEMMA EvaluationType ==
    ASSUME Inv, request # None, NEW e \in Evaluations
    PROVE  /\ e \in Prompts
           /\ e.sent = request.tokens
           /\ e.window =
                  IF TakesWindow(e.backend)
                  THEN inject_options(deployment.num_ctx, deployment.num_parallel)
                           \div deployment.slots
                  ELSE LaunchWindow
           /\ e.prompt_eval_count \in {0, Smaller(e.actual, e.window)}
<1>1. PICK drift \in Drifts, reported \in BOOLEAN :
          e = Evaluation(Larger(request.tokens + drift, 1), reported)
  BY DEF Evaluations
<1> DEFINE actual == Larger(request.tokens + drift, 1)
<1>2. request \in Requests /\ request.tokens \in Nat /\ request.at \in 1..Len(Chain)
  BY DEF Inv, Typed, Requests
<1>3. actual \in Nat
  <2>1. drift \in Int
    BY ConversationAssumption DEF ConversationAssumption
  <2>2. QED
    BY <1>2, <2>1 DEF Larger
<1>4. Backend \in Backends
  BY <1>2, Constants DEF Backend
<1>5. Delivered \in Nat
  BY DeploymentType, Constants DEF Inv, Delivered
<1>6. Smaller(actual, Delivered) \in Nat
  BY <1>3, <1>5 DEF Smaller
<1>7. e = [backend |-> Backend, sent |-> request.tokens, actual |-> actual,
           window |-> Delivered,
           prompt_eval_count |-> IF reported THEN Smaller(actual, Delivered) ELSE 0]
  BY <1>1 DEF Evaluation
<1> HIDE DEF actual
<1>8. e \in Prompts
  BY <1>2, <1>3, <1>4, <1>5, <1>6, <1>7 DEF Prompts
<1>9. /\ e.sent = request.tokens
      /\ e.prompt_eval_count \in {0, Smaller(e.actual, e.window)}
      /\ e.backend = Backend /\ e.window = Delivered
  BY <1>7
<1>10. QED
  BY <1>8, <1>9 DEF Delivered

\* A completion, as it is served.
LEMMA ServedInv ==
    ASSUME Inv, request # None,
           NEW result \in Generations, NEW finish \in {"stop", "length", "tool_calls"},
           NEW marked \in BOOLEAN, NEW e \in Evaluations,
           request.surface = "stream" => ~marked,
           request.surface # "stream" =>
               /\ marked <=> Marked(e)
               /\ marked => ~deployment.fail /\ finish # "stop"
               /\ validate_response(result) = "ok",
           Replies(Served(result, finish, marked, e))
    PROVE  Inv'
<1> DEFINE r == Served(result, finish, marked, e)
<1>1. r = [is |-> "served", status |-> 200, surface |-> request.surface,
           result |-> Shaped(result), finish |-> finish, marked |-> marked, of |-> e]
  BY DEF Served
<1>2. request.surface \in Surfaces
  BY DEF Inv, Typed, Requests
<1>3. Shaped(result) \in Generations
  BY DEF Shaped, Generations, ToolCalls
<1>4. e \in Prompts
  BY EvaluationType
<1>5. Replies(r)
  OBVIOUS
<1> HIDE DEF r
<1>6. r \in ServedReplies
  BY <1>1, <1>2, <1>3, <1>4 DEF ServedReplies
<1>7. /\ r.surface = request.surface /\ r.result = Shaped(result)
      /\ r.finish = finish /\ r.of = e
  BY <1>1
<1>8. r.marked <=> marked
  BY <1>1, Zenon
<1>9. Typed' /\ TakesTurns' /\ IsGuarded' /\ ReasonsAreFew' /\ NothingComesBack'
  BY <1>5, <1>6, <1>7, RepliesInv
<1>10. reply' = r /\ deployment' = deployment
  BY <1>5 DEF Replies
<1>11. EvaluationIsHonest'
  BY <1>7, <1>10, EvaluationType DEF EvaluationIsHonest
<1>12. MarkIsHonest'
  <2>1. CASE request.surface = "stream"
    BY <1>7, <1>8, <1>10, <2>1 DEF MarkIsHonest
  <2>2. CASE request.surface # "stream"
    <3>1. /\ marked <=>
                 /\ e.backend.injects_num_ctx
                 /\ detect_context_truncation(e.sent, e.prompt_eval_count,
                                              deployment.num_ctx, Tolerance)
          /\ marked => ~deployment.fail /\ finish # "stop"
      BY <2>2, EvaluationType DEF Marked
    <3>2. QED
      BY <1>7, <1>8, <1>10, <2>2, <3>1 DEF MarkIsHonest
  <2>3. QED
    BY <2>1, <2>2
<1>13. ResultIsValid'
  BY <1>7, <1>10 DEF ResultIsValid, Shaped
<1>14. QED
  BY <1>9, <1>11, <1>12, <1>13 DEF Inv

LEMMA GenerateInv ==
    ASSUME Inv, NEW result \in Draws, NEW done_reason \in {"stop", "length"},
           NEW e \in Evaluations, Generate(result, done_reason, e)
    PROVE  Inv'
<1>1. request # None /\ request.surface # "stream" /\ result \in Generations
  BY ConversationAssumption DEF ConversationAssumption, Generate
<1>2. CASE TriesOn
  BY <1>1, <1>2, TriesOnInv
<1>3. CASE Replies(Failed(502, "context_truncated"))
  <2>1. request.surface \in Surfaces
    BY <1>1 DEF Inv, Typed, Requests
  <2>2. /\ Failed(502, "context_truncated") \in Unserved
        /\ Failed(502, "context_truncated").surface = request.surface
    BY <2>1 DEF Failed, FailedReplies, Unserved
  <2>3. QED
    BY <1>1, <1>3, <2>2, UnservedInv
<1>4. CASE /\ validate_response(result) = "ok"
           /\ Marked(e) => ~deployment.fail
           /\ Replies(Served(result, finish_reason(result, Marked(e), done_reason), Marked(e), e))
  <2> DEFINE marked == Marked(e)
             finish == finish_reason(result, marked, done_reason)
  <2>1. marked \in BOOLEAN
    BY DEF Marked, detect_context_truncation
  <2>2. finish \in {"stop", "length", "tool_calls"} /\ (marked => finish # "stop")
    BY DEF finish_reason
  <2>3. Replies(Served(result, finish, marked, e))
    BY <1>4
  <2>4. /\ request.surface = "stream" => ~marked
        /\ request.surface # "stream" =>
               /\ marked <=> Marked(e)
               /\ marked => ~deployment.fail /\ finish # "stop"
               /\ validate_response(result) = "ok"
    BY <1>1, <1>4, <2>2
  <2> HIDE DEF marked, finish
  <2>5. QED
    BY <1>1, <2>1, <2>2, <2>3, <2>4, ServedInv
<1>5. QED
  BY <1>2, <1>3, <1>4 DEF Generate

LEMMA StreamInv ==
    ASSUME Inv, NEW result \in Draws, NEW done_reason \in {"stop", "length"},
           NEW e \in Evaluations, Stream(result, done_reason, e)
    PROVE  Inv'
<1>1. /\ request # None /\ request.surface = "stream" /\ result \in Generations
      /\ Replies(Served(result, done_reason, FALSE, e))
  BY ConversationAssumption DEF ConversationAssumption, Stream
<1>2. QED
  BY <1>1, ServedInv

\* A request that is turned away, given up or broken off.
LEMMA EndsUnserved ==
    ASSUME Inv, Rejected \/ CallEscapes \/ HarnessGivesUp
    PROVE  Inv'
<1>1. request # None /\ request.surface \in Surfaces
  BY DEF Inv, Typed, Requests, Rejected, CallEscapes, HarnessGivesUp
<1>2. ASSUME NEW r \in Unserved, r.surface = request.surface, Replies(r)
      PROVE  Inv'
  BY <1>1, <1>2, UnservedInv
<1>3. CASE Rejected
  BY <1>1, <1>2, <1>3, RefusedAndLost DEF Rejected
<1>4. CASE CallEscapes
  <2>1. CASE request.surface = "stream"
    <3>1. Replies(Lost(request.surface))
      BY <1>4, <2>1 DEF CallEscapes
    <3>2. QED
      BY <1>1, <1>2, <3>1, RefusedAndLost
  <2>2. CASE request.surface # "stream"
    <3>1. Replies(Failed(500, "escaped"))
      BY <1>4, <2>2 DEF CallEscapes
    <3>2. /\ Failed(500, "escaped") \in Unserved
          /\ Failed(500, "escaped").surface = request.surface
      BY <1>1 DEF Failed, FailedReplies, Unserved
    <3>3. QED
      BY <1>2, <3>1, <3>2
  <2>3. QED
    BY <2>1, <2>2
<1>5. CASE HarnessGivesUp
  BY <1>1, <1>2, <1>5, RefusedAndLost DEF HarnessGivesUp
<1>6. QED
  BY <1>3, <1>4, <1>5

LEMMA HarnessDiesInv ==
    ASSUME Inv, HarnessDies
    PROVE  Inv'
<1>1. /\ request # None /\ client' = "crashed" /\ request' = None
      /\ UNCHANGED <<deployment, messages, reply, forgotten, turn, reasons>>
  BY DEF HarnessDies
<1>2. reply' = None
  BY <1>1 DEF Inv, TakesTurns
<1>3. Typed'
  BY <1>1, <1>2, SetsStay DEF Inv, Typed
<1>4. TakesTurns' /\ IsGuarded'
  BY <1>1 DEF TakesTurns, IsGuarded
<1>5. ReasonsAreFew' /\ NothingComesBack'
  BY <1>1 DEF Inv, ReasonsAreFew, NothingComesBack
<1>6. QED
  BY <1>2, <1>3, <1>4, <1>5, NoReplyIsHonest DEF Inv

\* What a turn of the harness may score.
LEMMA ScoreType ==
    ASSUME Inv, client = "harness", reply # None
    PROVE  Score \in Scores \ Garbage
<1>1. reply.surface = "chat" /\ reply \in ServedReplies \cup Unserved
  BY DEF Inv, Typed, TakesTurns
<1>2. ExpectsTool \in BOOLEAN
  BY DEF ExpectsTool
<1>3. CASE reply \in ServedReplies
  <2>1. reply.is = "served" /\ reply.result \in Generations
    BY <1>3 DEF ServedReplies
  <2>2. validate_response(reply.result) = "ok"
    BY <1>1, <1>3 DEF Inv, ResultIsValid
  <2>3. score_payload(reply.result, ExpectsTool) \in {"ok", "missed_toolcall", "empty"}
    BY <1>2, <2>1, <2>2, HarnessFindsValidUsable
  <2>4. Score = score_payload(reply.result, ExpectsTool)
    BY <2>1 DEF Score
  <2>5. QED
    BY <2>3, <2>4 DEF Scores, Garbage
<1>4. CASE reply \in FailedReplies
  <2>1. Score = "upstream_5xx"
    BY <1>4 DEF FailedReplies, Score
  <2>2. QED
    BY <2>1 DEF Scores, Garbage
<1>5. CASE reply \in ClosedReplies
  BY <1>1, <1>5 DEF ClosedReplies
<1>6. CASE reply \in RefusedReplies
  <2>1. Score \in {"http_404", "http_429"}
    BY <1>6 DEF RefusedReplies, Score
  <2>2. QED
    BY <2>1 DEF Scores, Garbage
<1>7. CASE reply \in LostReplies
  <2>1. Score = "timeout"
    BY <1>7 DEF LostReplies, Score
  <2>2. QED
    BY <2>1 DEF Scores, Garbage
<1>8. QED
  BY <1>1, <1>3, <1>4, <1>5, <1>6, <1>7 DEF Unserved

LEMMA HarnessScoresInv ==
    ASSUME Inv, HarnessScores
    PROVE  Inv'
<1> DEFINE m == Says("assistant", 1)
           score == Score
<1>1. /\ client = "harness" /\ reply # None
      /\ reasons' = [reasons EXCEPT ![score] = @ + 1]
      /\ messages' = Append(messages, m) /\ turn' = turn + 1 /\ reply' = None
      /\ UNCHANGED <<deployment, client, request, forgotten>>
  BY DEF HarnessScores
<1>2. m \in Message /\ Turns \in Nat
  BY Constants
<1>3. score \in Scores /\ score \notin Garbage
  BY <1>1, ScoreType
<1>4. request = None /\ turn < Turns /\ turn \in Nat
  BY <1>1, <1>2 DEF Inv, TakesTurns, Typed
<1> HIDE DEF m, score
<1>5. messages' \in Seq(Message)
  BY <1>1, <1>2, AppendProperties DEF Inv, Typed
<1>6. reasons' \in [Scores -> Nat]
  BY <1>1, <1>3 DEF Inv, Typed
<1>7. Deployments' = Deployments
  BY DEF Deployments
<1>8. Typed'
  BY <1>1, <1>2, <1>4, <1>5, <1>6, <1>7 DEF Inv, Typed
<1>9. TakesTurns' /\ IsGuarded'
  BY <1>1, <1>4 DEF TakesTurns, IsGuarded
<1>10. ReasonsAreFew'
  <2> SUFFICES ASSUME NEW s \in Scores
               PROVE  /\ reasons'[s] <= turn + 1
                      /\ s \in Garbage => reasons'[s] = 0
    BY <1>1 DEF ReasonsAreFew
  <2>1. /\ reasons[s] \in Nat /\ reasons[s] <= turn
        /\ s \in Garbage => reasons[s] = 0
    BY DEF Inv, Typed, ReasonsAreFew
  <2>2. reasons'[s] = IF s = score THEN reasons[s] + 1 ELSE reasons[s]
    BY <1>1, <1>3 DEF Inv, Typed
  <2>3. QED
    BY <1>3, <1>4, <2>1, <2>2
<1>11. NothingComesBack'
  BY <1>1, <1>2, OneMoreForgets
<1>12. QED
  BY <1>1, <1>8, <1>9, <1>10, <1>11, NoReplyIsHonest DEF Inv

LEMMA NextInv ==
    ASSUME Inv, [Next]_vars
    PROVE  Inv'
<1>1. ASSUME NEW m \in Messages, Say(m) PROVE Inv'
  BY <1>1, SayInv
<1>2. ASSUME NEW surface \in {"chat", "stream"}, NEW tools \in BOOLEAN, PostChat(surface, tools)
      PROVE Inv'
  BY <1>2, PostChatInv
<1>3. CASE PostPrompt
  BY <1>3, PostPromptInv
<1>4. CASE HarnessAsks
  BY <1>4, HarnessAsksInv
<1>5. CASE CallFails
  BY <1>5, TriesOnInv DEF CallFails
<1>6. CASE request # None /\ Answers
  <2>1. PICK result \in Draws, done_reason \in {"stop", "length"}, e \in Evaluations :
            Generate(result, done_reason, e) \/ Stream(result, done_reason, e)
    BY <1>6 DEF Answers
  <2>2. QED
    BY <2>1, GenerateInv, StreamInv
<1>7. CASE HarnessScores
  BY <1>7, HarnessScoresInv
<1>8. CASE Rejected \/ CallEscapes \/ HarnessGivesUp
  BY <1>8, EndsUnserved
<1>9. CASE HarnessDies
  BY <1>9, HarnessDiesInv
<1>10. CASE UNCHANGED vars
  <2>1. UNCHANGED <<deployment, client, messages, request, reply, forgotten, turn, reasons>>
    BY <1>10 DEF vars
  <2>2. ServedReplies' = ServedReplies
    BY SetsStay
  <2>3. Typed' /\ TakesTurns'
    BY <2>1, SetsStay DEF Inv, Typed, TakesTurns
  <2>4. IsGuarded' /\ ReasonsAreFew' /\ NothingComesBack'
    BY <2>1 DEF Inv, IsGuarded, ReasonsAreFew, NothingComesBack
  <2>5. EvaluationIsHonest'
    BY <2>1, <2>2 DEF Inv, EvaluationIsHonest
  <2>6. MarkIsHonest'
    BY <2>1, <2>2 DEF Inv, MarkIsHonest
  <2>7. ResultIsValid'
    BY <2>1, <2>2 DEF Inv, ResultIsValid
  <2>8. QED
    BY <2>3, <2>4, <2>5, <2>6, <2>7 DEF Inv
<1>11. QED
  BY <1>1, <1>2, <1>3, <1>4, <1>5, <1>6, <1>7, <1>10, <1>8, <1>9 DEF Next

LEMMA Invariance == Spec => []Inv
  BY InitInv, NextInv, PTL DEF Spec

-----------------------------------------------------------------------------
(***************************************************************************)
(* The invariants that the runs check.                                     *)
(***************************************************************************)

\* The state of a conversation is well formed: its request is on an attempt and a backend
\* that there is, and is counted as what it sends; its reply has the status of its kind; no
\* more is forgotten than was said.
THEOREM TypeCorrect == Spec => []TypeOK
<1>1. Inv => TypeOK
  <2> SUFFICES ASSUME Inv
               PROVE  TypeOK
    OBVIOUS
  <2>1. deployment \in [num_ctx : Nat, num_parallel : Parallels, slots : Parallels, fail : BOOLEAN]
    <3>1. deployment \in Deployments /\ deployment.num_ctx \in Nat
      BY DeploymentType DEF Inv, Typed
    <3>2. QED
      BY <3>1 DEF Deployments
  <2>2. client \in {"agent", "harness", "crashed"} /\ turn \in 0..Turns
    BY DEF Inv, Typed
  <2>3. \A i \in DOMAIN messages : messages[i].tokens \in Nat
    <3>1. messages \in Seq(Message) /\ DOMAIN messages = 1..Len(messages)
      BY LenProperties DEF Inv, Typed
    <3>2. \A i \in 1..Len(messages) : messages[i] \in Message
      BY <3>1, ElementOfSeq
    <3>3. QED
      BY <3>1, <3>2 DEF Message
  <2>4. request = None \/
            /\ request.surface \in Surfaces
            /\ request.at \in DOMAIN Chain
            /\ request.attempt \in 0..MaxRetries
            /\ request.tokens = count_message_tokens(request.sent)
    <3>1. DOMAIN Chain = 1..Len(Chain)
      BY Constants, LenProperties
    <3>2. QED
      BY <3>1 DEF Inv, Typed, IsGuarded, Requests
  <2>5. reply = None \/
            /\ <<reply.is, reply.status>> \in Ends
            /\ reply.status = 200 => reply.finish \in {"stop", "length", "tool_calls"}
    <3>1. CASE reply \in ServedReplies \cup ClosedReplies
      BY <3>1 DEF ServedReplies, ClosedReplies, Ends
    <3>2. CASE reply \in FailedReplies \cup RefusedReplies \cup LostReplies
      BY <3>2 DEF FailedReplies, RefusedReplies, LostReplies, Ends
    <3>3. QED
      BY <3>1, <3>2 DEF Inv, Typed, Unserved
  <2>6. forgotten \in 0..Len(messages)
    <3> DEFINE out == LeftOut(messages, deployment.num_ctx, Headroom)
    <3>1. out \in Nat /\ out <= Len(messages)
      BY LeftOutType, DeploymentType, Constants DEF Inv, Typed
    <3>2. forgotten \in Nat /\ forgotten <= out
      BY DEF Inv, NothingComesBack
    <3>3. Len(messages) \in Nat
      BY LenProperties DEF Inv, Typed
    <3> HIDE DEF out
    <3>4. QED
      BY <3>1, <3>2, <3>3
  <2>7. reasons \in [Scores -> 0..Turns]
    <3>1. reasons \in [Scores -> Nat] /\ Turns \in Nat
      BY Constants DEF Inv, Typed
    <3>2. \A s \in Scores : reasons[s] \in 0..Turns
      BY <2>2, <3>1 DEF Inv, ReasonsAreFew
    <3>3. QED
      BY <3>1, <3>2
  <2>8. QED
    BY <2>1, <2>2, <2>3, <2>4, <2>5, <2>6, <2>7 DEF TypeOK
<1>2. QED
  BY <1>1, Invariance, PTL

\* A chat on its way upstream carries all of the conversation if it fits, and otherwise the
\* system messages and the longest tail of the rest that fits with them, or the newest
\* message alone (apply_context_budget, chat_completions).
THEOREM LongestTailIsSent == Spec => []TrimKeepsLongestTail
<1>1. Inv => TrimKeepsLongestTail
  <2> SUFFICES ASSUME Inv, request # None, request.surface # "completions"
               PROVE  \/ Fitting(messages) /\ request.sent = messages
                      \/ /\ ~Fitting(messages)
                         /\ \E tail \in Suffixes(RestOf(messages)) :
                                /\ request.sent = SystemOf(messages) \o tail
                                /\ Fitting(request.sent) \/ Len(tail) <= 1
                                /\ tail = <<>> => RestOf(messages) = <<>>
                                /\ \A longer \in Suffixes(RestOf(messages)) :
                                       Len(longer) > Len(tail) /\ longer # <<>> =>
                                           /\ Len(longer) > 1
                                           /\ ~Fitting(SystemOf(messages) \o longer)
    BY DEF TrimKeepsLongestTail
  <2>1. /\ messages \in Seq(Message)
        /\ deployment.num_ctx \in Nat /\ Headroom \in Nat
        /\ request.sent = apply_context_budget(messages, deployment.num_ctx, Headroom).messages
    BY DeploymentType, Constants DEF Inv, Typed, IsGuarded
  <2>2. QED
    BY <2>1, LongestTailIsKept DEF Fitting
<1>2. QED
  BY <1>1, Invariance, PTL

\* What is known of a reply with a completion in it, for the theorems that follow.
LEMMA ServedIsHonest ==
    ASSUME Inv, IsServed
    PROVE  /\ reply \in ServedReplies
           /\ reply.of.sent \in Nat /\ reply.of.actual \in Nat /\ reply.of.window \in Nat
           /\ reply.of.prompt_eval_count \in {0, Smaller(reply.of.actual, reply.of.window)}
           /\ TakesWindow(reply.of.backend) =>
                  reply.of.window =
                      inject_options(deployment.num_ctx, deployment.num_parallel)
                          \div deployment.slots
           /\ reply.marked =>
                  /\ reply.surface # "stream"
                  /\ detect_context_truncation(reply.of.sent, reply.of.prompt_eval_count,
                                               deployment.num_ctx, Tolerance)
<1>1. reply \in ServedReplies
  BY DEF Inv, Typed, IsServed, Unserved, FailedReplies, ClosedReplies, RefusedReplies, LostReplies
<1>2. reply.of \in Prompts
  BY <1>1 DEF ServedReplies
<1>3. /\ reply.of.sent \in Nat /\ reply.of.actual \in Nat /\ reply.of.window \in Nat
  BY <1>2 DEF Prompts
<1>4. /\ reply.of.prompt_eval_count \in {0, Smaller(reply.of.actual, reply.of.window)}
      /\ TakesWindow(reply.of.backend) =>
             reply.of.window =
                 inject_options(deployment.num_ctx, deployment.num_parallel) \div deployment.slots
  BY <1>1 DEF Inv, EvaluationIsHonest
<1>5. reply.marked =>
          /\ reply.surface # "stream"
          /\ detect_context_truncation(reply.of.sent, reply.of.prompt_eval_count,
                                       deployment.num_ctx, Tolerance)
  BY <1>1 DEF Inv, MarkIsHonest
<1>6. QED
  BY <1>1, <1>3, <1>4, <1>5

\* A prompt within the budget is evaluated whole at an ollama backend that is told its
\* window, whatever the window, the ceiling and the number of slots, if the backend has no
\* more slots than it is configured with (derive_num_ctx, apply_context_budget,
\* _inject_options).
THEOREM FittingPromptArrives == Spec => []FittingPromptIsDelivered
<1>1. Inv => FittingPromptIsDelivered
  <2> DEFINE num_ctx == deployment.num_ctx
             sent == reply.of.sent
             actual == reply.of.actual
             window == reply.of.window
  <2> SUFFICES ASSUME Inv, IsServed, TakesWindow(reply.of.backend),
                      num_ctx > Headroom, sent <= num_ctx - Headroom,
                      actual <= sent + Headroom,
                      deployment.slots <= Larger(deployment.num_parallel, 1)
               PROVE  ~(actual > window)
    BY DEF FittingPromptIsDelivered, IsCut
  <2>1. PICK l \in Lengths : num_ctx = derive_num_ctx(l)
    BY DEF Inv, Typed, Deployments
  <2>2. /\ l \in Nat /\ num_ctx \in Nat /\ Headroom \in Nat
        /\ deployment.num_parallel \in Nat /\ deployment.slots \in Nat \ {0}
    BY ConversationAssumption, DeploymentType, Constants DEF ConversationAssumption, Inv
  <2>3. /\ sent \in Nat /\ actual \in Nat /\ window \in Nat
        /\ window = inject_options(num_ctx, deployment.num_parallel) \div deployment.slots
    BY ServedIsHonest
  <2>4. sent <= Budget(num_ctx, Headroom)
    <3> HIDE DEF num_ctx, sent
    <3>1. QED
      BY <2>2, <2>3 DEF Budget, Larger
  <2>5. actual <= window
    BY <2>1, <2>2, <2>3, <2>4, FittingPromptFits
  <2> HIDE DEF actual, window
  <2>6. QED
    BY <2>3, <2>5
<1>2. QED
  BY <1>1, Invariance, PTL

\* A reply is marked as truncated only if the backend cut its prompt or counts it materially
\* shorter than the proxy does (_verify_delivered_context).
THEOREM MarksAreTrue == Spec => []NoFalseAlarm
<1>1. Inv => NoFalseAlarm
  <2> DEFINE sent == reply.of.sent
             actual == reply.of.actual
             window == reply.of.window
             count == reply.of.prompt_eval_count
  <2> SUFFICES ASSUME Inv, IsServed, reply.marked
               PROVE  actual > window \/ Short(actual, sent, Tolerance)
    BY DEF NoFalseAlarm, IsCut
  <2>1. /\ sent \in Nat /\ actual \in Nat /\ window \in Nat
        /\ count \in {0, Smaller(actual, window)}
        /\ detect_context_truncation(sent, count, deployment.num_ctx, Tolerance)
    BY ServedIsHonest
  <2>2. deployment.num_ctx \in Nat /\ Tolerance \in Nat
    BY DeploymentType, Constants DEF Inv
  <2>3. count = Smaller(actual, window)
    <3>1. count # 0
      BY <2>1 DEF detect_context_truncation
    <3>2. QED
      BY <2>1, <3>1
  <2> HIDE DEF sent, actual, window, count
  <2>4. QED
    BY <2>1, <2>2, <2>3, AlarmsAreTrue
<1>2. QED
  BY <1>1, Invariance, PTL

\* A completion whose prompt was cut by a window materially smaller than the one asked for
\* and than the prompt is never served as complete where the proxy looks at it: the proxy
\* is not in strict mode, or it would be a 502, and says "length" or calls a tool
\* (_verify_delivered_context, _finish_reason).
THEOREM CutsAreLoud == Spec => []CutIsLoud
<1>1. Inv => CutIsLoud
  <2> DEFINE sent == reply.of.sent
             actual == reply.of.actual
             window == reply.of.window
             count == reply.of.prompt_eval_count
  <2> SUFFICES ASSUME Inv, IsServed, reply.surface # "stream",
                      reply.of.backend.injects_num_ctx, count > 0, actual > window,
                      Short(window, deployment.num_ctx, Tolerance),
                      Short(window, sent, Tolerance)
               PROVE  ~deployment.fail /\ reply.finish # "stop"
    BY DEF CutIsLoud, IsCut
  <2>1. /\ sent \in Nat /\ actual \in Nat /\ window \in Nat
        /\ count \in {0, Smaller(actual, window)}
    BY ServedIsHonest
  <2>2. deployment.num_ctx \in Nat \ {0} /\ Tolerance \in Nat
    BY DeploymentType, Constants DEF Inv
  <2>3. detect_context_truncation(sent, count, deployment.num_ctx, Tolerance)
    <3>1. count > 0 /\ actual > window
      OBVIOUS
    <3>2. Short(window, deployment.num_ctx, Tolerance) /\ Short(window, sent, Tolerance)
      OBVIOUS
    <3> HIDE DEF sent, actual, window, count
    <3>3. count = Smaller(actual, window) /\ window # 0
      BY <2>1, <3>1 DEF Smaller
    <3>4. QED
      BY <2>1, <2>2, <3>1, <3>2, <3>3, CutsAreDetected
  <2>4. reply.marked
    BY <2>3, ServedIsHonest DEF Inv, MarkIsHonest
  <2>5. QED
    BY <2>4, ServedIsHonest DEF Inv, MarkIsHonest
<1>2. QED
  BY <1>1, Invariance, PTL

\* In no turn does the harness take what the proxy served for garbage, and it finds nothing
\* in a completion only where the model was all thinking; what else it may count against the
\* proxy are missing tool calls, refusals, errors and timeouts (validate_response,
\* score_payload, _score_turn).
THEOREM HarnessFindsUsable == Spec => []HarnessAgrees
<1>1. Inv => HarnessAgrees
  <2>1. ASSUME Inv, NEW s \in Garbage
        PROVE  reasons[s] = 0
    BY <2>1 DEF Inv, ReasonsAreFew, Garbage, Scores
  <2>2. ASSUME Inv, client = "harness", IsServed
        PROVE  /\ Score = "empty" <=> reply.result.content = "nothing"
                                          /\ ~has_tools(reply.result)
               /\ Score = "empty" => reply.result.thinking
    <3>1. reply \in ServedReplies /\ reply # None
      BY <2>2, ServedIsHonest DEF IsServed
    <3>2. reply.surface = "chat"
      BY <2>2, <3>1 DEF Inv, TakesTurns
    <3>3. validate_response(reply.result) = "ok"
      BY <2>2, <3>1, <3>2 DEF Inv, ResultIsValid
    <3>4. reply.is = "served" /\ reply.result \in Generations /\ ExpectsTool \in BOOLEAN
      BY <3>1 DEF ServedReplies, ExpectsTool
    <3>5. Score = score_payload(reply.result, ExpectsTool)
      BY <3>4 DEF Score
    <3>6. QED
      BY <3>3, <3>4, <3>5, HarnessFindsValidUsable
  <2>3. QED
    BY <2>1, <2>2 DEF HarnessAgrees
<1>2. QED
  BY <1>1, Invariance, PTL

\* From one chat to the next the guard leaves out no fewer messages than before, whatever is
\* said in between (chat_completions).
THEOREM ForgottenStaysForgotten == Spec => ForgottenForGood
<1>1. Inv /\ [Next]_vars => [forgotten <= forgotten']_vars
  <2> SUFFICES ASSUME Inv, Next
               PROVE  forgotten <= forgotten'
    BY DEF vars
  <2>1. forgotten \in Nat
    BY DEF Inv, NothingComesBack
  <2>2. CASE forgotten' = forgotten
    BY <2>1, <2>2
  <2>3. ASSUME NEW surface, NEW tools, NEW t \in Seq(Message),
               Chats(surface, tools, messages \o t)
        PROVE  forgotten <= forgotten'
    <3> DEFINE before == LeftOut(messages, deployment.num_ctx, Headroom)
               after == LeftOut(messages \o t, deployment.num_ctx, Headroom)
    <3>1. /\ messages \in Seq(Message) /\ messages \o t \in Seq(Message)
          /\ deployment.num_ctx \in Nat /\ Headroom \in Nat
      BY DeploymentType, Constants, ConcatProperties DEF Inv, Typed
    <3>2. before \in Nat /\ after \in Nat /\ before <= after
      BY <3>1, LeftOutType, WhatIsLeftOutStaysOut
    <3>3. forgotten' = after
      BY <2>3 DEF Chats, Request, LeftOut
    <3>4. forgotten <= before
      BY DEF Inv, NothingComesBack
    <3> HIDE DEF before, after
    <3>5. QED
      BY <2>1, <3>2, <3>3, <3>4
  <2>4. ASSUME NEW surface \in {"chat", "stream"}, NEW tools \in BOOLEAN,
               Chats(surface, tools, messages)
        PROVE  forgotten <= forgotten'
    <3>1. messages \in Seq(Message) /\ <<>> \in Seq(Message) /\ messages \o <<>> = messages
      BY EmptySeq, ConcatEmptySeq DEF Inv, Typed
    <3>2. Chats(surface, tools, messages \o <<>>)
      BY <2>4, <3>1
    <3>3. QED
      BY <2>3, <3>1, <3>2
  <2>5. ASSUME NEW surface \in {"chat", "stream"}, NEW tools \in BOOLEAN, PostChat(surface, tools)
        PROVE  forgotten <= forgotten'
    BY <2>2, <2>4, <2>5 DEF PostChat, IsUnknown, EndsAtOnce
  <2>6. CASE HarnessAsks
    <3>1. CASE Chats("chat", ExpectsTool, messages')
      <4>1. TurnOfHarness \in Seq(Message)
        BY TurnType
      <4>2. Chats("chat", ExpectsTool, messages \o TurnOfHarness)
        BY <2>6, <3>1 DEF HarnessAsks
      <4>3. QED
        BY <2>3, <4>1, <4>2
    <3>2. CASE IsUnknown("chat") \/ EndsAtOnce(Lost("chat"))
      BY <2>2, <3>2 DEF IsUnknown, EndsAtOnce
    <3>3. QED
      BY <2>6, <3>1, <3>2 DEF HarnessAsks
  <2>7. ASSUME request # None, TriesOn \/ \E r : Replies(r)
        PROVE  forgotten' = forgotten
    BY <2>7 DEF TriesOn, Goes, Replies
  <2>8. CASE request # None /\ Answers
    BY <2>2, <2>7, <2>8 DEF Answers, Generate, Stream
  <2>9. CASE PostPrompt
    BY <2>2, <2>9 DEF PostPrompt, IsUnknown, EndsAtOnce
  <2>10. CASE Rejected \/ CallEscapes \/ HarnessGivesUp
    BY <2>2, <2>7, <2>10 DEF Rejected, CallEscapes, HarnessGivesUp
  <2>11. QED
    BY <2>2, <2>5, <2>6, <2>7, <2>8, <2>9, <2>10
    DEF Next, Say, CallFails, HarnessDies, HarnessScores
<1>2. QED
  BY <1>1, Invariance, PTL DEF Spec, ForgottenForGood
==============================================================================
