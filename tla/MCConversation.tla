---------------------------- MODULE MCConversation ----------------------------
EXTENDS Conversation

\* A system message, a user's question, a file or a tool result that is larger than the
\* rest of a conversation, and a tool result that is not.
MCMessages ==
    {Says("system", 1), Says("user", 1), Says("tool", 5), Says("tool", 2)}

\* The openai-dialect backend is injected if its spec does not say otherwise.
MCChain ==
    << [dialect |-> "ollama", injects_num_ctx |-> TRUE],
       [dialect |-> "openai", injects_num_ctx |-> TRUE],
       [dialect |-> "openai", injects_num_ctx |-> FALSE] >>

MCDrifts == {-2, 0, 2}

Draw(content, thinking, tool_calls) ==
    [content |-> content, thinking |-> thinking, tool_calls |-> tool_calls]

\* One generation for every verdict, and those on which the surfaces or the harness differ.
MCDraws ==
    {Draw("words", FALSE, "none"), Draw("nothing", TRUE, "none"), Draw("nothing", FALSE, "none"),
     Draw("claim", FALSE, "parsed"), Draw("words", FALSE, "malformed"),
     Draw("claiming loop", FALSE, "none"), Draw("junk", FALSE, "none"),
     Draw("loop", TRUE, "none")}
==============================================================================
