------------------------------ MODULE Validation ------------------------------
(***************************************************************************)
(* validate_response of app/resilience.py, and what scripts/               *)
(* reliability_loop.py makes of the same verdicts.  Of the text of a reply *)
(* only its class matters:                                                 *)
(*   nothing       none, or only white space                               *)
(*   words         an ordinary answer, a short one such as "42" included   *)
(*   claim         "I have filed the issue": an action is claimed          *)
(*   junk          one to three characters, none of them alphanumeric      *)
(*   loop          one token or line over and over                         *)
(*   claiming loop a line over and over that claims an action              *)
(* and of its tool calls whether there are any and all of their arguments  *)
(* parse.                                                                  *)
(***************************************************************************)
EXTENDS SequencesExt

Contents == {"nothing", "words", "claim", "junk", "loop", "claiming loop"}
ToolCalls == {"none", "parsed", "malformed"}

\* A generation, as far as it is looked at.
Generations == [content : Contents, thinking : BOOLEAN, tool_calls : ToolCalls]

has_tools(result) == result.tool_calls # "none"

\* verify_action_claim: an action is claimed without a tool call to show for it.
Ungrounded(result) == result.content \in {"claim", "claiming loop"} /\ ~has_tools(result)

\* _is_degenerate_repetition.
Degenerate(result) == result.content \in {"loop", "claiming loop"}

\* The verdicts of validate_response in the order it comes to them.
Verdicts(result) ==
    << [reason |-> "empty",
        holds  |-> result.content = "nothing" /\ ~has_tools(result) /\ ~result.thinking],
       [reason |-> "malformed_toolcall", holds |-> result.tool_calls = "malformed"],
       [reason |-> "ungrounded_action_claim", holds |-> Ungrounded(result)],
       [reason |-> "truncation_garbage", holds |-> ~has_tools(result) /\ result.content = "junk"],
       [reason |-> "repetition", holds |-> Degenerate(result)],
       [reason |-> "ok", holds |-> TRUE] >>

\* The first verdict that holds, "ok" if no other does.
validate_response(result) ==
    LET verdicts == Verdicts(result)
    IN  verdicts[SelectInSeq(verdicts, LAMBDA verdict : verdict.holds)].reason

\* _to_result: the harness reads a reply back, without its reasoning_content.
to_result(reply) ==
    [content |-> reply.content, thinking |-> FALSE, tool_calls |-> reply.tool_calls]

\* score_payload: usable, and with the tool call that the turn calls for.
score_payload(reply, expect_tool) ==
    LET result == to_result(reply)
        reason == validate_response(result)
    IN  IF reason = "ok" /\ expect_tool /\ ~has_tools(result) THEN "missed_toolcall" ELSE reason
==============================================================================
