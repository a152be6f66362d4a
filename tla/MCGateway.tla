------------------------------ MODULE MCGateway -----------------------------
(***************************************************************************)
(* Instances of Gateway for TLC: the two services with a translator, and a *)
(* third that a model prefix names although it has none.                   *)
(***************************************************************************)
EXTENDS Gateway

CONSTANTS r1, r2

OneRequest == {r1}
TwoRequests == {r1, r2}

OneLimited == [s \in Services |-> IF s = "openai" THEN 1 ELSE 0]

Says(role, text) == [role |-> role, content |-> <<text>>]
Conversation == <<Says("user", "q1"), Says("system", "be brief"), Says("assistant", "a1"),
                  Says("user", "q2")>>

Input(bearer, apiKey, routes, stream) ==
  [method |-> "POST", bearer |-> bearer, apiKey |-> apiKey, valid |-> TRUE,
   routes |-> routes, stream |-> stream, messages |-> Conversation]
Good(routes, stream) == Input("vibe", "none", routes, stream)

AllInputs ==
  { Good({"openai"}, FALSE), Good({"anthropic"}, TRUE),
    Good({"openai", "other"}, FALSE),        \* overlapping model prefixes
    Good({"missing"}, FALSE),                \* a prefix of no configured service
    Good({}, FALSE),
    Input("none", "vibe", {"openai"}, TRUE),
    Input("malformed", "vibe", {"openai"}, FALSE),
    Input("none", "none", {"openai"}, FALSE),
    [Good({"openai"}, FALSE) EXCEPT !.method = "GET"],
    [Good({"openai"}, FALSE) EXCEPT !.valid = FALSE] }

OneStream == { Good({"anthropic"}, TRUE) }

\* Anthropic's answer is a text, a call of a tool, and more text, cut off by max_tokens.
Block(type, text) == [type |-> type, text |-> text]
CutShort ==
  [id |-> "msg", stop_reason |-> "max_tokens",
   content |-> <<Block("text", <<"a">>), Block("tool_use", <<"json">>), Block("text", <<"b">>)>>]

AllAnswers ==
  [s \in Services |-> IF s = "anthropic" THEN {CutShort}
                      ELSE {[id |-> "cmpl", content |-> <<"a">>, finish |-> "stop"]}]
=============================================================================
