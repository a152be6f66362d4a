------------------------------- MODULE MCProxy ------------------------------
(***************************************************************************)
(* Instances of Proxy for TLC: OpenAI behind Authorization: Bearer and     *)
(* Anthropic behind x-api-key, as in vibeproxy.yaml.                  *)
(***************************************************************************)
EXTENDS Proxy, TLC

CONSTANTS r1, r2

OneRequest == {r1}
TwoRequests == {r1, r2}
Symmetry == Permutations(Requests)

Providers == [openai |-> "authorization", anthropic |-> "x-api-key"]
Chat == <<"", "v1", "chat">>
Messages == <<"", "v1", "messages">>
Whitelisted == [openai |-> {Chat}, anthropic |-> {Messages}]
\* Of the targets one has a path of its own.
Targets == [openai |-> <<"", "openai", "">>, anthropic |-> <<"">>]
\* One service limited, the other not.
OneLimited == [openai |-> 1, anthropic |-> 0]
BothLimited == [openai |-> 1, anthropic |-> 1]

Input(bearer, apiKey, path) ==
  [tokens |-> ("authorization" :> bearer @@ "x-api-key" :> apiKey), path |-> path,
   method |-> "POST", origin |-> "none", large |-> FALSE]

\* What a client configured for OpenAI sends.
Usual == Input("openai", NoService, Chat)
OneInput == { Usual }

\* Tokens where they belong, in the other provider's header, in both, in none; paths
\* of the service and of the other, below one, and out of it and back.
AllInputs ==
  { Usual,
    Input(NoService, "openai", Chat \o <<"", ".", "..", "chat", "x">>),
    Input("openai", "anthropic", Messages),
    Input("openai", NoService, Chat \o <<"..", "files">>),
    Input(NoService, "anthropic", Chat),
    Input(NoService, NoService, Chat) }

\* Preflights from an origin that is allowed and one that is not, a body that is too
\* large, a path of the gateway.
Universal == <<"", "v1", "universal">>
OfGateway == {Universal}
MoreInputs ==
  AllInputs \cup
  { [Usual EXCEPT !.method = "OPTIONS", !.origin = "ui"],
    [Usual EXCEPT !.method = "OPTIONS", !.origin = "else"],
    [Usual EXCEPT !.large = TRUE],
    [Usual EXCEPT !.path = Universal] }
=============================================================================
