------------------------------- MODULE MCSetup -------------------------------
(* Instances of Setup for TLC. *)
EXTENDS Setup, TLC

CONSTANTS k1, k2

TwoTerminals == {k1, k2}
OneTerminal == {k1}
Symmetry == Permutations(Cmds)

AllNames == {"openai", "OpenAI", "anthropic", "my_api", "groq"}
SafeNames == {"openai", "anthropic", "groq"}
LowerCase == [n \in AllNames |-> IF n = "OpenAI" THEN "openai" ELSE n]

\* Besides the default: a name in capitals and one that no token can carry, keys from
\* the environment, a provider that does not exist, origins init and start refuse.
Written(services, backend, cors) ==
  [services |-> services, backend |-> backend, cors |-> cors]
AllEdits ==
  { Written({"OpenAI", "my_api", "groq"}, "", "listed"), Written({"openai"}, "env", "off"),
    Written({"anthropic"}, "vault", "off"), Written({"openai"}, "", "wildcard") }
=============================================================================
