SPECIFICATION Spec
CONSTANTS
  k1 = k1
  k2 = k2
  NoFile = NoFile
  Cmds <- TwoTerminals
  Names <- AllNames
  Lower <- LowerCase
  Safe <- SafeNames
  Default = {"openai", "anthropic"}
  Edits <- AllEdits
  Gitignores = {"absent", "other", "unended", "listed"}
  Environ = {"openai"}
  MaxEdits = 1
  MaxKills = 1
SYMMETRY Symmetry
INVARIANTS TypeOK EnvIsIgnored AgentIsServed
