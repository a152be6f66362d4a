SPECIFICATION Spec
CONSTANTS
  k1 = k1
  k2 = k2
  NoFile = NoFile
  Cmds <- OneTerminal
  Names <- AllNames
  Lower <- LowerCase
  Safe <- SafeNames
  Default = {"openai", "anthropic"}
  Edits <- AllEdits
  Gitignores = {"mentioned"}
  Environ = {"openai"}
  MaxEdits = 1
  MaxKills = 1
INVARIANTS EnvIsIgnored
