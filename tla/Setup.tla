-------------------------------- MODULE Setup --------------------------------
(***************************************************************************)
(* How a project comes to its proxy: `vibe init` writes vibeproxy.yaml,    *)
(* .gitignore and .env (cmd/init.go), `vibe auth login` stores a key,      *)
(* people edit the configuration, a server loads it (internal/config,      *)
(* internal/secret), and agents use the tokens of .env.                    *)
(*                                                                         *)
(* os.WriteFile creates a file before it fills it: an init may be killed,  *)
(* and others run, between any two of its system calls.                    *)
(***************************************************************************)
EXTENDS Integers, FiniteSets

CONSTANTS
  Cmds,         \* terminals in which init is run
  Names,        \* names of services, as a config spells them
  Lower,        \* Lower[n]: n in lower case
  Safe,         \* the names made of a-z, 0-9 and hyphens
  Default,      \* the services of defaultYAML
  Edits,        \* configurations people write: [services, backend, cors]
  Gitignores,   \* what .gitignore may be to begin with
  Environ,      \* services with a VIBEPROXY_SECRET_ variable
  NoFile,       \* an absent file; no server
  MaxEdits,     \* bound: edits of the configuration
  MaxKills      \* bound: inits that are killed

ASSUME LowerAssumption   == Lower \in [Names -> Names]
ASSUME NamesAssumption   == Safe \subseteq Names /\ Default \subseteq Safe
ASSUME EditsAssumption   == \A e \in Edits :
  /\ e.services \subseteq Names
  /\ e.backend \in {"", "env", "vault"} /\ e.cors \in {"off", "listed", "wildcard"}
ASSUME GitignoresAssumption ==
  Gitignores \subseteq {"absent", "other", "unended", "listed", "mentioned"}
ASSUME NoFileAssumption  == \A names \in SUBSET Names : names # NoFile
ASSUME BoundsAssumption  == MaxEdits \in Nat /\ MaxKills \in Nat

VARIABLES
  yaml,         \* vibeproxy.yaml
  gitignore,    \* .gitignore: a line of it ignores .env; ".env" occurs in it; it
                \* ends in a newline
  env,          \* .env: the services it has tokens of
  keychain,     \* the names under which keys are stored
  server,       \* the configuration the server runs on
  at,           \* at[k]: what the init in k does next
  cfg,          \* cfg[k]: the services it has loaded
  edits, kills, \* how many there have been
  done,         \* history: an init has said "Done!"
  trouble       \* history: an init was killed, two overlapped, or the configuration
                \* was edited after .env had been written

files == <<yaml, gitignore, env>>
locals == <<at, cfg>>
bounds == <<edits, kills>>
vars == <<files, keychain, server, locals, bounds, done, trouble>>

Ignoring(lists, mentions, ended) ==
  [lists |-> lists, mentions |-> mentions, ended |-> ended]
Gitignored ==
  [absent |-> Ignoring(FALSE, FALSE, TRUE), other |-> Ignoring(FALSE, FALSE, TRUE),
   unended |-> Ignoring(FALSE, FALSE, FALSE), listed |-> Ignoring(TRUE, TRUE, TRUE),
   mentioned |-> Ignoring(FALSE, TRUE, TRUE)]

Config(services) == [services |-> services, backend |-> "", cors |-> "off"]

Idle == \A k \in Cmds : at[k] = "idle"

Init ==
  /\ yaml \in Edits \cup {NoFile}
  /\ gitignore \in {Gitignored[g] : g \in Gitignores}
  /\ env = NoFile
  /\ keychain = {}
  /\ server = NoFile
  /\ at = [k \in Cmds |-> "idle"]
  /\ cfg = [k \in Cmds |-> {}]
  /\ edits = 0 /\ kills = 0
  /\ done = FALSE /\ trouble = FALSE

(************************* the configuration *******************************)
\* viper folds keys to lower case.
Services(c) == {Lower[n] : n \in c.services}

LoadableUnchecked(c) == c # NoFile                              \* mutant
\* config.Load: an empty file is as good as any, a wildcard origin is refused.
Loadable(c) == c # NoFile /\ c.cors # "wildcard"

\* secret.New: the names under which the provider has a key.
New(backend) ==
  CASE backend \in {"", "keychain"} -> keychain
    [] backend = "env" -> Environ
    [] OTHER -> {}

(****************************** vibe init **********************************)
Goto(k, label) == at' = [at EXCEPT ![k] = label]

Invoke(k) ==
  /\ at[k] = "idle"
  /\ Goto(k, "stat.yaml")
  /\ trouble' = (trouble \/ ~Idle)
  /\ UNCHANGED <<files, keychain, server, cfg, bounds, done>>

StatYaml(k) ==
  /\ at[k] = "stat.yaml"
  /\ Goto(k, IF yaml = NoFile THEN "create.yaml" ELSE "read.gitignore")
  /\ UNCHANGED <<files, keychain, server, cfg, bounds, done, trouble>>

\* os.WriteFile: opened with O_CREATE and O_TRUNC, then written.
CreateYaml(k) ==
  /\ at[k] = "create.yaml"
  /\ yaml' = Config({})
  /\ Goto(k, "fill.yaml")
  /\ UNCHANGED <<gitignore, env, keychain, server, cfg, bounds, done, trouble>>

FillYaml(k) ==
  /\ at[k] = "fill.yaml"
  /\ yaml' = Config(Default)
  /\ Goto(k, "read.gitignore")
  /\ UNCHANGED <<gitignore, env, keychain, server, cfg, bounds, done, trouble>>

\* ensureGitignoreEntries: what contains ".env" anywhere is left as it is.
ReadGitignore(k) ==
  /\ at[k] = "read.gitignore"
  /\ Goto(k, IF gitignore.mentions THEN "load"
             ELSE IF gitignore.ended THEN "append" ELSE "newline")
  /\ UNCHANGED <<files, keychain, server, cfg, bounds, done, trouble>>

NoNewline(k) ==                                                 \* mutant
  /\ at[k] = "newline"
  /\ Goto(k, "append")
  /\ UNCHANGED <<files, keychain, server, cfg, bounds, done, trouble>>

Newline(k) ==
  /\ at[k] = "newline"
  /\ gitignore' = [gitignore EXCEPT !.ended = TRUE]
  /\ Goto(k, "append")
  /\ UNCHANGED <<yaml, env, keychain, server, cfg, bounds, done, trouble>>

\* After an unended line the entry would only make that line longer.
AppendEntry(k) ==
  /\ at[k] = "append"
  /\ gitignore' = Ignoring(gitignore.lists \/ gitignore.ended, TRUE, TRUE)
  /\ Goto(k, "load")
  /\ UNCHANGED <<yaml, env, keychain, server, cfg, bounds, done, trouble>>

Load(k) ==
  /\ at[k] = "load"
  /\ IF Loadable(yaml)
       THEN cfg' = [cfg EXCEPT ![k] = Services(yaml)] /\ Goto(k, "stat.env")
       ELSE Goto(k, "idle") /\ UNCHANGED cfg
  /\ UNCHANGED <<files, keychain, server, bounds, done, trouble>>

\* A .env that exists is left as it is, whatever it holds.
StatEnv(k) ==
  /\ at[k] = "stat.env"
  /\ \/ env = NoFile /\ Goto(k, "create.env") /\ UNCHANGED done
     \/ env # NoFile /\ Goto(k, "idle") /\ done' = TRUE
  /\ UNCHANGED <<files, keychain, server, cfg, bounds, trouble>>

CreateEnv(k) ==
  /\ at[k] = "create.env"
  /\ env' = {}
  /\ Goto(k, "fill.env")
  /\ UNCHANGED <<yaml, gitignore, keychain, server, cfg, bounds, done, trouble>>

FillEnvWithDefaults(k) ==                                       \* mutant
  /\ at[k] = "fill.env"
  /\ env' = env \cup Default
  /\ Goto(k, "idle")
  /\ done' = TRUE
  /\ UNCHANGED <<yaml, gitignore, keychain, server, cfg, bounds, trouble>>

\* writeEnvFromConfig.  Two inits that fill it at once write the same first lines;
\* the longer one's remain.
FillEnv(k) ==
  /\ at[k] = "fill.env"
  /\ env' = env \cup cfg[k]
  /\ Goto(k, "idle")
  /\ done' = TRUE
  /\ UNCHANGED <<yaml, gitignore, keychain, server, cfg, bounds, trouble>>

InitCmd(k) ==
  \/ StatYaml(k)
  \/ CreateYaml(k)
  \/ FillYaml(k)
  \/ ReadGitignore(k)
  \/ Newline(k)
  \/ AppendEntry(k)
  \/ Load(k)
  \/ StatEnv(k)
  \/ CreateEnv(k)
  \/ FillEnv(k)

Kill(k) ==
  /\ at[k] # "idle" /\ kills < MaxKills
  /\ kills' = kills + 1
  /\ Goto(k, "idle")
  /\ trouble' = TRUE
  /\ UNCHANGED <<files, keychain, server, cfg, edits, done>>

(************************ login, edits, the server *************************)
\* `vibe auth login`: secret.New(""), whatever the configuration's backend is, and
\* the name as it is typed.
Login(n) ==
  /\ n \notin keychain
  /\ keychain' = keychain \cup {n}
  /\ UNCHANGED <<files, server, locals, bounds, done, trouble>>

\* Nobody edits a file that an init is writing.
Edit ==
  /\ Idle /\ edits < MaxEdits
  /\ yaml' \in Edits
  /\ edits' = edits + 1
  /\ trouble' = (trouble \/ env # NoFile)
  /\ UNCHANGED <<gitignore, env, keychain, server, locals, kills, done>>

\* runForeground: Load and secret.New, once; the server keeps what it has read.
Start ==
  /\ server = NoFile
  /\ Loadable(yaml) /\ yaml.backend \in {"", "keychain", "env"}
  /\ server' = yaml
  /\ UNCHANGED <<files, keychain, locals, bounds, done, trouble>>

Stop ==
  /\ server # NoFile
  /\ server' = NoFile
  /\ UNCHANGED <<files, keychain, locals, bounds, done, trouble>>

Next ==
  \/ \E k \in Cmds : Invoke(k) \/ InitCmd(k) \/ Kill(k)
  \/ \E n \in Names : Login(n)
  \/ Edit \/ Start \/ Stop

Spec == Init /\ [][Next]_vars

(******************************* properties ********************************)
\* What a server answers to the token of n: the router knows the services of its
\* configuration, if their names are safe, and then a key is asked for.
Answer(n) ==
  IF n \notin Safe \cap Services(server) THEN 401
  ELSE IF n \notin New(server.backend) THEN 500 ELSE 200

Configs == Edits \cup {Config({}), Config(Default)}

\* The values each variable takes.  A server never runs with a wildcard origin
\* (config.go:70).
TypeOK ==
  /\ yaml \in Configs \cup {NoFile}
  /\ gitignore \in [lists : BOOLEAN, mentions : BOOLEAN, ended : BOOLEAN]
  /\ env \in {NoFile} \cup SUBSET Names
  /\ keychain \subseteq Names
  /\ server \in {NoFile} \cup {c \in Configs : c.cors # "wildcard"}
  /\ at \in [Cmds -> {"idle", "stat.yaml", "create.yaml", "fill.yaml", "read.gitignore",
                      "newline", "append", "load", "stat.env", "create.env", "fill.env"}]
  /\ cfg \in [Cmds -> SUBSET Names]
  /\ edits \in 0..MaxEdits /\ kills \in 0..MaxKills
  /\ done \in BOOLEAN /\ trouble \in BOOLEAN

\* README.md:119, ".env (agent reference, gitignored)": there is no .env that git
\* would commit, not for a moment, however often init is killed or run at once.
EnvIsIgnored == env # NoFile => gitignore.lists

\* The steps of the README work together: init says "Done!", a key is stored for a
\* service, a server is started; then .env has a token of every service, and an agent
\* that takes it from there is served.  The exceptions: a name with other characters than
\* a-z, 0-9 and hyphens, whose token init writes and the router always refuses
\* (token.go:38); a key stored under another spelling than the folded one, or to come
\* from the environment; an edit after .env was written (init.go:99), an init that is
\* killed (init.go:76) and two that overlap, after which nothing is said here.
AgentIsServed ==
  done /\ ~trouble /\ server # NoFile /\ server = yaml =>
    \A n \in Services(server) :
      /\ n \in env
      /\ n \in keychain /\ server.backend # "env" =>
           Answer(n) = IF n \in Safe THEN 200 ELSE 401
=============================================================================
