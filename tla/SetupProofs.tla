---------------------------- MODULE SetupProofs ----------------------------
(***************************************************************************)
(* However many inits run, overlap and are killed, whatever is configured: *)
(* if .gitignore did not mention .env without ignoring it to begin with,   *)
(* there is never a .env that git would add.                               *)
(***************************************************************************)
EXTENDS Setup, TLAPS

\* What the substring test of ensureGitignoreEntries takes for granted.
Honest == "mentioned" \notin Gitignores

AfterGitignore == {"load", "stat.env", "create.env", "fill.env"}

\* Whoever is about to append has a line of its own to do it on, and whoever has
\* passed ensureGitignoreEntries has .env in the list; nothing takes it off again.
Listed(k) ==
  /\ at[k] = "append" => gitignore.ended
  /\ at[k] \in AfterGitignore => gitignore.lists

IInv ==
  /\ gitignore \in [lists : BOOLEAN, mentions : BOOLEAN, ended : BOOLEAN]
  /\ DOMAIN at = Cmds
  /\ gitignore.mentions => gitignore.lists
  /\ \A k \in Cmds : Listed(k)
  /\ EnvIsIgnored

LEMMA InitIInv ==
  ASSUME Honest, Init
  PROVE  IInv
<1>1. PICK g \in Gitignores : gitignore = Gitignored[g]
  BY Zenon DEF Init
<1>2. g \in {"absent", "other", "unended", "listed"}
  BY <1>1, GitignoresAssumption DEF Honest
<1>3. /\ gitignore \in [lists : BOOLEAN, mentions : BOOLEAN, ended : BOOLEAN]
      /\ gitignore.mentions => gitignore.lists
  <2>1. \/ gitignore = Ignoring(FALSE, FALSE, TRUE)
        \/ gitignore = Ignoring(FALSE, FALSE, FALSE)
        \/ gitignore = Ignoring(TRUE, TRUE, TRUE)
    <3>1. CASE g = "absent"
      BY <1>1, <3>1 DEF Gitignored
    <3>2. CASE g = "other"
      BY <1>1, <3>2 DEF Gitignored
    <3>3. CASE g = "unended"
      BY <1>1, <3>3 DEF Gitignored
    <3>4. CASE g = "listed"
      BY <1>1, <3>4 DEF Gitignored
    <3> QED  BY <1>2, <3>1, <3>2, <3>3, <3>4
  <2>2. ASSUME NEW a \in BOOLEAN, NEW b \in BOOLEAN, NEW c \in BOOLEAN
        PROVE  /\ Ignoring(a, b, c) \in [lists : BOOLEAN, mentions : BOOLEAN, ended : BOOLEAN]
               /\ Ignoring(a, b, c).lists = a /\ Ignoring(a, b, c).mentions = b
    BY DEF Ignoring
  <2>3. FALSE \in BOOLEAN /\ TRUE \in BOOLEAN
    OBVIOUS
  <2>4. CASE gitignore = Ignoring(FALSE, FALSE, TRUE)
    BY <2>2, <2>3, <2>4, Zenon
  <2>5. CASE gitignore = Ignoring(FALSE, FALSE, FALSE)
    BY <2>2, <2>3, <2>5, Zenon
  <2>6. CASE gitignore = Ignoring(TRUE, TRUE, TRUE)
    BY <2>2, <2>3, <2>6, Zenon
  <2> QED  BY <2>1, <2>4, <2>5, <2>6
<1> QED  BY <1>3 DEF Init, IInv, Listed, AfterGitignore, EnvIsIgnored

\* Steps that neither touch .gitignore nor create .env, and move no init past it.
LEMMA ElsewhereIInv ==
  ASSUME IInv, UNCHANGED <<gitignore, env>>,
         \/ UNCHANGED at
         \/ \E k \in Cmds, l \in {"idle", "stat.yaml", "create.yaml", "fill.yaml",
                                   "read.gitignore", "newline"} : Goto(k, l)
         \/ \E k \in Cmds, l \in AfterGitignore :
              Goto(k, l) /\ (at[k] \in AfterGitignore \/ gitignore.lists)
         \/ \E k \in Cmds : Goto(k, "append") /\ gitignore.ended
  PROVE  IInv'
<1>1. ASSUME NEW k \in Cmds PROVE Listed(k)'
  BY DEF IInv, Listed, Goto, AfterGitignore
<1>2. DOMAIN at' = Cmds
  BY DEF IInv, Goto
<1> QED  BY <1>1, <1>2 DEF IInv, EnvIsIgnored

\* The two steps that write .gitignore.
LEMMA GitignoreIInv ==
  ASSUME IInv, NEW k \in Cmds, Newline(k) \/ AppendEntry(k)
  PROVE  IInv'
<1>1. CASE Newline(k)
  <2>1. /\ gitignore' \in [lists : BOOLEAN, mentions : BOOLEAN, ended : BOOLEAN]
        /\ gitignore'.ended /\ gitignore'.lists = gitignore.lists
        /\ gitignore'.mentions = gitignore.mentions
    BY <1>1 DEF Newline, IInv
  <2>2. DOMAIN at' = Cmds /\ \A j \in Cmds : at'[j] = at[j] \/ at'[j] = "append"
    BY <1>1 DEF Newline, Goto, IInv
  <2> QED  BY <1>1, <2>1, <2>2 DEF Newline, IInv, Listed, AfterGitignore, EnvIsIgnored
<1>2. CASE AppendEntry(k)
  <2>1. gitignore.ended
    BY <1>2 DEF AppendEntry, IInv, Listed
  <2>2. /\ gitignore' \in [lists : BOOLEAN, mentions : BOOLEAN, ended : BOOLEAN]
        /\ gitignore'.ended /\ gitignore'.lists
    BY <1>2, <2>1 DEF AppendEntry, Ignoring, IInv
  <2>3. DOMAIN at' = Cmds
    BY <1>2 DEF AppendEntry, Goto, IInv
  <2> QED  BY <2>2, <2>3 DEF IInv, Listed, EnvIsIgnored
<1> QED  BY <1>1, <1>2

\* The two that write .env come after them.
LEMMA EnvIInv ==
  ASSUME IInv, NEW k \in Cmds, CreateEnv(k) \/ FillEnv(k)
  PROVE  IInv'
<1>1. gitignore.lists /\ UNCHANGED gitignore
  BY DEF CreateEnv, FillEnv, IInv, Listed, AfterGitignore
<1>2. DOMAIN at' = Cmds /\ \A j \in Cmds : at'[j] = at[j] \/ at'[j] \in {"fill.env", "idle"}
  BY DEF CreateEnv, FillEnv, Goto, IInv
<1> QED  BY <1>1, <1>2 DEF IInv, Listed, AfterGitignore, EnvIsIgnored

LEMMA StepIInv == IInv /\ [Next]_vars => IInv'
<1> SUFFICES ASSUME IInv, [Next]_vars PROVE IInv'
  OBVIOUS
<1> USE DEF files, locals, bounds
<1>1. ASSUME NEW k \in Cmds, Invoke(k) \/ Kill(k) PROVE IInv'
  BY <1>1, ElsewhereIInv DEF Invoke, Kill
<1>2. ASSUME NEW k \in Cmds, StatYaml(k) \/ CreateYaml(k) \/ FillYaml(k) PROVE IInv'
  BY <1>2, ElsewhereIInv DEF StatYaml, CreateYaml, FillYaml
<1>3. ASSUME NEW k \in Cmds, ReadGitignore(k) PROVE IInv'
  <2>1. gitignore.mentions => gitignore.lists
    BY DEF IInv
  <2> QED  BY <1>3, <2>1, ElsewhereIInv DEF ReadGitignore, AfterGitignore
<1>4. ASSUME NEW k \in Cmds, Load(k) PROVE IInv'
  BY <1>4, ElsewhereIInv DEF Load, AfterGitignore
<1>5. ASSUME NEW k \in Cmds, StatEnv(k) PROVE IInv'
  BY <1>5, ElsewhereIInv DEF StatEnv, AfterGitignore
<1>6. ASSUME (\E n \in Names : Login(n)) \/ Edit \/ Start \/ Stop \/ UNCHANGED vars
      PROVE  IInv'
  <2>1. UNCHANGED <<gitignore, env, at>>
    BY <1>6 DEF Login, Edit, Start, Stop, vars
  <2> QED  BY <2>1, ElsewhereIInv
<1> QED
  BY <1>1, <1>2, <1>3, <1>4, <1>5, <1>6, GitignoreIInv, EnvIInv DEF Next, InitCmd

\* README.md:119: the .env that `vibe init` writes is one that git ignores.
THEOREM EnvStaysOut ==
  ASSUME Honest
  PROVE  Spec => []EnvIsIgnored
<1>1. Init => IInv
  BY InitIInv
<1>2. IInv => EnvIsIgnored
  BY DEF IInv
<1> QED  BY <1>1, <1>2, StepIInv, PTL DEF Spec

(******************************** types ************************************)
Labels == {"idle", "stat.yaml", "create.yaml", "fill.yaml", "read.gitignore", "newline",
           "append", "load", "stat.env", "create.env", "fill.env"}

\* The types, in the groups the steps change together.  Who fills .env finds a file.
GitignoreTyped == gitignore \in [lists : BOOLEAN, mentions : BOOLEAN, ended : BOOLEAN]
YamlTyped ==
  /\ yaml \in Configs \cup {NoFile}
  /\ server \in {NoFile} \cup {c \in Configs : c.cors # "wildcard"}
EnvTyped ==
  /\ env \in {NoFile} \cup SUBSET Names
  /\ \A k \in Cmds : at[k] = "fill.env" => env \in SUBSET Names
LocalsTyped == at \in [Cmds -> Labels] /\ cfg \in [Cmds -> SUBSET Names]
CountsTyped == edits \in 0..MaxEdits /\ kills \in 0..MaxKills /\ keychain \subseteq Names
HistoryTyped == done \in BOOLEAN /\ trouble \in BOOLEAN
Typed == /\ GitignoreTyped /\ YamlTyped /\ EnvTyped /\ LocalsTyped /\ CountsTyped
         /\ HistoryTyped

LEMMA InitTyped == Init => Typed
<1> SUFFICES ASSUME Init PROVE Typed
  OBVIOUS
<1>1. GitignoreTyped
  <2>1. PICK g \in Gitignores : gitignore = Gitignored[g]
    BY Zenon DEF Init
  <2>2. g \in {"absent", "other", "unended", "listed", "mentioned"}
    BY <2>1, GitignoresAssumption
  <2>3. \E a \in BOOLEAN, b \in BOOLEAN, c \in BOOLEAN : gitignore = Ignoring(a, b, c)
    <3>1. CASE g = "absent"
      BY <2>1, <3>1 DEF Gitignored
    <3>2. CASE g = "other"
      BY <2>1, <3>2 DEF Gitignored
    <3>3. CASE g = "unended"
      BY <2>1, <3>3 DEF Gitignored
    <3>4. CASE g = "listed"
      BY <2>1, <3>4 DEF Gitignored
    <3>5. CASE g = "mentioned"
      BY <2>1, <3>5 DEF Gitignored
    <3> QED  BY <2>2, <3>1, <3>2, <3>3, <3>4, <3>5
  <2> QED  BY <2>3 DEF GitignoreTyped, Ignoring
<1>2. YamlTyped
  BY DEF Init, Configs, YamlTyped
<1>3. EnvTyped /\ LocalsTyped
  BY DEF Init, EnvTyped, LocalsTyped, Labels
<1>4. CountsTyped
  BY BoundsAssumption DEF Init, CountsTyped
<1>5. HistoryTyped
  BY DEF Init, HistoryTyped
<1> QED  BY <1>1, <1>2, <1>3, <1>4, <1>5 DEF Typed

\* viper's lower case names are names.
LEMMA ServicesAreNames ==
  ASSUME NEW c \in Configs
  PROVE  Services(c) \subseteq Names
<1>1. c.services \subseteq Names
  <2>1. Config({}).services = {} /\ Config(Default).services = Default
    BY DEF Config
  <2> QED  BY <2>1, EditsAssumption, NamesAssumption DEF Configs
<1> QED  BY <1>1, LowerAssumption DEF Services

LEMMA InitCmdTyped ==
  ASSUME Typed, NEW k \in Cmds, InitCmd(k)
  PROVE  Typed'
<1> USE DEF Typed, Goto, files, locals, bounds
<1>1. CASE StatYaml(k) \/ ReadGitignore(k)
  <2>1. \E l \in {"create.yaml", "read.gitignore", "load", "append", "newline"} : Goto(k, l)
    BY <1>1 DEF StatYaml, ReadGitignore
  <2>2. LocalsTyped' /\ EnvTyped'
    BY <1>1, <2>1 DEF StatYaml, ReadGitignore, LocalsTyped, EnvTyped, Labels
  <2> QED  BY <1>1, <2>2 DEF StatYaml, ReadGitignore, GitignoreTyped, YamlTyped,
              CountsTyped, HistoryTyped
<1>2. CASE CreateYaml(k) \/ FillYaml(k)
  <2>1. YamlTyped' /\ LocalsTyped' /\ EnvTyped'
    BY <1>2 DEF CreateYaml, FillYaml, YamlTyped, LocalsTyped, EnvTyped, Labels, Configs
  <2> QED  BY <1>2, <2>1 DEF CreateYaml, FillYaml, GitignoreTyped, CountsTyped, HistoryTyped
<1>3. CASE Newline(k) \/ AppendEntry(k)
  <2>1. GitignoreTyped'
    <3>1. CASE Newline(k)
      BY <3>1 DEF Newline, GitignoreTyped
    <3>2. CASE AppendEntry(k)
      <4>1. (gitignore.lists \/ gitignore.ended) \in BOOLEAN /\ TRUE \in BOOLEAN
        OBVIOUS
      <4> QED  BY <3>2, <4>1 DEF AppendEntry, GitignoreTyped, Ignoring
    <3> QED  BY <1>3, <3>1, <3>2
  <2>2. LocalsTyped' /\ EnvTyped'
    BY <1>3 DEF Newline, AppendEntry, LocalsTyped, EnvTyped, Labels
  <2> QED  BY <1>3, <2>1, <2>2 DEF Newline, AppendEntry, YamlTyped, CountsTyped, HistoryTyped
<1>4. CASE Load(k)
  <2>1. Loadable(yaml) => Services(yaml) \subseteq Names
    BY ServicesAreNames DEF Loadable, YamlTyped
  <2>2. LocalsTyped' /\ EnvTyped'
    BY <1>4, <2>1 DEF Load, LocalsTyped, EnvTyped, Labels
  <2> QED  BY <1>4, <2>2 DEF Load, GitignoreTyped, YamlTyped, CountsTyped, HistoryTyped
<1>5. CASE StatEnv(k)
  <2>1. LocalsTyped' /\ EnvTyped'
    BY <1>5 DEF StatEnv, LocalsTyped, EnvTyped, Labels
  <2>2. HistoryTyped'
    BY <1>5, Zenon DEF StatEnv, HistoryTyped
  <2> QED  BY <1>5, <2>1, <2>2 DEF StatEnv, GitignoreTyped, YamlTyped, CountsTyped
<1>6. CASE CreateEnv(k)
  <2>1. LocalsTyped' /\ EnvTyped'
    BY <1>6 DEF CreateEnv, LocalsTyped, EnvTyped, Labels
  <2> QED  BY <1>6, <2>1 DEF CreateEnv, GitignoreTyped, YamlTyped, CountsTyped, HistoryTyped
<1>7. CASE FillEnv(k)
  <2>1. env \in SUBSET Names /\ cfg[k] \in SUBSET Names
    BY <1>7 DEF FillEnv, EnvTyped, LocalsTyped
  <2>2. LocalsTyped' /\ EnvTyped'
    BY <1>7, <2>1 DEF FillEnv, LocalsTyped, EnvTyped, Labels
  <2>3. HistoryTyped'
    BY <1>7, Zenon DEF FillEnv, HistoryTyped
  <2> QED  BY <1>7, <2>2, <2>3 DEF FillEnv, GitignoreTyped, YamlTyped, CountsTyped
<1> QED  BY <1>1, <1>2, <1>3, <1>4, <1>5, <1>6, <1>7 DEF InitCmd

LEMMA StepTyped == Typed /\ [Next]_vars => Typed'
<1> SUFFICES ASSUME Typed, [Next]_vars PROVE Typed'
  OBVIOUS
<1> USE DEF Typed, Goto, files, locals, bounds
<1>1. ASSUME NEW k \in Cmds, Invoke(k) \/ Kill(k) PROVE Typed'
  <2>1. LocalsTyped' /\ EnvTyped'
    BY <1>1 DEF Invoke, Kill, LocalsTyped, EnvTyped, Labels
  <2>2. HistoryTyped'
    <3>1. \/ trouble' = (trouble \/ ~Idle) /\ UNCHANGED done
          \/ trouble' = TRUE /\ UNCHANGED done
      BY <1>1 DEF Invoke, Kill
    <3> QED  BY <3>1, Zenon DEF HistoryTyped
  <2>3. CountsTyped'
    BY <1>1, BoundsAssumption DEF Invoke, Kill, CountsTyped
  <2> QED  BY <1>1, <2>1, <2>2, <2>3 DEF Invoke, Kill, GitignoreTyped, YamlTyped
<1>2. CASE \E n \in Names : Login(n)
  BY <1>2 DEF Login, GitignoreTyped, YamlTyped, EnvTyped, LocalsTyped, CountsTyped, HistoryTyped
<1>3. CASE Edit
  <2>1. YamlTyped' /\ CountsTyped'
    BY <1>3, BoundsAssumption DEF Edit, YamlTyped, CountsTyped, Configs
  <2>2. HistoryTyped'
    <3>1. trouble' = (trouble \/ env # NoFile) /\ UNCHANGED done
      BY <1>3 DEF Edit
    <3> QED  BY <3>1, Zenon DEF HistoryTyped
  <2> QED  BY <1>3, <2>1, <2>2 DEF Edit, GitignoreTyped, EnvTyped, LocalsTyped
<1>4. CASE Start \/ Stop
  <2>1. YamlTyped'
    BY <1>4 DEF Start, Stop, Loadable, YamlTyped
  <2> QED  BY <1>4, <2>1 DEF Start, Stop, GitignoreTyped, EnvTyped, LocalsTyped, CountsTyped,
              HistoryTyped
<1>5. CASE UNCHANGED vars
  BY <1>5 DEF vars, GitignoreTyped, YamlTyped, EnvTyped, LocalsTyped, CountsTyped, HistoryTyped
<1> QED  BY <1>1, <1>2, <1>3, <1>4, <1>5, InitCmdTyped DEF Next

LEMMA AlwaysTyped == Spec => []Typed
BY InitTyped, StepTyped, PTL DEF Spec

\* Each variable keeps its type, and no server runs with a wildcard origin.
THEOREM TypeCorrect == Spec => []TypeOK
<1>1. Typed => TypeOK
  BY DEF Typed, GitignoreTyped, YamlTyped, EnvTyped, LocalsTyped, CountsTyped, HistoryTyped,
         Labels, TypeOK
<1> QED  BY <1>1, AlwaysTyped, PTL

(******************************** agents ***********************************)
Writing == {"create.yaml", "fill.yaml"}
Finding == {"create.env", "fill.env"}

\* One init at most is under way, and what it has loaded is what is configured.
Alone ==
  /\ \A j, k \in Cmds : at[j] # "idle" /\ at[k] # "idle" => j = k
  /\ \A k \in Cmds : at[k] \in Finding \cup {"stat.env"} =>
       yaml # NoFile /\ cfg[k] = Services(yaml)

\* .env, once it is filled, has a token for every configured service; an init that
\* writes vibeproxy.yaml has found no .env, and one that writes .env has not found it.
Filled ==
  /\ env # NoFile => yaml # NoFile /\ \A k \in Cmds : at[k] \notin Writing \cup {"create.env"}
  /\ env # NoFile /\ (\A k \in Cmds : at[k] # "fill.env") => Services(yaml) \subseteq env
  /\ done => env # NoFile /\ \A k \in Cmds : at[k] \notin Finding

Started == server # NoFile => server.backend \in {"", "keychain", "env"}

Agreed == (~trouble => Alone /\ Filled) /\ Started

LEMMA InitAgreed == Init => Agreed
BY DEF Init, Agreed, Alone, Filled, Started, Writing, Finding

\* A step of an init that has seen no trouble: all others rest.
LEMMA InitCmdAgreed ==
  ASSUME Typed, Agreed, NEW k \in Cmds, InitCmd(k), ~trouble
  PROVE  Alone' /\ Filled'
<1> USE DEF files, locals, bounds
<1>1. /\ at[k] # "idle" /\ DOMAIN at = Cmds /\ DOMAIN cfg = Cmds
      /\ \A j \in Cmds : j # k => at[j] = "idle"
      /\ Alone /\ Filled
  BY DEF InitCmd, StatYaml, CreateYaml, FillYaml, ReadGitignore, Newline, AppendEntry, Load,
         StatEnv, CreateEnv, FillEnv, Agreed, Alone, Typed, LocalsTyped
<1>2. \E l \in Labels : at' = [at EXCEPT ![k] = l]
  BY DEF InitCmd, StatYaml, CreateYaml, FillYaml, ReadGitignore, Newline, AppendEntry, Load,
         StatEnv, CreateEnv, FillEnv, Goto, Labels
<1>3. \A j \in Cmds : j # k => at'[j] = "idle"
  BY <1>1, <1>2
<1>4. CASE StatYaml(k)
  <2>1. at'[k] = IF yaml = NoFile THEN "create.yaml" ELSE "read.gitignore"
    BY <1>1, <1>4 DEF StatYaml, Goto
  <2> QED  BY <1>1, <1>3, <1>4, <2>1 DEF StatYaml, Alone, Filled, Writing, Finding
<1>5. CASE CreateYaml(k) \/ FillYaml(k)
  <2>1. at'[k] \in {"fill.yaml", "read.gitignore"} /\ env = NoFile /\ UNCHANGED env
    BY <1>1, <1>5 DEF CreateYaml, FillYaml, Goto, Filled, Writing
  <2> QED  BY <1>1, <1>3, <1>5, <2>1 DEF CreateYaml, FillYaml, Alone, Filled, Writing, Finding
<1>6. CASE ReadGitignore(k) \/ Newline(k) \/ AppendEntry(k)
  <2>1. at'[k] \in {"load", "append", "newline"} /\ at[k] # "fill.env"
    BY <1>1, <1>6 DEF ReadGitignore, Newline, AppendEntry, Goto
  <2>2. UNCHANGED <<yaml, env, done, cfg>>
    BY <1>6 DEF ReadGitignore, Newline, AppendEntry
  <2> QED  BY <1>1, <1>3, <2>1, <2>2 DEF Alone, Filled, Writing, Finding, Services
<1>7. CASE Load(k)
  <2>1. \/ at'[k] = "idle"
        \/ at'[k] = "stat.env" /\ yaml # NoFile /\ cfg'[k] = Services(yaml)
    BY <1>1, <1>7 DEF Load, Goto, Loadable
  <2>2. UNCHANGED <<yaml, env, done>> /\ at[k] = "load"
    BY <1>7 DEF Load
  <2> QED  BY <1>1, <1>3, <2>1, <2>2 DEF Alone, Filled, Writing, Finding, Services
<1>8. CASE StatEnv(k)
  <2>1. \/ at'[k] = "create.env" /\ env = NoFile /\ UNCHANGED done
        \/ at'[k] = "idle" /\ env # NoFile
    BY <1>1, <1>8 DEF StatEnv, Goto
  <2>2. UNCHANGED <<yaml, env, cfg>> /\ at[k] = "stat.env"
    BY <1>8 DEF StatEnv
  <2> QED  BY <1>1, <1>3, <2>1, <2>2 DEF Alone, Filled, Writing, Finding, Services
<1>9. CASE CreateEnv(k)
  <2>1. at'[k] = "fill.env" /\ at[k] = "create.env" /\ UNCHANGED <<yaml, cfg, done>>
    BY <1>1, <1>9 DEF CreateEnv, Goto
  <2> QED  BY <1>1, <1>3, <2>1 DEF Alone, Filled, Writing, Finding, Services
<1>10. CASE FillEnv(k)
  <2>1. /\ at'[k] = "idle" /\ at[k] = "fill.env" /\ UNCHANGED <<yaml, cfg>>
        /\ env' = env \cup cfg[k]
    BY <1>1, <1>10 DEF FillEnv, Goto
  <2>2. cfg[k] = Services(yaml) /\ yaml # NoFile
    BY <1>1, <2>1 DEF Alone, Finding
  <2>3. env' # NoFile
    BY <2>1, NoFileAssumption DEF Typed, EnvTyped, LocalsTyped
  <2> QED  BY <1>1, <1>3, <2>1, <2>2, <2>3 DEF Alone, Filled, Writing, Finding, Services
<1> QED  BY <1>4, <1>5, <1>6, <1>7, <1>8, <1>9, <1>10 DEF InitCmd

LEMMA StepAgreed == Typed /\ Agreed /\ [Next]_vars => Agreed'
<1> SUFFICES ASSUME Typed, Agreed, [Next]_vars PROVE Agreed'
  OBVIOUS
<1> USE DEF files, locals, bounds
<1>1. ASSUME NEW k \in Cmds, InitCmd(k) PROVE Agreed'
  <2>1. UNCHANGED <<trouble, server>>
    BY <1>1 DEF InitCmd, StatYaml, CreateYaml, FillYaml, ReadGitignore, Newline, AppendEntry,
                Load, StatEnv, CreateEnv, FillEnv
  <2> QED  BY <1>1, <2>1, InitCmdAgreed DEF Agreed, Started
<1>2. ASSUME NEW k \in Cmds, Invoke(k) PROVE Agreed'
  <2>1. ASSUME ~trouble'
        PROVE  /\ ~trouble /\ at' = [at EXCEPT ![k] = "stat.yaml"]
               /\ \A j \in Cmds : at[j] = "idle"
    BY <1>2, <2>1 DEF Invoke, Idle, Goto
  <2>2. UNCHANGED <<yaml, env, cfg, done, server>>
    BY <1>2 DEF Invoke
  <2>3. ASSUME ~trouble' PROVE Alone' /\ Filled'
    <3>1. \A j \in Cmds : at'[j] = IF j = k THEN "stat.yaml" ELSE "idle"
      BY <2>1, <2>3 DEF Typed, LocalsTyped
    <3> QED  BY <2>1, <2>2, <2>3, <3>1 DEF Agreed, Alone, Filled, Writing, Finding, Services
  <2> QED  BY <2>2, <2>3 DEF Agreed, Started
<1>3. ASSUME NEW k \in Cmds, Kill(k) PROVE Agreed'
  BY <1>3 DEF Kill, Agreed, Started
<1>4. CASE Edit
  <2>1. ASSUME ~trouble' PROVE ~trouble /\ env = NoFile
    BY <1>4, <2>1 DEF Edit
  <2>2. Idle /\ UNCHANGED <<env, cfg, at, done, server>>
    BY <1>4 DEF Edit
  <2>3. ASSUME ~trouble' PROVE Alone' /\ Filled'
    BY <2>1, <2>2, <2>3 DEF Idle, Agreed, Alone, Filled, Writing, Finding
  <2> QED  BY <2>2, <2>3 DEF Agreed, Started
<1>5. CASE Start \/ Stop \/ (\E n \in Names : Login(n)) \/ UNCHANGED vars
  <2>1. UNCHANGED <<yaml, env, cfg, at, done, trouble>>
    BY <1>5 DEF Start, Stop, Login, vars
  <2>2. Started'
    BY <1>5 DEF Start, Stop, Login, vars, Agreed, Started
  <2>3. Alone => Alone'
    BY <2>1 DEF Alone, Services
  <2>4. Filled => Filled'
    BY <2>1 DEF Filled, Services
  <2> QED  BY <2>1, <2>2, <2>3, <2>4 DEF Agreed
<1> QED  BY <1>1, <1>2, <1>3, <1>4, <1>5 DEF Next

\* After an undisturbed init, a login and a start every service has a token in .env, and
\* an agent that takes it from there is served if a token can carry the name, and refused
\* if not, whatever else was done before.  The key is one of the keychain, stored under
\* the folded name.
THEOREM AgentsAreServed == Spec => []AgentIsServed
<1>1. ASSUME Typed, Agreed, done, ~trouble, server # NoFile, server = yaml,
             NEW n \in Services(server)
      PROVE  /\ n \in env
             /\ n \in keychain /\ server.backend # "env" =>
                  Answer(n) = IF n \in Safe THEN 200 ELSE 401
  <2>1. n \in env
    BY <1>1 DEF Agreed, Filled, Finding
  <2>2. server.backend # "env" => New(server.backend) = keychain
    BY <1>1 DEF Agreed, Started, New
  <2> QED  BY <1>1, <2>1, <2>2 DEF Answer
<1>2. Typed /\ Agreed => AgentIsServed
  BY <1>1 DEF AgentIsServed
<1> QED  BY <1>2, AlwaysTyped, InitAgreed, StepAgreed, PTL DEF Spec
=============================================================================
