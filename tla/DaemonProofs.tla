----------------------------- MODULE DaemonProofs ---------------------------
(***************************************************************************)
(* Two conditions under which there is one server, the PID file names it   *)
(* and the socket leads to it, for any number of terminals and processes:  *)
(* no server fails or is told to stop (what O_EXCL achieves), or commands  *)
(* are typed one at a time, whatever fails.                                *)
(***************************************************************************)
EXTENDS Daemon, TLAPS

(******************************* types *************************************)
FileTypes ==
  /\ pidFile \in Pids \cup {NoPid} /\ written \in BOOLEAN /\ (written => pidFile # NoPid)
  /\ mode \in Modes /\ sock \in Pids \cup {NoPid}

ServerTypes ==
  /\ proc \in [Pids -> Running \cup {"none"}]
  /\ lstn \in [Pids -> {"none", "called", "cleared", "open"}]
  /\ \A p \in Pids : lstn[p] = "open" => proc[p] = "serving"
  /\ term \in [Pids -> BOOLEAN] /\ job \in Pids \cup {NoPid}

CommandTypes ==
  /\ cmd \in [Cmds -> Programs \cup {"none"}] /\ at \in [Cmds -> Labels]
  /\ seen \in [Cmds -> Pids \cup {NoPid}]

LaunchdTypes == failures \in 0..MaxFailures /\ plist \in BOOLEAN /\ loaded \in BOOLEAN

LEMMA TypesAre == TypeOK <=> FileTypes /\ ServerTypes /\ CommandTypes /\ LaunchdTypes
BY DEF TypeOK, FileTypes, ServerTypes, CommandTypes, LaunchdTypes

LEMMA InitTypeOK == Init => TypeOK
<1> SUFFICES ASSUME Init PROVE TypeOK
  OBVIOUS
<1>1. FileTypes /\ ServerTypes
  BY DEF Init, FileTypes, ServerTypes
<1>2. CommandTypes /\ LaunchdTypes
  BY FailuresAssumption, FlagsAssumption DEF Init, CommandTypes, LaunchdTypes, Labels
<1> QED  BY <1>1, <1>2, TypesAre

\* What ends a process, or signals it, keeps the servers' types, whatever p is.
LEMMA DiesTypes ==
  ASSUME ServerTypes, NEW p, Dies(p) \/ Deliver(p)
  PROVE  ServerTypes'
BY DEF ServerTypes, Dies, Deliver

LEMMA SpawnTypes ==
  ASSUME ServerTypes, NEW p \in Pids, Spawn(p), job' \in {job, p}
  PROVE  ServerTypes'
BY DEF ServerTypes, Spawn, Free, Alive, Running

LEMMA ServerTypeOK ==
  ASSUME TypeOK, NEW p \in Pids, Server(p) \/ Fail(p) \/ Crash(p) \/ KeepAlive(p)
  PROVE  TypeOK'
<1>0. FileTypes /\ ServerTypes /\ CommandTypes /\ LaunchdTypes
  BY TypesAre
<1>1. CommandTypes' /\ LaunchdTypes'
  <2>1. UNCHANGED <<cmd, at, seen, plist, loaded>> /\ (UNCHANGED failures \/ Failed(p))
    BY DEF Server, CreateFile, WriteFile, Notify, ListenTCP, ClearSocket, Bind, Shutdown,
       Unlink, Exit, Fail, Crash, KeepAlive, cmds, launchd
  <2> QED  BY <1>0, <2>1, FailuresAssumption DEF CommandTypes, LaunchdTypes, Failed
<1>2. FileTypes'
  <2>1. UNCHANGED mode /\ sock' \in {sock, NoPid, p}
    BY DEF Server, CreateFile, WriteFile, Notify, ListenTCP, ClearSocket, Bind, Shutdown,
       Unlink, Exit, Fail, Crash, KeepAlive
  <2>2. \/ UNCHANGED file
        \/ pidFile' = p /\ written' = FALSE
        \/ RemovePID
        \/ UNCHANGED pidFile /\ written' = (written \/ pidFile = p)
    BY DEF file, Server, CreateFile, WriteFile, Notify, ListenTCP, ClearSocket, Bind, Shutdown,
       Unlink, Exit, Fail, Crash, KeepAlive
  <2>3. pidFile' \in Pids \cup {NoPid}
    BY <1>0, <2>2 DEF FileTypes, file, RemovePID
  <2>4. written' \in BOOLEAN /\ (written' => pidFile' # NoPid)
    <3>1. p # NoPid
      BY NoPidAssumption
    <3>2. written \in BOOLEAN /\ (written => pidFile # NoPid)
      BY <1>0 DEF FileTypes
    <3>3. CASE UNCHANGED <<pidFile, written>>
      BY <3>2, <3>3
    <3>4. CASE written' = FALSE
      BY <3>4
    <3>5. CASE UNCHANGED pidFile /\ written' = (written \/ pidFile = p)
      BY <3>1, <3>2, <3>5
    <3> QED  BY <2>2, <3>3, <3>4, <3>5 DEF file, RemovePID
  <2> QED  BY <1>0, <2>1, <2>3, <2>4 DEF FileTypes
<1>3. ServerTypes'
  <2>1. CASE Exit(p) \/ Fail(p) \/ Crash(p)
    BY <1>0, <2>1, DiesTypes DEF Exit, Fail, Crash
  <2>2. CASE KeepAlive(p)
    BY <1>0, <2>2, SpawnTypes DEF KeepAlive
  <2>3. CASE CreateFile(p)
    <3>1. CASE Dies(p)
      BY <1>0, <3>1, DiesTypes
    <3>2. CASE proc' = [proc EXCEPT ![p] = "created"] /\ UNCHANGED <<lstn, term, job>>
      BY <1>0, <2>3, <3>2 DEF CreateFile, ServerTypes, Running
    <3> QED  BY <2>3, <3>1, <3>2 DEF CreateFile
  <2>4. CASE WriteFile(p) \/ Notify(p) \/ Unlink(p)
    BY <1>0, <2>4 DEF WriteFile, Notify, Unlink, Moves, ServerTypes, Running
  <2>5. CASE ListenTCP(p) \/ Bind(p)
    <3>1. (Serves(p) \/ ListenFails(p)) /\ UNCHANGED <<term, job>>
      BY <2>5 DEF ListenTCP, Bind
    <3> QED  BY <1>0, <3>1 DEF ServerTypes, Serves, ListenFails, Running
  <2>6. CASE ClearSocket(p) \/ Shutdown(p)
    BY <1>0, <2>6 DEF ClearSocket, Shutdown, ServerTypes, Running
  <2> QED  BY <2>1, <2>2, <2>3, <2>4, <2>5, <2>6 DEF Server
<1> QED  BY <1>1, <1>2, <1>3
       DEF TypeOK, FileTypes, ServerTypes, CommandTypes, LaunchdTypes

LEMMA CommandTypeOK ==
  ASSUME TypeOK, NEW k \in Cmds, Command(k) \/ \E c \in Programs : Invoke(k, c)
  PROVE  TypeOK'
<1> USE DEF Finish, Goto
<1>0. FileTypes /\ ServerTypes /\ CommandTypes /\ LaunchdTypes
  BY TypesAre
<1>1. FileTypes'
  <2>1. UNCHANGED <<mode, sock>> /\ (UNCHANGED file \/ RemovePID)
    BY DEF Command, Read, CleanProbe, Probe, Remove, Start, Term, Poll, Timeout,
       Stopped, WritePlist, Load, Stat, Unload, Delete, Invoke
  <2>2. CASE UNCHANGED file
    BY <1>0, <2>1, <2>2 DEF FileTypes, file
  <2>3. CASE RemovePID
    BY <1>0, <2>1, <2>3 DEF FileTypes, RemovePID
  <2> QED  BY <2>1, <2>2, <2>3
<1>2. LaunchdTypes'
  BY <1>0 DEF LaunchdTypes, launchd, Command, Read, CleanProbe, Probe, Remove, Start, Term, Poll,
     Timeout, Stopped, WritePlist, Load, Stat, Unload, Delete, Invoke
<1>3. ServerTypes'
  <2>1. CASE UNCHANGED servers
    BY <1>0, <2>1 DEF ServerTypes, servers
  <2>2. \/ UNCHANGED servers
        \/ \E p \in Pids : Spawn(p) /\ UNCHANGED job
        \/ Deliver(seen[k]) \/ Deliver(job)
    BY DEF Command, Read, CleanProbe, Probe, Remove, Start, Term, Poll, Timeout,
       Stopped, WritePlist, Load, Stat, Unload, Delete, Invoke
  <2> QED  BY <1>0, <2>1, <2>2, DiesTypes, SpawnTypes
<1>4. CommandTypes'
  <2>1. CASE \E c \in Programs : Invoke(k, c)
    <3>1. PICK c \in Programs : Invoke(k, c)
      BY <2>1
    <3>2. cmd' = [cmd EXCEPT ![k] = c] /\ UNCHANGED seen /\ \E l \in Labels : Goto(k, l)
      BY <3>1, ProgramsAssumption DEF Invoke, Labels, Typed
    <3> QED  BY <1>0, <3>2 DEF CommandTypes
  <2>2. CASE Finish(k)
    BY <1>0, <2>2 DEF CommandTypes, Labels
  <2>3. CASE UNCHANGED cmd /\ (\E l \in Labels : Goto(k, l)) /\ UNCHANGED seen
    BY <1>0, <2>3 DEF CommandTypes
  <2>4. CASE /\ UNCHANGED cmd /\ \E l \in Labels : Goto(k, l)
             /\ seen' = [seen EXCEPT ![k] = ReadPID]
    <3>1. ReadPID \in Pids \cup {NoPid}
      BY <1>0 DEF FileTypes, ReadPID
    <3> QED  BY <1>0, <2>4, <3>1 DEF CommandTypes
  <2>5. Command(k) =>
          \/ Finish(k)
          \/ /\ UNCHANGED cmd /\ \E l \in Labels : Goto(k, l)
             /\ UNCHANGED seen \/ seen' = [seen EXCEPT ![k] = ReadPID]
    BY DEF Command, Read, CleanProbe, Probe, Remove, Start, Term, Poll, Timeout,
       Stopped, WritePlist, Load, Stat, Unload, Delete, Labels
  <2> QED  BY <2>1, <2>2, <2>3, <2>4, <2>5
<1> QED  BY <1>1, <1>2, <1>3, <1>4
       DEF TypeOK, FileTypes, ServerTypes, CommandTypes, LaunchdTypes

\* The values of the variables, whatever is typed at once and whatever fails: among
\* them, no PID is in a file that is not there.
THEOREM TypeCorrect == Spec => []TypeOK
<1>1. TypeOK /\ [Next]_vars => TypeOK'
  <2>1. CASE UNCHANGED vars
    BY <2>1 DEF TypeOK, vars, file, servers, launchd, cmds
  <2> QED  BY <2>1, ServerTypeOK, CommandTypeOK DEF Next
<1> QED  BY <1>1, InitTypeOK, PTL DEF Spec

(**************************** starts at once *******************************)

\* Nothing fails, nothing is stopped, and launchd has no job.
Peaceful ==
  /\ MaxFailures = 0
  /\ Programs \subseteq {"start", "status"}
  /\ ~Installed

\* How far a process can have come that is past O_EXCL.
Up == {"created", "written", "notified", "serving"}

Shapes ==
  /\ pidFile \in Pids \cup {NoPid} /\ sock \in Pids \cup {NoPid}
  /\ DOMAIN proc = Pids /\ DOMAIN lstn = Pids /\ DOMAIN term = Pids
  /\ DOMAIN cmd = Cmds /\ DOMAIN at = Cmds /\ DOMAIN seen = Cmds

\* No server is ever on its way out, and launchd does nothing.
Calm ==
  /\ failures = 0 /\ ~loaded /\ job = NoPid
  /\ \A p \in Pids : proc[p] \in Up \cup {"none", "launched"} /\ ~term[p]

\* The file is the one server's, and names it once it has been written.
Named ==
  /\ \A p \in Pids : proc[p] \in Up => pidFile = p
  /\ pidFile # NoPid => proc[pidFile] \in Up
  /\ written <=> pidFile # NoPid /\ proc[pidFile] # "created"

\* Only the one server listens, and the socket is its own.
Listens ==
  /\ \A p \in Pids :
       /\ proc[p] = "notified" => lstn[p] \in {"called", "cleared"}
       /\ proc[p] = "serving" => lstn[p] = "open"
       /\ lstn[p] # "none" => proc[p] \in {"notified", "serving"}
       /\ mode = "unix" /\ proc[p] = "serving" => sock = p
  /\ sock # NoPid => proc[sock] = "serving"

\* A command that has read a PID has read that of the one server, which is alive: so
\* none removes the file.
Reads ==
  \A k \in Cmds :
    /\ cmd[k] \in {"none", "start", "status"}
    /\ at[k] \in {"idle", "clean.read", "clean.probe", "read", "probe", "spawn"}
    /\ at[k] \in {"clean.probe", "probe"} => seen[k] # NoPid
    /\ seen[k] # NoPid => seen[k] = pidFile

IInv == Shapes /\ Calm /\ Named /\ Listens /\ Reads

LEMMA InitIInv ==
  ASSUME Peaceful, Init
  PROVE  IInv
<1> USE NoPidAssumption DEF Init
<1>1. Shapes /\ Listens  BY DEF Shapes, Listens
<1>2. Calm  BY DEF Calm, Peaceful
<1>3. Named /\ Reads  BY DEF Named, Reads, Up
<1> QED  BY <1>1, <1>2, <1>3 DEF IInv

\* Two processes past O_EXCL are the same.
LEMMA OneUp ==
  ASSUME IInv, NEW p \in Pids, NEW q \in Pids, proc[p] \in Up, proc[q] \in Up
  PROVE  p = q
BY DEF IInv, Named

\* A step of the server p, up to where it listens.
LEMMA StartUpIInv ==
  ASSUME IInv, NEW p \in Pids, CreateFile(p) \/ WriteFile(p) \/ Notify(p)
  PROVE  IInv'
<1> USE NoPidAssumption DEF IInv, Shapes, cmds, launchd, file, Up, Moves
<1>1. CASE CreateFile(p)
  <2>1. CASE pidFile = NoPid
    <3> USE <1>1, <2>1 DEF CreateFile
    <3>1. Shapes' /\ Calm'  BY DEF Calm
    <3>2. Named'  BY DEF Named
    <3>3. Listens'  BY DEF Listens
    <3>4. Reads'  BY DEF Reads
    <3> QED  BY <3>1, <3>2, <3>3, <3>4
  <2>2. CASE pidFile # NoPid
    <3> USE <1>1, <2>2 DEF CreateFile, Dies
    <3>1. Shapes' /\ Calm'  BY DEF Calm
    <3>2. Named'  BY DEF Named
    <3>3. Listens'  BY DEF Listens
    <3>4. Reads'  BY DEF Reads
    <3> QED  BY <3>1, <3>2, <3>3, <3>4
  <2> QED  BY <2>1, <2>2
<1>2. CASE WriteFile(p)
  <2> USE <1>2 DEF WriteFile
  <2>1. Shapes' /\ Calm'  BY DEF Calm
  <2>2. Named'  BY DEF Named
  <2>3. Listens'  BY DEF Listens
  <2>4. Reads'  BY DEF Reads
  <2> QED  BY <2>1, <2>2, <2>3, <2>4
<1>3. CASE Notify(p)
  <2> USE <1>3 DEF Notify
  <2>1. Shapes' /\ Calm'  BY DEF Calm
  <2>2. Named'  BY DEF Named
  <2>3. Listens'  BY DEF Listens
  <2>4. Reads'  BY DEF Reads
  <2> QED  BY <2>1, <2>2, <2>3, <2>4
<1> QED  BY <1>1, <1>2, <1>3

\* Nobody else holds the port or the socket: to listen succeeds.
LEMMA ListenIInv ==
  ASSUME Peaceful, IInv, NEW p \in Pids, ListenTCP(p) \/ ClearSocket(p) \/ Bind(p)
  PROVE  IInv'
<1> USE NoPidAssumption DEF cmds, launchd, file
<1>1. ~Failed(p)
  BY DEF Failed, Peaceful, IInv, Calm
<1>2. proc[p] = "notified" /\ \A q \in Pids : lstn[q] # "open" /\ sock # q
  <2>1. proc[p] = "notified"
    BY DEF ListenTCP, ClearSocket, Bind, IInv, Listens
  <2>2. ASSUME NEW q \in Pids, lstn[q] = "open" \/ sock = q PROVE FALSE
    <3>1. proc[q] = "serving"
      BY <2>2 DEF IInv, Listens
    <3> QED  BY <2>1, <3>1, OneUp DEF Up
  <2> QED  BY <2>1, <2>2
<1>3. sock = NoPid
  BY <1>2 DEF IInv, Shapes
<1>4. CASE ClearSocket(p)
  <2> USE <1>2, <1>3, <1>4 DEF ClearSocket, IInv, Shapes
  <2>1. Shapes' /\ Calm' /\ Named' /\ Reads'  BY DEF Calm, Named, Reads
  <2>2. Listens'  BY DEF Listens
  <2> QED  BY <2>1, <2>2
<1>5. CASE ListenTCP(p) \/ Bind(p)
  <2>1. Serves(p) /\ (sock' = p \/ (mode = "tcp" /\ sock' = sock))
    BY <1>1, <1>2, <1>3, <1>5 DEF ListenTCP, Bind
  <2>2. UNCHANGED <<file, mode, term, job, failures, launchd, cmds>>
    BY <1>1, <1>2, <1>3, <1>5 DEF ListenTCP, Bind
  <2> USE <1>2, <1>3, <2>1, <2>2 DEF Serves, IInv, Shapes, Up
  <2>3. Shapes' /\ Calm'  BY DEF Calm
  <2>4. Named'  BY DEF Named
  <2>5. Listens'  BY OneUp DEF Listens
  <2>6. Reads'  BY DEF Reads
  <2> QED  BY <2>3, <2>4, <2>5, <2>6
<1> QED  BY <1>4, <1>5

\* A command: whoever it probes is alive.
LEMMA CommandIInv ==
  ASSUME Peaceful, IInv, NEW k \in Cmds,
         Command(k) \/ \E c \in Programs : Invoke(k, c)
  PROVE  IInv'
<1> USE NoPidAssumption DEF Goto, Finish, launchd, servers, file
<1>1. at[k] \in {"clean.probe", "probe"} => ~Dead(k)
  BY DEF IInv, Reads, Named, Dead, Alive, Up
<1>2. CASE \/ Read(k) \/ CleanProbe(k) \/ Probe(k)
           \/ \E c \in Programs : Invoke(k, c)
  <2>1. UNCHANGED <<file, mode, sock, servers, failures, launchd>>
    BY <1>2 DEF Read, CleanProbe, Probe, Invoke
  <2>2. Shapes' /\ Calm' /\ Named' /\ Listens'
    <3>1. DOMAIN cmd' = Cmds /\ DOMAIN at' = Cmds /\ DOMAIN seen' = Cmds
      BY <1>2 DEF IInv, Shapes, Read, CleanProbe, Probe, Invoke
    <3> QED  BY <2>1, <3>1 DEF IInv, Shapes, Calm, Named, Listens
  <2>3. Reads'
    <3>1. CASE Read(k)
      BY <2>1, <3>1 DEF IInv, Shapes, Reads, Named, Read, ReadPID
    <3>2. CASE CleanProbe(k) \/ Probe(k)
      BY <1>1, <2>1, <3>2 DEF IInv, Shapes, Reads, CleanProbe, Probe
    <3>3. CASE \E c \in Programs : Invoke(k, c)
      <4>1. PICK c \in {"start", "status"} : Invoke(k, c)
        BY <3>3 DEF Peaceful
      <4>2. \E l \in {"clean.read", "read"} : Goto(k, l)
        BY <4>1 DEF Invoke
      <4> QED  BY <2>1, <4>1, <4>2 DEF IInv, Shapes, Reads, Invoke, Goto
    <3> QED  BY <1>2, <3>1, <3>2, <3>3
  <2> QED  BY <2>2, <2>3 DEF IInv
<1>3. CASE Start(k)
  <2>1. Reads'
    BY <1>3 DEF Start, IInv, Shapes, Reads
  <2>2. CASE UNCHANGED servers
    BY <1>3, <2>1, <2>2 DEF Start, IInv, Shapes, Calm, Named, Listens
  <2>3. CASE (\E p \in Pids : Spawn(p)) /\ UNCHANGED job
    <3>1. PICK p \in Pids : Spawn(p)
      BY <2>3
    <3> USE <1>3, <2>3, <3>1 DEF Start, Spawn, Free, Alive, IInv, Shapes, Up
    <3>2. Shapes' /\ Calm'  BY DEF Calm
    <3>3. Named'  BY DEF Named
    <3>4. Listens'  BY DEF Listens
    <3> QED  BY <2>1, <3>2, <3>3, <3>4
  <2> QED  BY <1>3, <2>2, <2>3 DEF Start
<1>4. \/ Read(k) \/ CleanProbe(k) \/ Probe(k) \/ Start(k)
      \/ \E c \in Programs : Invoke(k, c)
  BY DEF Command, Remove, Term, Poll, Timeout, Stopped, WritePlist, Load, Stat, Unload,
         Delete, IInv, Reads
<1> QED  BY <1>2, <1>3, <1>4

LEMMA StepIInv == Peaceful /\ IInv /\ [Next]_vars => IInv'
<1> SUFFICES ASSUME Peaceful, IInv, [Next]_vars PROVE IInv'
  OBVIOUS
<1>1. ASSUME NEW p \in Pids
      PROVE  ~(Shutdown(p) \/ Unlink(p) \/ Exit(p) \/ Fail(p) \/ Crash(p) \/ KeepAlive(p))
  BY DEF Shutdown, Unlink, Exit, Fail, Crash, KeepAlive, Failed, Moves, Peaceful, IInv,
         Calm, Up
<1>2. CASE UNCHANGED vars
  BY <1>2 DEF vars, file, servers, launchd, cmds, IInv, Shapes, Calm, Named, Listens, Reads
<1> QED  BY <1>1, <1>2, StartUpIInv, ListenIInv, CommandIInv DEF Next, Server

LEMMA AlwaysIInv ==
  ASSUME Peaceful
  PROVE  Spec => []IInv
<1>1. Init => IInv  BY InitIInv
<1>2. IInv /\ [Next]_vars => IInv'  BY StepIInv
<1> QED  BY <1>1, <1>2, PTL DEF Spec

\* "Uses O_CREATE|O_EXCL to prevent races when multiple processes start
\* simultaneously" (daemon.go:18) holds for any number of starts, as long as no server
\* fails or is stopped.
THEOREM OneOfManyStarts ==
  ASSUME Peaceful
  PROVE  Spec => []OneInstance
<1>1. IInv => OneInstance
  <2> SUFFICES ASSUME IInv PROVE OneInstance  OBVIOUS
  <2>1. \A p \in Pids : Instance(p) => proc[p] \in Up
    BY DEF IInv, Calm, Instance, Up
  <2> QED  BY <2>1, OneUp DEF OneInstance
<1> QED  BY <1>1, AlwaysIInv, PTL

\* Whichever of them wins is found by `vibe stop` and `vibe status`.
THEOREM WinnerIsRecorded ==
  ASSUME Peaceful
  PROVE  Spec => []ServerIsRecorded
<1>1. IInv => ServerIsRecorded
  BY NoPidAssumption DEF IInv, Named, Up, ServerIsRecorded
<1> QED  BY <1>1, AlwaysIInv, PTL

(************************ one command at a time ****************************)
\* No command is typed before the last one and its server have come to rest; launchd
\* has no part in it.
Serial ==
  /\ Concurrent = {}
  /\ Programs \subseteq {"start", "stop", "status"}
  /\ ~Installed

\* Past O_EXCL, and not yet past RemovePID.
Owning == {"created", "written", "notified", "serving", "removing"}

\* The file is its owner's, who may be dead.
Owned ==
  /\ \A p \in Pids :
       /\ proc[p] \in Owning => pidFile = p
       /\ proc[p] \in Owning \ {"created"} => written
  /\ pidFile # NoPid => proc[pidFile] \in Owning \cup {"none"}
  /\ written => pidFile # NoPid

\* A server listens once it is notified, and it is told to stop after that.
Listening ==
  \A p \in Pids :
    /\ proc[p] \in Running \cup {"none"}
    /\ lstn[p] \in {"called", "cleared"} => proc[p] = "notified"
    /\ term[p] => proc[p] \in {"serving", "removing", "exiting"}
    /\ mode = "unix" /\ proc[p] = "serving" => sock = p

NoLaunchd == ~loaded /\ job = NoPid

\* The one command meets no server that is coming up, and knows the one there is.
Knows(k) ==
  /\ at[k] \in {"idle", "clean.read", "clean.probe", "clean.remove", "read", "probe",
                "remove", "spawn", "term", "poll", "unlink"}
  /\ at[k] # "idle" => \A p \in Pids :
       /\ proc[p] \in {"none", "serving", "removing", "exiting"}
       /\ proc[p] = "exiting" => pidFile = NoPid
  /\ at[k] \in {"clean.probe", "probe", "term", "poll"} =>
       /\ seen[k] \in Pids
       /\ \A p \in Pids : Alive(p) => seen[k] = p
  /\ at[k] \in {"clean.remove", "remove", "unlink"} => \A p \in Pids : ~Alive(p)
  /\ at[k] = "spawn" => \A p \in Pids : proc[p] \notin Owning

OneCommand ==
  /\ \A j, k \in Cmds : at[j] # "idle" /\ at[k] # "idle" => j = k
  /\ \A k \in Cmds : Knows(k)

SInv == Shapes /\ NoLaunchd /\ Owned /\ Listening /\ OneCommand

LEMMA InitSInv ==
  ASSUME Serial, Init
  PROVE  SInv
<1> USE NoPidAssumption DEF Init
<1>1. Shapes /\ NoLaunchd  BY DEF Shapes, NoLaunchd, Serial
<1>2. Owned /\ Listening  BY DEF Owned, Owning, Listening
<1>3. OneCommand  BY DEF OneCommand, Knows
<1> QED  BY <1>1, <1>2, <1>3 DEF SInv

\* A server comes up: no command is under way.
LEMMA RiseSInv ==
  ASSUME SInv, NEW p \in Pids,
         \/ CreateFile(p) \/ WriteFile(p) \/ Notify(p) \/ ListenTCP(p)
         \/ ClearSocket(p) \/ Bind(p)
  PROVE  SInv'
<1> USE NoPidAssumption DEF SInv, Shapes, NoLaunchd, cmds, launchd, file, Owning
<1>1. proc[p] \in {"launched", "created", "written", "notified"}
  BY DEF CreateFile, WriteFile, Notify, ListenTCP, ClearSocket, Bind, Moves, Listening
<1>2. \A k \in Cmds : at[k] = "idle"
  BY <1>1 DEF OneCommand, Knows
<1>3. UNCHANGED <<cmds, launchd, mode>>
  BY DEF CreateFile, WriteFile, Notify, ListenTCP, ClearSocket, Bind
<1>4. OneCommand'
  BY <1>2, <1>3 DEF OneCommand, Knows
<1>5. CASE CreateFile(p)
  <2>1. CASE pidFile = NoPid
    <3> USE <1>5, <2>1 DEF CreateFile
    <3>1. Shapes' /\ NoLaunchd'  OBVIOUS
    <3>2. Owned'  BY DEF Owned
    <3>3. Listening'  BY DEF Listening, Running
    <3> QED  BY <1>4, <3>1, <3>2, <3>3
  <2>2. CASE pidFile # NoPid
    <3> USE <1>5, <2>2 DEF CreateFile, Dies
    <3>1. Shapes' /\ NoLaunchd'  OBVIOUS
    <3>2. Owned'  BY DEF Owned
    <3>3. Listening'  BY DEF Listening
    <3> QED  BY <1>4, <3>1, <3>2, <3>3
  <2> QED  BY <2>1, <2>2
<1>6. CASE WriteFile(p)
  <2> USE <1>6 DEF WriteFile, Moves
  <2>1. Shapes' /\ NoLaunchd'  OBVIOUS
  <2>2. pidFile = p /\ written'  BY DEF Owned
  <2>3. Owned'  BY <2>2 DEF Owned
  <2>4. Listening'  BY DEF Listening, Running
  <2> QED  BY <1>4, <2>1, <2>3, <2>4
<1>7. CASE Notify(p)
  <2> USE <1>7 DEF Notify, Moves
  <2>1. Shapes' /\ NoLaunchd'  OBVIOUS
  <2>2. Owned'  BY DEF Owned
  <2>3. Listening'  BY DEF Listening, Running
  <2> QED  BY <1>4, <2>1, <2>2, <2>3
<1>8. CASE ListenTCP(p) \/ Bind(p)
  <2>1. /\ UNCHANGED <<file, mode, term, job, launchd, cmds>>
        /\ proc[p] = "notified"
    BY <1>8 DEF ListenTCP, Bind, Listening
  <2>2. CASE Serves(p) /\ (mode = "unix" => sock' = p) /\ sock' \in {sock, p}
    <3> USE <2>1, <2>2 DEF Serves
    <3>1. Shapes' /\ NoLaunchd'  OBVIOUS
    <3>2. Owned'  BY DEF Owned
    <3>3. Listening'  BY DEF Listening, Owned, Running
    <3> QED  BY <1>4, <3>1, <3>2, <3>3
  <2>3. CASE ListenFails(p) /\ UNCHANGED sock
    <3> USE <2>1, <2>3 DEF ListenFails
    <3>0. proc' = [proc EXCEPT ![p] = "removing"]  OBVIOUS
    <3>1. Shapes' /\ NoLaunchd'  OBVIOUS
    <3>2. Owned'  BY <3>0 DEF Owned
    <3>3. Listening'  BY <3>0 DEF Listening, Owned, Running
    <3> QED  BY <1>4, <3>1, <3>2, <3>3
  <2>4. CASE ListenTCP(p)
    BY <2>2, <2>3, <2>4 DEF ListenTCP
  <2>5. CASE Bind(p)
    BY <2>1, <2>2, <2>3, <2>5 DEF Bind
  <2> QED  BY <1>8, <2>4, <2>5
<1>9. CASE ClearSocket(p)
  <2> USE <1>9 DEF ClearSocket
  <2>1. Shapes' /\ NoLaunchd' /\ Owned'  BY DEF Owned
  <2>2. Listening'  BY DEF Listening, Owned
  <2> QED  BY <1>4, <2>1, <2>2
<1> QED  BY <1>5, <1>6, <1>7, <1>8, <1>9

\* A server goes, in order or not; commands may be under way.
LEMMA FallSInv ==
  ASSUME SInv, NEW p \in Pids,
         Shutdown(p) \/ Unlink(p) \/ Exit(p) \/ Fail(p) \/ Crash(p)
  PROVE  SInv'
<1> USE NoPidAssumption DEF SInv, Shapes, NoLaunchd, cmds, launchd, file, Owning, Alive
<1>1. CASE Shutdown(p)
  <2> USE <1>1 DEF Shutdown
  <2>0. proc[p] = "serving"  BY DEF Listening
  <2>1. Shapes' /\ NoLaunchd'  OBVIOUS
  <2>2. Owned'  BY <2>0 DEF Owned
  <2>3. Listening'  BY <2>0 DEF Listening, Owned, Running
  <2>4. OneCommand'  BY <2>0 DEF OneCommand, Knows
  <2> QED  BY <2>1, <2>2, <2>3, <2>4
<1>2. CASE Unlink(p)
  <2> USE <1>2 DEF Unlink, RemovePID, Moves
  <2>1. Shapes' /\ NoLaunchd'  OBVIOUS
  <2>2. Owned'  BY DEF Owned
  <2>3. Listening'  BY DEF Listening, Running
  <2>4. OneCommand'  BY DEF OneCommand, Knows
  <2> QED  BY <2>1, <2>2, <2>3, <2>4
<1>3. CASE Exit(p) \/ Fail(p) \/ Crash(p)
  <2>1. Dies(p) /\ UNCHANGED <<file, mode, sock, launchd, cmds>>
    BY <1>3 DEF Exit, Fail, Crash
  <2> USE <2>1 DEF Dies
  <2>2. Shapes' /\ NoLaunchd'  OBVIOUS
  <2>3. Owned'  BY DEF Owned
  <2>4. Listening'  BY DEF Listening
  <2>5. OneCommand'  BY DEF OneCommand, Knows
  <2> QED  BY <2>2, <2>3, <2>4, <2>5
<1> QED  BY <1>1, <1>2, <1>3

\* A command that is typed finds everything at rest.
LEMMA InvokeSInv ==
  ASSUME Serial, SInv, NEW k \in Cmds, NEW c \in Programs, Invoke(k, c)
  PROVE  SInv'
<1>1. UNCHANGED <<file, mode, sock, servers, launchd>>
  BY DEF Invoke
<1>2. Shapes' /\ NoLaunchd' /\ Owned' /\ Listening'
  <2>1. DOMAIN cmd' = Cmds /\ DOMAIN at' = Cmds /\ DOMAIN seen' = Cmds
    BY DEF Invoke, Goto, SInv, Shapes
  <2> QED  BY <1>1, <2>1 DEF SInv, Shapes, NoLaunchd, Owned, Listening, file, servers, launchd
<1>3. Quiet
  BY DEF Invoke, MayType, Serial
<1>4. \E l \in {"clean.read", "read"} : Goto(k, l)
  BY DEF Serial, Invoke
<1>5. OneCommand'
  <2>1. cmd' = [cmd EXCEPT ![k] = c] /\ UNCHANGED seen
    BY DEF Invoke
  <2> QED  BY <1>1, <1>3, <1>4, <2>1 DEF Goto, Quiet, SInv, Shapes, OneCommand, Knows, file, servers
<1> QED  BY <1>2, <1>5 DEF SInv

\* A step of the one command.
LEMMA CommandSInv ==
  ASSUME SInv, NEW k \in Cmds, Command(k)
  PROVE  SInv'
<1> USE NoPidAssumption DEF Goto, Finish, file, servers, launchd, Owning
<1>0. /\ \A j \in Cmds \ {k} : at[j] = "idle"
      /\ Knows(k) /\ Shapes /\ NoLaunchd /\ Owned /\ Listening
  <2>1. at[k] # "idle"
    BY DEF Command, Read, CleanProbe, Probe, Remove, Start, Term, Poll, Timeout, Stopped,
           WritePlist, Load, Stat, Unload, Delete
  <2> QED  BY <2>1 DEF SInv, OneCommand
<1>1. CASE Read(k)
  <2>1. ReadPID = NoPid => \A p \in Pids : proc[p] \notin Owning
    BY <1>0, <1>1 DEF Read, ReadPID, Knows, Owned
  <2>2. ReadPID # NoPid => /\ ReadPID \in Pids
                           /\ \A p \in Pids : Alive(p) => ReadPID = p
    BY <1>0, <1>1 DEF Read, ReadPID, Knows, Owned, Alive, Shapes
  <2> USE <1>0, <1>1 DEF Read
  <2>3. Shapes' /\ NoLaunchd' /\ Owned' /\ Listening'
    BY DEF Shapes, NoLaunchd, Owned, Listening
  <2>4. OneCommand'  BY <2>1, <2>2 DEF OneCommand, Knows, Shapes, Alive
  <2> QED  BY <2>3, <2>4 DEF SInv
<1>2. CASE CleanProbe(k) \/ Probe(k) \/ Poll(k) \/ Timeout(k)
  <2> USE <1>0, <1>2 DEF CleanProbe, Probe, Poll, Timeout
  <2>1. Shapes' /\ NoLaunchd' /\ Owned' /\ Listening'
    BY DEF Shapes, NoLaunchd, Owned, Listening
  <2>2. OneCommand'  BY DEF OneCommand, Knows, Shapes, Alive, Dead
  <2> QED  BY <2>1, <2>2 DEF SInv
<1>3. CASE Remove(k) \/ Stopped(k)
  <2> USE <1>0, <1>3 DEF Remove, Stopped, RemovePID
  <2>1. Shapes' /\ NoLaunchd' /\ Owned' /\ Listening'
    BY DEF Shapes, NoLaunchd, Owned, Listening, Knows, Alive
  <2>2. OneCommand'  BY DEF OneCommand, Knows, Shapes, Alive
  <2> QED  BY <2>1, <2>2 DEF SInv
<1>4. CASE Start(k)
  <2>1. OneCommand'
    BY <1>0, <1>4 DEF Start, OneCommand, Knows, Shapes
  <2>2. Shapes' /\ NoLaunchd' /\ Owned' /\ Listening'
    <3>1. CASE UNCHANGED servers
      BY <1>0, <1>4, <3>1 DEF Start, Shapes, NoLaunchd, Owned, Listening
    <3>2. CASE (\E p \in Pids : Spawn(p)) /\ UNCHANGED job
      <4>1. PICK p \in Pids : Spawn(p)
        BY <3>2
      <4> USE <1>0, <1>4, <3>2, <4>1 DEF Start, Spawn, Free, Alive
      <4>2. Shapes' /\ NoLaunchd'  BY DEF Shapes, NoLaunchd
      <4>3. Owned'  BY DEF Owned, Shapes
      <4>4. Listening'  BY DEF Listening, Shapes, Running
      <4> QED  BY <4>2, <4>3, <4>4
    <3> QED  BY <1>4, <3>1, <3>2 DEF Start
  <2> QED  BY <2>1, <2>2 DEF SInv
<1>5. CASE Term(k)
  <2>1. CASE Dead(k)
    <3> USE <1>0, <1>5, <2>1 DEF Term
    <3>1. Shapes' /\ NoLaunchd' /\ Owned' /\ Listening'
      BY DEF Shapes, NoLaunchd, Owned, Listening
    <3>2. OneCommand'  BY DEF OneCommand, Knows, Shapes, Alive
    <3> QED  BY <3>1, <3>2 DEF SInv
  <2>2. CASE ~Dead(k)
    <3>1. Deliver(seen[k]) /\ at' = [at EXCEPT ![k] = "poll"]
          /\ UNCHANGED <<cmd, seen, pidFile, written, mode, sock, plist, loaded>>
          /\ at[k] = "term"
      BY <1>5, <2>2 DEF Term
    <3>2. seen[k] \in Pids /\ proc[seen[k]] \in {"serving", "removing", "exiting"}
      BY <1>0, <2>2, <3>1 DEF Knows, Dead, Alive
    <3>3. term' = [term EXCEPT ![seen[k]] = TRUE] /\ UNCHANGED <<proc, lstn, job>>
      BY <3>1, <3>2 DEF Deliver
    <3>4. Shapes' /\ NoLaunchd' /\ Owned'
      BY <1>0, <3>1, <3>3 DEF Shapes, NoLaunchd, Owned
    <3>5. \A p \in Pids : p # seen[k] => term'[p] = term[p]
      BY <1>0, <3>3 DEF Shapes
    <3>6. Listening'
      BY <1>0, <3>1, <3>2, <3>3, <3>5 DEF Listening
    <3>7. OneCommand'
      BY <1>0, <3>1, <3>3 DEF OneCommand, Knows, Shapes, Alive
    <3> QED  BY <3>4, <3>6, <3>7 DEF SInv
  <2> QED  BY <2>1, <2>2
<1>6. Read(k) \/ CleanProbe(k) \/ Probe(k) \/ Poll(k) \/ Timeout(k) \/ Remove(k)
      \/ Stopped(k) \/ Start(k) \/ Term(k)
  BY <1>0 DEF Command, WritePlist, Load, Stat, Unload, Delete, Knows
<1> QED  BY <1>1, <1>2, <1>3, <1>4, <1>5, <1>6

LEMMA StepSInv == Serial /\ SInv /\ [Next]_vars => SInv'
<1> SUFFICES ASSUME Serial, SInv, [Next]_vars PROVE SInv'
  OBVIOUS
<1>1. CASE UNCHANGED vars
  <2>1. Shapes' /\ NoLaunchd' /\ Owned' /\ Listening'
    BY <1>1 DEF SInv, Shapes, NoLaunchd, Owned, Listening, vars, file, servers, launchd, cmds
  <2>2. OneCommand'
    BY <1>1 DEF SInv, OneCommand, Knows, Alive, vars, file, servers, launchd, cmds
  <2> QED  BY <2>1, <2>2 DEF SInv
<1>2. ASSUME NEW p \in Pids PROVE ~KeepAlive(p)
  BY DEF SInv, NoLaunchd, KeepAlive
<1> QED
  BY <1>1, <1>2, RiseSInv, FallSInv, InvokeSInv, CommandSInv DEF Next, Server

LEMMA AlwaysSInv ==
  ASSUME Serial
  PROVE  Spec => []SInv
<1>1. Init => SInv  BY InitSInv
<1>2. SInv /\ [Next]_vars => SInv'  BY StepSInv
<1> QED  BY <1>1, <1>2, PTL DEF Spec

\* Commands that do not overlap leave the PID file to its owner, whatever server fails
\* or is killed at whatever point: the one that serves is the one in the file, and on
\* a unix socket the one the path leads to.
THEOREM OneByOneIsRecorded ==
  ASSUME Serial
  PROVE  Spec => [](OneInstance /\ ServerIsRecorded /\ ServerIsReachable)
<1>1. SInv => OneInstance
  BY DEF SInv, Owned, Owning, OneInstance, Instance
<1>2. SInv => ServerIsRecorded
  BY DEF SInv, Owned, Owning, ServerIsRecorded
<1>3. SInv => ServerIsReachable
  BY DEF SInv, Listening, ServerIsReachable
<1> QED  BY <1>1, <1>2, <1>3, AlwaysSInv, PTL

\* Then `vibe stop` tells the truth: when it has removed the file and says "stopped",
\* there is no server, and none it did not know of.
THEOREM OneByOneStops ==
  ASSUME Serial
  PROVE  Spec => StoppedMeansGone
<1>1. ASSUME SInv, [Next]_vars, NEW k \in Cmds, at[k] = "unlink", at'[k] = "idle"
      PROVE  pidFile' = NoPid /\ \A p \in Pids : ~Alive(p)'
  <2>1. Stopped(k)
    <3>1. DOMAIN at = Cmds /\ at'[k] # at[k]
      BY <1>1 DEF SInv, Shapes
    <3>2. ASSUME NEW p \in Pids PROVE ~(Server(p) \/ Fail(p) \/ Crash(p) \/ KeepAlive(p))
      BY <3>1 DEF Server, CreateFile, WriteFile, Notify, ListenTCP, ClearSocket, Bind,
                  Shutdown, Unlink, Exit, Fail, Crash, KeepAlive, cmds
    <3>3. ASSUME NEW j \in Cmds, NEW c \in Programs, Invoke(j, c) PROVE FALSE
      BY <1>1, <3>1, <3>3 DEF Invoke, Goto
    <3>4. PICK j \in Cmds : Command(j)
      BY <1>1, <3>1, <3>2, <3>3 DEF Next, vars, cmds
    <3>5. at[j] # "idle"
      BY <3>4 DEF Command, Read, CleanProbe, Probe, Remove, Start, Term, Poll, Timeout,
                  Stopped, WritePlist, Load, Stat, Unload, Delete
    <3>6. j = k
      BY <1>1, <3>5 DEF SInv, OneCommand
    <3> QED
      BY <1>1, <3>4, <3>6 DEF Command, Read, CleanProbe, Probe, Remove, Start, Term, Poll,
                  Timeout, WritePlist, Load, Stat, Unload, Delete
  <2>2. \A p \in Pids : ~Alive(p)
    BY <1>1 DEF SInv, OneCommand, Knows
  <2> QED
    BY <2>1, <2>2 DEF Stopped, RemovePID, servers, Alive
<1>2. SInv /\ [Next]_vars =>
        [\A k \in Cmds : at[k] = "unlink" /\ at'[k] = "idle"
           => pidFile' = NoPid /\ \A p \in Pids : ~Alive(p)']_vars
  BY <1>1
<1> QED  BY <1>2, AlwaysSInv, PTL DEF Spec, StoppedMeansGone

\* And no one takes the PID file from under a live server: it is removed by its owner, on
\* its way out, or when its owner is dead.
THEOREM OneByOneRemoves ==
  ASSUME Serial
  PROVE  Spec => RemovesOwnOrDead
<1>1. ASSUME SInv, [Next]_vars, pidFile # NoPid, pidFile' # pidFile
      PROVE  proc[pidFile] \in {"none", "removing"}
  <2>1. CASE \E p \in Pids : Server(p) \/ Fail(p) \/ Crash(p) \/ KeepAlive(p)
    <3>1. PICK p \in Pids : Unlink(p)
      BY <1>1, <2>1 DEF Server, CreateFile, WriteFile, Notify, ListenTCP, ClearSocket, Bind,
                  Shutdown, Exit, Fail, Crash, KeepAlive, file
    <3>2. proc[p] = "removing" /\ pidFile = p
      BY <1>1, <3>1 DEF Unlink, Moves, SInv, Owned, Owning
    <3> QED  BY <3>2
  <2>2. CASE \E k \in Cmds : Command(k)
    <3>1. PICK k \in Cmds : Remove(k) \/ Stopped(k)
      BY <1>1, <2>2 DEF Command, Read, CleanProbe, Probe, Start, Term, Poll, Timeout,
                  WritePlist, Load, Stat, Unload, Delete, file
    <3>2. \A p \in Pids : ~Alive(p)
      BY <1>1, <3>1 DEF Remove, Stopped, SInv, OneCommand, Knows
    <3> QED  BY <1>1, <3>2 DEF Alive, SInv, Shapes
  <2>3. ASSUME NEW k \in Cmds, NEW c \in Programs PROVE ~Invoke(k, c)
    BY <1>1 DEF Invoke, file
  <2> QED  BY <1>1, <2>1, <2>2, <2>3 DEF Next, vars, file
<1>2. SInv /\ [Next]_vars =>
        [pidFile # NoPid /\ pidFile' # pidFile => proc[pidFile] \in {"none", "removing"}]_vars
  BY <1>1
<1> QED  BY <1>2, AlwaysSInv, PTL DEF Spec, RemovesOwnOrDead

=============================================================================
