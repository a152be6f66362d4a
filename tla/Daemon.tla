------------------------------- MODULE Daemon -------------------------------
(***************************************************************************)
(* The life of the background server: `vibe start`, `stop`, `status`,      *)
(* `service install` and `service uninstall` (cmd/), the server process    *)
(* they spawn and signal, the PID file through which they know of each     *)
(* other (internal/daemon), launchd, and the unix socket (internal/proxy). *)
(*                                                                         *)
(* A command is a sequence of system calls; between any two of them the    *)
(* other commands and the servers run, and a server may be killed.         *)
(***************************************************************************)
EXTENDS Integers, FiniteSets

CONSTANTS
  Cmds,         \* terminals: each runs one command at a time
  Pids,         \* process ids a server can get
  NoPid,        \* no process: a file is absent, a command has read none
  Programs,     \* the commands typed
  Concurrent,   \* of these, the ones typed while others run, too
  CalmOnly,     \* they are so only as long as nothing has failed
  Modes,        \* how the server may be configured to listen
  Faults,       \* what can go wrong besides a server being killed
  MaxFailures,  \* bound: how many servers fail or are killed
  Installed     \* the launchd service is installed to begin with

Typed == {"start", "stop", "status", "install", "uninstall"}

ASSUME NoPidAssumption    == NoPid \notin Pids
ASSUME ProgramsAssumption == Programs \subseteq Typed /\ Concurrent \subseteq Programs
ASSUME ModesAssumption    == Modes \subseteq {"tcp", "unix"}
ASSUME FaultsAssumption   == Faults \subseteq {"load", "write", "listen", "launchctl"}
ASSUME FailuresAssumption == MaxFailures \in Nat
ASSUME FlagsAssumption    == Installed \in BOOLEAN /\ CalmOnly \in BOOLEAN

VARIABLES
  pidFile,      \* ~/.vibeproxy/vibeproxy.pid: the process that created it
  written,      \* whether its creator's PID is in it yet
  mode,         \* listen_unix is set, or it is not
  sock,         \* the socket file: the process that bound it
  proc,         \* proc[p]: how far the server process p is in runForeground
  lstn,         \* lstn[p]: how far its goroutine is in ListenAndServe
  term,         \* term[p]: a SIGTERM waits in p's sigCh
  failures,     \* servers that have failed or been killed so far
  plist,        \* the launchd plist exists
  loaded,       \* launchd has loaded it
  job,          \* the process launchd runs for it
  cmd,          \* cmd[k]: the command k runs
  at,           \* at[k]: the system call k makes next
  seen          \* seen[k]: the PID k has read from the file

file == <<pidFile, written>>
servers == <<proc, lstn, term, job>>
launchd == <<plist, loaded>>
cmds == <<cmd, at, seen>>
vars == <<file, mode, sock, servers, failures, launchd, cmds>>

Alive(p) == proc[p] # "none"

Init ==
  /\ pidFile = NoPid
  /\ written = FALSE
  /\ mode \in Modes
  /\ sock = NoPid
  /\ proc = [p \in Pids |-> "none"]
  /\ lstn = [p \in Pids |-> "none"]
  /\ term = [p \in Pids |-> FALSE]
  /\ failures = 0
  /\ plist = Installed /\ loaded = Installed
  /\ job = NoPid
  /\ cmd = [k \in Cmds |-> "none"]
  /\ at = [k \in Cmds |-> "idle"]
  /\ seen = [k \in Cmds |-> NoPid]

(**************************** the PID file *********************************)
\* os.Remove of the path: whoever's file is there now.
RemovePID == pidFile' = NoPid /\ written' = FALSE

\* An empty file does not parse: ReadPID fails as for an absent one.
ReadPID == IF written THEN pidFile ELSE NoPid

(***************************** the server **********************************)
Running == {"launched", "created", "written", "notified", "serving", "removing",
            "exiting"}

Moves(p, from, to) == proc[p] = from /\ proc' = [proc EXCEPT ![p] = to]

Dies(p) == /\ proc' = [proc EXCEPT ![p] = "none"]
           /\ lstn' = [lstn EXCEPT ![p] = "none"]
           /\ term' = [term EXCEPT ![p] = FALSE]
           /\ job' = IF job = p THEN NoPid ELSE job

\* With CalmOnly, a server fails while there is no other, and one command at most.
Failed(p) ==
  /\ failures < MaxFailures /\ failures' = failures + 1
  /\ CalmOnly => /\ \A q \in Pids \ {p} : ~Alive(q)
                 /\ Cardinality({k \in Cmds : at[k] # "idle"}) <= 1

\* The kernel gives a new process a PID that no file and no command refers to.
Free(p) == ~Alive(p) /\ pidFile # p /\ sock # p /\ \A k \in Cmds : seen[k] # p

Spawn(p) ==
  /\ Free(p)
  /\ proc' = [proc EXCEPT ![p] = "launched"]
  /\ UNCHANGED <<lstn, term>>

\* WritePID, first half: O_CREATE|O_EXCL.  If the file exists the process ends
\* with an error and leaves the file alone.
CreateOverwriting(p) ==                                        \* mutant
  /\ Moves(p, "launched", "created")
  /\ pidFile' = p /\ written' = FALSE
  /\ UNCHANGED <<mode, sock, lstn, term, job, failures, launchd, cmds>>

CreateOrCleanUp(p) ==                                          \* mutant
  /\ proc[p] = "launched"
  /\ IF pidFile = NoPid
       THEN /\ pidFile' = p /\ written' = FALSE
            /\ proc' = [proc EXCEPT ![p] = "created"]
            /\ UNCHANGED <<lstn, term, job>>
       ELSE Dies(p) /\ RemovePID
  /\ UNCHANGED <<mode, sock, failures, launchd, cmds>>

ClearSocketAndCreate(p) ==                                     \* mutant
  /\ proc[p] = "launched"
  /\ IF pidFile = NoPid
       THEN /\ pidFile' = p /\ written' = FALSE
            /\ proc' = [proc EXCEPT ![p] = "created"]
            /\ UNCHANGED <<lstn, term, job>>
       ELSE Dies(p) /\ UNCHANGED file
  /\ sock' = NoPid
  /\ UNCHANGED <<mode, failures, launchd, cmds>>

CreateFile(p) ==
  /\ proc[p] = "launched"
  /\ IF pidFile = NoPid
       THEN /\ pidFile' = p /\ written' = FALSE
            /\ proc' = [proc EXCEPT ![p] = "created"]
            /\ UNCHANGED <<lstn, term, job>>
       ELSE Dies(p) /\ UNCHANGED file
  /\ UNCHANGED <<mode, sock, failures, launchd, cmds>>

\* WritePID, second half.  The bytes go to the file p created, whether or not the
\* path still leads to it.
WriteFile(p) ==
  /\ Moves(p, "created", "written")
  /\ written' = (written \/ pidFile = p)
  /\ UNCHANGED <<pidFile, mode, sock, lstn, term, job, failures, launchd, cmds>>

\* signal.Notify: from here on SIGTERM is a message, not a death.  Then the
\* goroutine that listens is started.
Notify(p) ==
  /\ Moves(p, "written", "notified")
  /\ lstn' = [lstn EXCEPT ![p] = "called"]
  /\ UNCHANGED <<file, mode, sock, term, job, failures, launchd, cmds>>

Serves(p) == /\ proc' = [proc EXCEPT ![p] = "serving"]
             /\ lstn' = [lstn EXCEPT ![p] = "open"]

\* ListenAndServe returns an error; the select takes it if it still waits.
ListenFails(p) ==
  /\ proc' = [proc EXCEPT ![p] = IF @ = "notified" THEN "removing" ELSE @]
  /\ lstn' = [lstn EXCEPT ![p] = "none"]

\* The port has one owner; a server told to stop does not listen any more.
ListenTCP(p) ==
  /\ mode = "tcp" /\ lstn[p] = "called" /\ proc[p] = "notified"
  /\ \/ (\A q \in Pids : lstn[q] # "open") /\ Serves(p) /\ UNCHANGED failures
     \/ (\E q \in Pids : lstn[q] = "open") /\ ListenFails(p) /\ UNCHANGED failures
     \/ "listen" \in Faults /\ ListenFails(p) /\ Failed(p)
  /\ UNCHANGED <<file, mode, sock, term, job, launchd, cmds>>

\* listenUnix removes whatever file is in its way ...
ClearNothing(p) ==                                             \* mutant
  /\ mode = "unix" /\ lstn[p] = "called"
  /\ lstn' = [lstn EXCEPT ![p] = "cleared"]
  /\ UNCHANGED <<file, mode, sock, proc, term, job, failures, launchd, cmds>>

ClearSocket(p) ==
  /\ mode = "unix" /\ lstn[p] = "called"
  /\ sock' = NoPid
  /\ lstn' = [lstn EXCEPT ![p] = "cleared"]
  /\ UNCHANGED <<file, mode, proc, term, job, failures, launchd, cmds>>

\* ... and binds the path, which fails if there is a file again.  Serve closes the
\* listener of a server told to stop, if the process lives so long.
Bind(p) ==
  /\ lstn[p] = "cleared"
  /\ IF sock # NoPid
       THEN ListenFails(p) /\ UNCHANGED <<sock, failures>>
       ELSE \/ proc[p] = "notified" /\ Serves(p) /\ sock' = p /\ UNCHANGED failures
            \/ proc[p] # "notified" /\ ListenFails(p) /\ sock' \in {NoPid, p}
               /\ UNCHANGED failures
            \/ "listen" \in Faults /\ ListenFails(p) /\ UNCHANGED sock /\ Failed(p)
  /\ UNCHANGED <<file, mode, term, job, launchd, cmds>>

ShutdownSkipped(p) ==                                          \* mutant
  /\ proc[p] \in {"notified", "serving"}
  /\ term[p]
  /\ proc' = [proc EXCEPT ![p] = "removing"]
  /\ UNCHANGED <<file, mode, sock, lstn, term, job, failures, launchd, cmds>>

\* The signal branch of the select, and Shutdown: the listener is closed, which
\* unlinks the socket's path, and requests in flight are given 5 seconds.
Shutdown(p) ==
  /\ proc[p] \in {"notified", "serving"}
  /\ term[p]
  /\ proc' = [proc EXCEPT ![p] = "removing"]
  /\ IF lstn[p] = "open"
       THEN /\ lstn' = [lstn EXCEPT ![p] = "none"]
            /\ sock' = IF mode = "unix" THEN NoPid ELSE sock
       ELSE UNCHANGED <<lstn, sock>>
  /\ UNCHANGED <<file, mode, term, job, failures, launchd, cmds>>

\* defer daemon.RemovePID(): the server does not ask whose file that is.
Unlink(p) ==
  /\ Moves(p, "removing", "exiting")
  /\ RemovePID
  /\ UNCHANGED <<mode, sock, lstn, term, job, failures, launchd, cmds>>

Exit(p) ==
  /\ proc[p] = "exiting"
  /\ Dies(p)
  /\ UNCHANGED <<file, mode, sock, failures, launchd, cmds>>

\* Errors before WritePID has returned: no deferred RemovePID runs.
Fail(p) ==
  /\ Failed(p)
  /\ \/ proc[p] = "launched" /\ "load" \in Faults
     \/ proc[p] = "created" /\ "write" \in Faults
  /\ Dies(p)
  /\ UNCHANGED <<file, mode, sock, launchd, cmds>>

\* SIGKILL, a panic, a power cut: nothing deferred runs, no file is unlinked.
Crash(p) ==
  /\ Failed(p)
  /\ Alive(p)
  /\ Dies(p)
  /\ UNCHANGED <<file, mode, sock, launchd, cmds>>

\* launchd runs `vibe start --foreground` whenever the process of its job is gone.
KeepAlive(p) ==
  /\ loaded /\ job = NoPid
  /\ Spawn(p)
  /\ job' = p
  /\ UNCHANGED <<file, mode, sock, failures, launchd, cmds>>

Server(p) ==
  \/ CreateFile(p)
  \/ WriteFile(p)
  \/ Notify(p)
  \/ ListenTCP(p)
  \/ ClearSocket(p)
  \/ Bind(p)
  \/ Shutdown(p)
  \/ Unlink(p)
  \/ Exit(p)

(**************************** the commands *********************************)
Goto(k, label) == at' = [at EXCEPT ![k] = label]

Finish(k) ==
  /\ at' = [at EXCEPT ![k] = "idle"]
  /\ cmd' = [cmd EXCEPT ![k] = "none"]
  /\ seen' = [seen EXCEPT ![k] = NoPid]

\* Everything that was begun has come to rest.
Quiet ==
  /\ \A k \in Cmds : at[k] = "idle"
  /\ \A p \in Pids : proc[p] \in {"none", "serving"}

Leaving(p) == term[p] \/ proc[p] \in {"removing", "exiting"}

MayType(c) ==
  \/ Quiet
  \/ /\ c \in Concurrent /\ \A k \in Cmds : cmd[k] \in Concurrent \cup {"none"}
     /\ CalmOnly => /\ failures = 0 /\ \A p \in Pids : ~Leaving(p)
                    /\ \A k \in Cmds : seen[k] # NoPid => Alive(seen[k])

Invoke(k, c) ==
  /\ at[k] = "idle"
  /\ MayType(c)
  /\ cmd' = [cmd EXCEPT ![k] = c]
  /\ Goto(k, CASE c = "start" -> "clean.read"
               [] c \in {"stop", "status"} -> "read"
               [] c = "install" -> "plist"
               [] c = "uninstall" -> "stat")
  /\ UNCHANGED <<file, mode, sock, servers, failures, launchd, seen>>

\* CleanStalePID and IsRunning make the same calls: read the file, probe the
\* process with signal 0, remove the file if it is dead.
Read(k) ==
  /\ at[k] \in {"clean.read", "read"}
  /\ IF ReadPID # NoPid
       THEN /\ seen' = [seen EXCEPT ![k] = ReadPID]
            /\ Goto(k, IF at[k] = "read" THEN "probe" ELSE "clean.probe")
            /\ UNCHANGED cmd
       ELSE \/ at[k] = "clean.read" /\ Goto(k, "read") /\ UNCHANGED <<cmd, seen>>
            \/ at[k] = "read" /\ cmd[k] = "start" /\ Goto(k, "spawn")
               /\ UNCHANGED <<cmd, seen>>
            \/ at[k] = "read" /\ cmd[k] # "start" /\ Finish(k)
  /\ UNCHANGED <<file, mode, sock, servers, failures, launchd>>

DeadNever(k) == FALSE                                          \* mutant
DeadUnlessServing(k) == proc[seen[k]] # "serving"              \* mutant
Dead(k) == ~Alive(seen[k])

CleanProbe(k) ==
  /\ at[k] = "clean.probe"
  /\ Goto(k, IF Dead(k) THEN "clean.remove" ELSE "read")
  /\ UNCHANGED <<file, mode, sock, servers, failures, launchd, cmd, seen>>

\* A running server makes start give up and status report it; stop signals it.
Probe(k) ==
  /\ at[k] = "probe"
  /\ \/ Dead(k) /\ Goto(k, "remove") /\ UNCHANGED <<cmd, seen>>
     \/ ~Dead(k) /\ cmd[k] = "stop" /\ Goto(k, "term") /\ UNCHANGED <<cmd, seen>>
     \/ ~Dead(k) /\ cmd[k] # "stop" /\ Finish(k)
  /\ UNCHANGED <<file, mode, sock, servers, failures, launchd>>

Remove(k) ==
  /\ at[k] \in {"clean.remove", "remove"}
  /\ RemovePID
  /\ \/ at[k] = "clean.remove" /\ Goto(k, "read") /\ UNCHANGED <<cmd, seen>>
     \/ at[k] = "remove" /\ cmd[k] = "start" /\ Goto(k, "spawn") /\ UNCHANGED <<cmd, seen>>
     \/ at[k] = "remove" /\ cmd[k] # "start" /\ Finish(k)
  /\ UNCHANGED <<mode, sock, servers, failures, launchd>>

\* daemonize starts the child, if the system can, and returns without waiting.
Start(k) ==
  /\ at[k] = "spawn"
  /\ \/ (\E p \in Pids : Spawn(p)) /\ UNCHANGED job
     \/ (\A p \in Pids : ~Free(p)) /\ UNCHANGED servers
  /\ Finish(k)
  /\ UNCHANGED <<file, mode, sock, failures, launchd>>

\* SIGTERM kills a process that has not called signal.Notify yet.
DeliverWhenListened(p) ==                                      \* mutant
  /\ term' = [term EXCEPT ![p] = proc[p] \notin {"launched", "created", "written"}]
  /\ UNCHANGED <<proc, lstn, job>>

Deliver(p) ==
  IF proc[p] \in {"launched", "created", "written"} THEN Dies(p)
  ELSE term' = [term EXCEPT ![p] = TRUE] /\ UNCHANGED <<proc, lstn, job>>

Term(k) ==
  /\ at[k] = "term"
  /\ \/ Dead(k) /\ Finish(k) /\ UNCHANGED servers
     \/ ~Dead(k) /\ Deliver(seen[k]) /\ Goto(k, "poll") /\ UNCHANGED <<cmd, seen>>
  /\ UNCHANGED <<file, mode, sock, failures, launchd>>

\* The loop of StopWithTimeout sees the process gone.
PollOnce(k) ==                                                 \* mutant
  /\ at[k] = "poll"
  /\ Goto(k, "unlink")
  /\ UNCHANGED <<file, mode, sock, servers, failures, launchd, cmd, seen>>

Poll(k) ==
  /\ at[k] = "poll"
  /\ Dead(k)
  /\ Goto(k, "unlink")
  /\ UNCHANGED <<file, mode, sock, servers, failures, launchd, cmd, seen>>

\* ... or its deadline passes first.
Timeout(k) ==
  /\ at[k] = "poll"
  /\ ~Dead(k)
  /\ Finish(k)
  /\ UNCHANGED <<file, mode, sock, servers, failures, launchd>>

\* RemovePID, and "VibeProxy stopped."
Stopped(k) ==
  /\ at[k] = "unlink"
  /\ RemovePID
  /\ Finish(k)
  /\ UNCHANGED <<mode, sock, servers, failures, launchd>>

\* InstallLaunchd: the plist is created or overwritten, then loaded.
WritePlist(k) ==
  /\ at[k] = "plist"
  /\ plist' = TRUE
  /\ Goto(k, "load")
  /\ UNCHANGED <<file, mode, sock, servers, failures, loaded, cmd, seen>>

\* launchctl load fails, and changes nothing, if the plist has gone meanwhile.
Load(k) ==
  /\ at[k] = "load"
  /\ \/ plist /\ loaded' = TRUE
     \/ (~plist \/ "launchctl" \in Faults) /\ UNCHANGED loaded
  /\ Finish(k)
  /\ UNCHANGED <<file, mode, sock, servers, failures, plist>>

\* UninstallLaunchd: nothing to do without a plist.
Stat(k) ==
  /\ at[k] = "stat"
  /\ IF plist THEN Goto(k, "unload") /\ UNCHANGED <<cmd, seen>> ELSE Finish(k)
  /\ UNCHANGED <<file, mode, sock, servers, failures, launchd>>

\* launchctl unload: launchd forgets the job and sends its process SIGTERM.
Unload(k) ==
  /\ at[k] = "unload"
  /\ \/ /\ plist
        /\ loaded' = FALSE
        /\ IF job = NoPid THEN UNCHANGED servers ELSE Deliver(job)
        /\ Goto(k, "delete") /\ UNCHANGED <<cmd, seen>>
     \/ /\ ~plist \/ ~loaded \/ "launchctl" \in Faults
        /\ Finish(k) /\ UNCHANGED <<loaded, servers>>
  /\ UNCHANGED <<file, mode, sock, failures, plist>>

Delete(k) ==
  /\ at[k] = "delete"
  /\ plist' = FALSE
  /\ Finish(k)
  /\ UNCHANGED <<file, mode, sock, servers, failures, loaded>>

Command(k) ==
  \/ Read(k)
  \/ CleanProbe(k)
  \/ Probe(k)
  \/ Remove(k)
  \/ Start(k)
  \/ Term(k)
  \/ Poll(k)
  \/ Timeout(k)
  \/ Stopped(k)
  \/ WritePlist(k)
  \/ Load(k)
  \/ Stat(k)
  \/ Unload(k)
  \/ Delete(k)

Next ==
  \/ \E p \in Pids : Server(p) \/ Fail(p) \/ Crash(p) \/ KeepAlive(p)
  \/ \E k \in Cmds : Command(k) \/ \E c \in Programs : Invoke(k, c)

Spec == Init /\ [][Next]_vars

\* Processes are scheduled; launchd does its job.  Nobody is bound to type a
\* command, and nothing is bound to fail.
Fairness ==
  /\ \A p \in Pids : WF_vars(Server(p))
  /\ \A k \in Cmds : WF_vars(Command(k))
  /\ WF_vars(\E p \in Pids : KeepAlive(p))

FairSpec == Spec /\ Fairness
(***************************** properties **********************************)
Labels == {"idle", "clean.read", "clean.probe", "clean.remove", "read", "probe",
           "remove","spawn", "term", "poll", "unlink", "plist", "load", "stat",
           "unload", "delete"}

\* The values each variable takes; whoever is on the way out has stopped listening
\* (start.go:106), so that the port is free for the next.
TypeOK ==
  /\ pidFile \in Pids \cup {NoPid}
  /\ written \in BOOLEAN
  /\ written => pidFile # NoPid
  /\ proc \in [Pids -> Running \cup {"none"}]
  /\ mode \in Modes /\ sock \in Pids \cup {NoPid}
  /\ lstn \in [Pids -> {"none", "called", "cleared", "open"}]
  /\ \A p \in Pids : lstn[p] = "open" => proc[p] = "serving"
  /\ term \in [Pids -> BOOLEAN]
  /\ failures \in 0..MaxFailures
  /\ plist \in BOOLEAN /\ loaded \in BOOLEAN /\ job \in Pids \cup {NoPid}
  /\ cmd \in [Cmds -> Programs \cup {"none"}]
  /\ at \in [Cmds -> Labels]
  /\ seen \in [Cmds -> Pids \cup {NoPid}]

\* A process that WritePID has let through: it believes it is the instance.
Instance(p) == proc[p] \in {"created", "written", "notified", "serving", "removing"}

\* "Uses O_CREATE|O_EXCL to prevent races when multiple processes start
\* simultaneously" (daemon.go:18): at most one process gets past WritePID.
OneInstance == \A p, q \in Pids : Instance(p) /\ Instance(q) => p = q

\* A server that answers requests is the one the PID file names, so that `vibe
\* stop` and `vibe status` find it: no command has removed the file under it.
ServerIsRecorded ==
  \A p \in Pids : proc[p] = "serving" => pidFile = p /\ written

\* Whoever removes the PID file removes its own or a dead process's, never the
\* file of a live one (RemovePID takes no argument: it cannot tell).
RemovesOwnOrDead ==
  [][pidFile # NoPid /\ pidFile' # pidFile
       => proc[pidFile] \in {"none", "removing"}]_vars

\* When `vibe stop` says "stopped", no server is left and neither is a file.
StoppedMeansGone ==
  [][\A k \in Cmds : at[k] = "unlink" /\ at'[k] = "idle"
       => pidFile' = NoPid /\ \A p \in Pids : ~Alive(p)']_vars

\* A server that stop has found and is about to signal ends, at whatever point
\* of its own start the signal meets it: before signal.Notify, before it listens,
\* serving, or already on its way out.
StopIsObeyed ==
  \A k \in Cmds, p \in Pids : at[k] = "term" /\ seen[k] = p ~> ~Alive(p)

\* The PID file of a dead server does not outlive the next commands, if the server
\* had come as far as writing its PID (IsRunning).
AskedForEver == []<>(\E k \in Cmds : at[k] = "read")
StaleFileIsCleaned ==
  AskedForEver =>
    \A p \in Pids : pidFile = p /\ written /\ ~Alive(p) ~> pidFile # p

\* A PID file whose creator died before it had written it: no command can read it,
\* so none removes it, and none starts a server any more.
EmptyFileLeft == pidFile # NoPid /\ ~written /\ ~Alive(pidFile)

\* A start ends with a server that serves, however many starts there are at once and
\* whatever other files earlier servers have left, unless it met one on its way out
\* or a server fails after it.
StartSucceeds ==
  \A f \in 0..MaxFailures :
    /\ failures = f /\ ~EmptyFileLeft
    /\ \A p \in Pids : ~Leaving(p)
    /\ \E k \in Cmds : at[k] = "clean.read"
    ~> failures > f \/ \E p \in Pids : proc[p] = "serving"

\* A server that serves on a unix socket is the one the path leads to: no other has
\* removed its file as stale (unix.go:13), or unlinked it on its way out.
ServerIsReachable ==
  \A p \in Pids : mode = "unix" /\ proc[p] = "serving" => sock = p

\* cmd/service.go:42, "Auto-restarts on crash": a server killed after it had
\* written its PID is replaced by one that serves.
RestartsOnCrash == failures = 1 /\ written ~> \E p \in Pids : proc[p] = "serving"

\* It is if somebody keeps asking for the status, and nobody for its end: IsRunning
\* removes the file that keeps launchd's server from starting.
RestartsWhenAsked ==
  /\ AskedForEver
  /\ <>[](\A k \in Cmds : cmd[k] # "stop")
  /\ [](\A k \in Cmds : cmd[k] # "uninstall")
  => RestartsOnCrash

\* Once launchd has unloaded the service its server ends, at whatever point of its
\* start it was, and none takes its place until the service is loaded again.
UninstallStops ==
  (\E k \in Cmds : at[k] = "delete") ~> loaded \/ \A p \in Pids : ~Alive(p)
=============================================================================
