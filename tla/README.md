# VibeProxy in TLA+

VibeProxy is a local proxy that stands between AI agents and the APIs of OpenAI, Anthropic and others.
Agents hold dummy tokens (`vp-local-<service>`); the proxy checks a request against a path whitelist
and a rate limit, swaps the token for the real key from the OS keychain, forwards the request and logs
it. This directory holds TLA+ models of its parts, the TLC runs that check them on small instances,
and TLAPS proofs about the rate limiter, the proxy, the whitelist, the gateway, the daemon and
`vibe init`. Every invariant that a passing run checks is also a theorem, those of the daemon, its
types apart, only under one of two conditions (`Peaceful`, `Serial`; see "The proofs"). Paths such as
`proxy.go:117` are relative to the package named; `PROJECT.json` maps every definition to its lines.

    tlc -workers 2 -config RateLimiterServices.cfg MCRateLimiter.tla   # a run: a .cfg and its MC module
    tlapm ProxyProofs.tla                                              # the proofs of a module

## The system

| Component | State | Operations | Meets |
|---|---|---|---|
| Rate limiter, `internal/policy/ratelimit.go` | one mutex, a ring buffer of time stamps per service | `Allow` | called by every request goroutine of proxy and gateway |
| PID file and commands, `internal/daemon/daemon.go`, `cmd/start.go`, `stop.go`, `status.go` | `~/.vibeproxy/vibeproxy.pid`, the server process, a pending SIGTERM | `start`, `stop`, `status`, `WritePID`, `CleanStalePID`, `IsRunning`, `Shutdown` | separate processes: they share the file, and signals |
| Unix socket, `internal/proxy/unix.go` | the socket file | remove, bind, unlink on close | servers that start, serve and stop |
| launchd service, `internal/daemon/launchd.go`, `cmd/service.go` | the plist, the loaded job | install, uninstall; KeepAlive | starts `vibe start --foreground`, signals it |
| Proxy path, `internal/proxy/` | per request: route, key, response; the router's provider list | CORS, dispatch, Auth, Whitelist, RateLimit, ReverseProxy | limiter, secret store, upstream, client, audit log |
| Whitelist, `internal/policy/whitelist.go` | none after start | `Allowed` | proxy |
| Gateway, `internal/gateway/` | per request: translator state, stream position | `ServeHTTP`, `handleStream`, `handleNonStream`, the translators | limiter, secret store, upstream, client, audit log |
| Configuration and init, `internal/config/`, `cmd/init.go` | `vibeproxy.yaml`, `.gitignore`, `.env` | `vibe init`, `Load` | files that people, git and agents read |
| Tokens, `internal/token/` | none | `ForService`, `ServiceFrom` | router, gateway, init |
| Secrets, `internal/secret/`, `internal/keychain/`, `cmd/auth*.go` | the keychain | `New`, `Get`, `Set` | read per request, written by `vibe auth login` |
| Audit log, `internal/logging/`, `cmd/logs.go` | an append-only file behind a mutex | `Log`; `vibe logs` | every request |
| Error bodies, `internal/proxy/errformat.go`; `cmd/root.go` | none | formatting; cobra glue | see "Not modelled" |

What is hard about it: goroutines and a running clock inside `Allow`; independent processes that
check a file and then remove it; a server that can be killed between any two of its own steps;
responses that client, upstream and clock may each cut off; a stream whose body, protocol and
connection each have an end of their own; one answer translated by two pieces of code; files that are
created before they are filled, by commands that may be killed in between; three spellings of a
service's name. `PROJECT.json` lists the hazards line by line.

What makes each part correct, in a sentence:

- *Limiter*: over any window no more than the limit is admitted, as if each call looked at clock and
  history at one instant; every call returns; a full window reopens.
- *Daemon*: at most one server; the PID file names it and the socket leads to it; nobody removes a
  live server's file; stop stops, start starts, a stale file goes away; an uninstalled service ends.
- *Proxy*: nothing is forwarded that was not authorised, whitelisted and counted; the right key goes
  out, once, in the right header, on a path that leads below a whitelisted one; what reached upstream
  is logged once, truly; streams outlive WriteTimeout.
- *Gateway*: upstream is asked what the client asked; the client reads a prefix of what upstream
  said; `[DONE]` means all of it, and the same as without streaming; what called upstream is logged,
  with the status the client saw.
- *Setup*: git never sees `.env`; whoever follows the steps gets a token that is served.

## The modules

| Module | Models | Form |
|---|---|---|
| `SlidingWindow` | what `Allow` promises: decide at one instant against the whole history | abstract specification |
| `RateLimiter` | `ratelimit.go`, statement by statement where shared state or the clock is touched | implements `SlidingWindow` |
| `Daemon` | the commands, the server process, the socket and launchd, as sequences of system calls | one state machine |
| `Whitelist` | `path.Clean` and `Allowed` on path segments, and where a path leads, as a reference | operators |
| `Proxy` | the request path from CORS to the end of the response; extends `Whitelist` | one process per request |
| `Anthropic` | the translator to and from Anthropic's format, of requests, answers and events | operators |
| `Gateway` | `Gateway.ServeHTTP` and the relay of streams; extends `Anthropic` | one process per request |
| `Setup` | `vibe init`, `vibe auth login`, edits, loading, and what an agent's token is then worth | one state machine |
| `RateLimiterProofs`, `ProxyProofs`, `GatewayProofs`, `DaemonProofs`, `SetupProofs` | theorems for every value of the constants | TLAPS |
| `WhitelistProofs`, `TranslatorProofs` | what the operators of `Whitelist`, `Anthropic` and `Gateway` make of data of any length | TLAPS |
| `Recursion` | induction, recursive functions, `FoldLeft` and `FlattenSeq` | TLAPS |
| `MC*` | the instances TLC checks | constants only |

`Proxy` and `Gateway` use the limiter through its abstract promise (a counter that admission
increments below the limit, and that `Expire` decrements); `RateLimiter` is the module that shows the
code keeps the promise.

### RateLimiter

`lock` is `rl.mu`, `windows` is `rl.windows` with the fields of the Go struct `window` (the slice is
`buf`, its length `Limit[s]`), `pc` is where each goroutine is in `Allow`, `cutoff` the argument of
`evict`. `log` is history. A call is `Call`, then `FastAllow` for a service without a limit, or
`Acquire` (lock and window lookup), `StartEvict` (the first `time.Now()`), `EvictOne` for each turn of
the loop, `Deny` or `Room`, and `Push` (the second `time.Now()`, and the deferred unlock). `Tick` may
come between any two of these, so both readings of the clock of one call, and waiting for the mutex,
can take any time. Time is Go's monotonic clock in whole ticks; equal readings are the boundary case
that `Before` decides.

### Daemon

`pidFile` and `written` are the file: who created it, and whether its PID has been written (the two
halves of `WritePID`). `proc[p]` is how far a server process is in `runForeground`, `lstn[p]` how far
the goroutine is that listens, `term[p]` a signal in its `sigCh`. `at[k]` is the next system call of
the command in terminal `k`, `seen[k]` the PID it has read. `CleanStalePID` and `IsRunning` are both
read, probe, remove; `start` runs the one and then the other. `Crash` is anything that runs no
deferred call.

The socket file is `sock`, the server that bound it. `listenUnix` first removes what is in its way
(`ClearSocket`), then binds (`Bind`); closing the listener unlinks the path. A server told to stop
before it listens may still bind: Go's `Serve` then closes the listener at once, unless the process is
gone first. `service install` is `WritePlist` and `Load`, `service uninstall` is `Stat`, `Unload` and
`Delete`; launchd itself is `KeepAlive` and the signal of `Unload`.

Which commands are typed (`Programs`), which of them while others run (`Concurrent`), whether only as
long as nothing has failed (`CalmOnly`), how servers listen (`Modes`) and what fails (`Faults`) are
constants: an instance says what it takes for granted. Abstractions: the TCP port has one owner at a
time; a PID is not reused while a file or a command still refers to it, and no foreign process has
one. The ten seconds of `stop` and the five of `Shutdown` are not measured: `Timeout` may come
whenever the process is still alive.

### Proxy and Whitelist

`at[r]` says what handles a request next. `Outer` is CORS and the dispatch to the gateway (by exact
path; the gateway itself is `Gateway`). `Chain` is the order `buildChain` assembles, and each handler
is an action: `Auth`, `Whitelist`, `RateLimit`, `Secret`, then `httputil.ReverseProxy` as `Send`,
`NoAnswer` or `ModifyResponse`, `CopyHeader`, `CopyBody`, `ErrorHandler`, `FinishRequest`. A body
beyond 10 MB is one of the ways to get no answer: `MaxBytesReader` fails while the body is being sent.
`order` is the iteration order of the Go map from which `NewRouter` took the providers, a different
one at every start. A "header" is a provider, that is a header name with its scheme; a token is the
service it names (or none); a key is a service and a number that grows each time one is stored.
`Leave`, `WriteTimeout`, `Expire` and `StoreKey` come from outside, at any time. `reply` is the status
the handler writes to the client, `cut` tells why the client may not have read it all, `audit` is what
`Log` appended.

A path is the sequence of its segments. `Clean` is `path.Clean` as a fold of
`CleanElement`, what becomes of one element, `Allowed` the test of the
code on the cleaned path. What is forwarded (`Forwarded`) is the path as it came, joined by
`ReverseProxy`'s `SetURL` to the path of the service's target (`BasePath`, `JoinPath`; `proxy.go:132`).
`Leads` is independent of both: it walks the path from the root, and `PathsStayInside` compares where
that ends with the entries. `Climbs` says that a ".." stands where there is nothing to go back to.

### Gateway and Anthropic

`at[r]` is the position in `ServeHTTP`. `answer` is what upstream has to say, `script` the events it
streams that in, of which `sent` have left it and `read` been read by the translator's `Next`; `id` is
the translator's field; `ended` is how the body ended; `out` is what the client was written.
`Question` is what upstream is asked. `Yields` is what either translator makes of one event: OpenAI's
pass, Anthropic's are translated, skipped, or end the stream (`ChunkOf`). `TranslateResponse` is the
other path to the client, for whole answers; `EventsOf` is how Anthropic's API streams one (external).
A text is the sequence of the fragments it is streamed in, so that the two can be compared.
`resolveService` tries prefixes in the order of a map: the model chooses any that matches.
`Disconnect` is the client closing its connection or WriteTimeout passing, which the gateway never
lifts. An upstream error status is copied as it is; 400 stands for all. Left out: usage counters,
time stamps, names of models, sampling options, and the two errors of building a request from values
already decoded. `Decode` is the answer that is translated as a whole: reading its body may fail, by a
reset or the client's 120 seconds, or it may not be what the translator knows, and then the answer is
502. Each place that logs has a status of its own (`log429`, `log502`, `logError`, `logOK`), as in the
code; `logOK` logs 200 whatever `Decode` has answered.

### Setup

`os.WriteFile` creates a file and then fills it: `CreateYaml` and `FillYaml`, `CreateEnv` and
`FillEnv` are steps of their own, and so are the reading of `.gitignore`, the newline and the entry
that are appended to it. `gitignore` holds what the code can tell apart and what git does: whether a
line of it ignores `.env`, whether ".env" occurs in it at all, whether it ends in a newline. Inits run
in several terminals and may be killed between any two steps. `Lower` is viper's folding of keys,
`Safe` the names a token can carry, `Login` stores a key under the name as typed. `Answer` is what the
server answers to a token of `.env`.

## The runs

A *violation* run states a sentence of the repository and shows the program contradicting it; see
"Where code and text disagree".

| Run | Question | Instance |
|---|---|---|
| `RateLimiterServices` | Is the limit kept, is the ring exactly what still counts, does the code implement `SlidingWindow`; does every call return; does a full window reopen? | 2 goroutines, limits 1, 2 and none, window 1, clock to 3 |
| `DaemonCommands` | One server, found by its PID file, reached by its socket? Does start start and stop stop? | 2 terminals with start, stop, status; 3 PIDs; TCP or unix; 2 failures |
| `DaemonLive` | Are stops and uninstalls obeyed, stale files removed, crashed servers replaced? | launchd, 2 terminals with stop, status, install, uninstall at any time, 2 PIDs, 1 crash |
| `ProxyPolicy` | Is everything forwarded authorised, where the whitelist says, with the right and current key? | 2 requests, 2 services of limit 1, one target with a path, both provider orders, keys stored up to twice |
| `ProxyAudit` | Is the log true, whatever happens to the response? | 1 request of every kind, every outcome |
| `GatewayRequests` | Are questions and answers translated, streams relayed and statuses logged truly? | 2 requests of ten kinds, 3 services, a shared limit of 1 |
| `Setup` | Does git never see `.env`; is an agent served after the steps of the README? | 2 terminals, 5 names, 4 configurations, 4 states of `.gitignore`, 1 kill, 1 edit |
| `DaemonStaleRace` | violation of `OneInstance` | 2 starts after 1 crash |
| `DaemonLaunchd` | violation of `RestartsOnCrash` | launchd, 1 crash, no command |
| `ProxyDisconnect` | violation of `DisconnectIsClients` | 1 request, upstream refusing or resetting |
| `GatewayUpstreamError` | violation of `DoneMeansComplete` | 1 request for a stream of Anthropic's, which ends with an error event |
| `SetupGitignore` | violation of `EnvIsIgnored` | 1 init, a `.gitignore` that mentions `.env` |

Why these bounds are enough to meet the interesting cases:

- *Limiter.* A ring of two slots and a clock of three windows lets the ring wrap round, with evictions
  of none, some and all entries before a push; one goroutine is inside while another waits. That any
  larger instance behaves the same is proved, not inferred.
- *Daemon.* A race over a file needs two commands. Three PIDs are a dead server, a live one and one
  coming up. In `DaemonCommands` start and status overlap as long as nothing has failed, and stop and
  whatever follows a failure run one at a time: `DaemonStaleRace` shows what happens otherwise. In
  `DaemonLive` everything overlaps, as liveness must not depend on luck.
- *Proxy.* The requests interact through limiter and key store only, so two suffice; the response
  path of one request does not depend on the other, so `ProxyAudit` has one and all outcomes.
  `ProxyPolicy` lets upstream never answer: its properties are about what is sent. Of its two targets
  one is the root and one has a path with a slash at its end, the two cases `JoinPath` tells apart.
- *Gateway.* The conversation has a system message in its middle; Anthropic's answer is text, a tool
  call, text, cut off by `max_tokens`. Its streams have an event of each kind `Next` distinguishes
  before and after every point where the body may break off.
- *Setup.* Names that are folded, that no token can carry, and that neither happens to; every state of
  `.gitignore` the code can tell apart.

Symmetry (`Permutations`: requests in `ProxyPolicy`, terminals in `Setup`) is used in runs of safety
properties only, and no `CHOOSE` in them depends on the permuted sets. Deadlock is checked for limiter,
daemon and setup (`DaemonLaunchd`, a run that is to fail, does not look at it). Proxy and gateway stop
when all requests have been answered, so it is off there.

### Properties worth a comment

- `WindowBound` is about *successive admissions*, not about windows aligned with anything: the stamp
  of admission n + limit is more than a window after that of admission n.
- `EvictedAreOld` fails if `Before` were `!After`; `PushHasRoom` is `push`'s own comment
  (`ratelimit.go:27`), and needs the mutex to be held from the check to the push.
- `RemovesOwnOrDead` says what an argument of `RemovePID` could check and its absence cannot.
- `StopIsObeyed` covers a SIGTERM that meets the server between `WritePID` and `signal.Notify` (it
  dies and leaves its file), between `Notify` and listening, while serving and while leaving;
  `UninstallStops` the same for launchd's signal, perhaps at the same time.
- `ServerIsReachable` needs both: the PID file keeps a second server from removing the first one's
  socket, and a server on its way out from unlinking its successor's.
- `StartSucceeds` counts a start that found a server running, and excepts one that met a server on its
  way out, one with a failure after it, and an empty PID file (see below).
- `RestartsWhenAsked` is the weaker form of `RestartsOnCrash` that holds: somebody's `vibe status`
  removes the file in launchd's way.
- `KeyIsFresh` allows a key stored after the request arrived; it forbids one replaced before.
- `PathsStayInside` is about the path as forwarded, `ForwardIsAuthorised` about the one checked. What is
  forwarded must lead, after where the target's own path leads, to an entry or below one. It excepts a
  path that climbs, where the target has a path: "/../v1" is cleaned to "/v1", but after "/openai" it
  leads to "/v1" and not to "/openai/v1".
- `StreamsOutliveWriteTimeout` includes a stream whose headers come after WriteTimeout has passed, as
  clearing the deadline makes the connection writable again.
- `DoneMeansComplete` in `GatewayRequests` is about upstreams that report no failure. HTTP framing
  makes a broken chunked body an error, which the model has; a body framed by closing the connection
  can be truncated silently, and no code could tell that from its end: it is not modelled.
- `StreamAgreesWithWhole` compares two translators of the same answer, over all fragments of a stream
  that was told to be complete; a tool call lost by both is not a difference.
- `AuditTellsReply` of `Gateway` has one exception, which contradicts the repository's `README.md:160`
  ("status codes" in the audit log) and is spelt out in it: an answer that was to be translated as a
  whole and broke off or did not decode is 502 for the client and 200 in the log.
- `AgentIsServed` ties together init, viper, tokens, the keychain and the router: every configured
  service has a token in `.env`, and it is served if its name is made of a-z, 0-9 and hyphens and
  refused otherwise. It supposes a key in the keychain, under the name as viper folds it, and says
  nothing of keys from the environment, nor of what follows an init that was killed or met another,
  or an edit after `.env` was written; these are listed below.

## Fairness

- *Limiter.* A goroutine in `Allow` keeps running (WF of its steps). `Acquire` has strong fairness: a
  `sync.Mutex` goes into starvation mode when a waiter has waited 1 ms and is then handed over in
  order, so no waiter is overtaken for ever. Time passes. Nobody is bound to call: `WindowReopens`
  therefore assumes, in the property, a client that keeps calling.
- *Daemon.* Processes are scheduled (WF of a server's and a command's next step), and launchd restarts
  a KeepAlive job. No command need be typed, nothing need fail.
- *Proxy.* WF of the handler. In `waiting` it is the transport's ResponseHeaderTimeout that ends the
  wait, in the body the copy that goes on or fails.
- *Gateway.* WF of the handler, and of the end of the response body: `http.Client.Timeout` of 120 s
  covers reading the body (`handler.go`, `client := &http.Client{...}`).
- *Setup.* None: it has safety properties only.

## The proofs

| Module, theorem | Statement |
|---|---|
| `RateLimiterProofs` `TypeCorrect` | `Spec => []TypeOK`: no index leaves the slice |
| `RateLimitHolds` | `Spec => []WindowBound` |
| `RingIsFaithful`, `EvictionIsSafe`, `MutexProtects`, `PushIsSafe` | `Spec => []` of `RingIsLogSuffix`, `EvictedAreOld`, `Owner`, `PushHasRoom` |
| `Refinement` | `Spec => ImplementsSlidingWindow` |
| `ProxyProofs` `Authorised`, `RefusalIsFree`, `OneKeyPerCall`, `StoredKeyIsUsed` | `Spec => []` of `ForwardIsAuthorised`, `RefusedPathsAreFree`, `RightKeyOnly`, `KeyIsFresh` |
| `LoggedOnce`, `LogIsTrue`, `StreamsLast` | `Spec => []` of `AuditedOnce`, `AuditTellsReply`, `StreamsOutliveWriteTimeout` |
| `TypeCorrect` | `Spec => []TypeOK`: above all, no call with the key of a failed lookup |
| `PathsLeadInside` | `Spec => []PathsStayInside` |
| `WhitelistProofs` `PrefixLeads` | if `Clean(p)` begins with `e`, then where `p` leads begins with where `e` leads |
| `JoinedLeads` | `Leads(JoinPath(b, p)) = Leads(b) \o Leads(p)`, unless `p` climbs and `b` leads somewhere |
| `GatewayProofs` `TypeCorrect`, `StreamsAreFaithful` | `Spec => []` of `TypeOK`, `StreamIsPrefix` |
| `DoneIsTheEnd`, `StreamsTellTheAnswer` | `"reported" \notin Faults` implies `Spec => []` of `DoneMeansComplete`, `StreamAgreesWithWhole` |
| `NothingIsLost` | `PlainConversations` implies `Spec => []ConversationIsKept` |
| `LogIsTrue` | `Spec => []AuditTellsReply` |
| `DaemonProofs` `OneOfManyStarts`, `WinnerIsRecorded` | `Peaceful` implies `Spec => []` of `OneInstance`, `ServerIsRecorded` |
| `TypeCorrect` | `Spec => []TypeOK` |
| `OneByOneIsRecorded` | `Serial` implies `Spec => []` of `OneInstance`, `ServerIsRecorded` and `ServerIsReachable` |
| `OneByOneStops`, `OneByOneRemoves` | `Serial` implies `Spec =>` `StoppedMeansGone`, `RemovesOwnOrDead` |
| `SetupProofs` `EnvStaysOut` | `Honest` implies `Spec => []EnvIsIgnored` |
| `TypeCorrect`, `AgentsAreServed` | `Spec => []` of `TypeOK`, `AgentIsServed` |

They hold for any sets of goroutines, services, requests, terminals and inputs, and any limits, window
and bounds, under the assumptions named in the modules: limits are integers, `Window` and `MaxTime`
naturals, the value of a free mutex is no goroutine, there is a service (limiter); there are finitely
many providers, each service has one, clients' headers name services or none, a path has an element,
a target's path too (`PathsAssumption`: what splitting at slashes gives), a key can be stored (proxy); conversations and
answers are what their types in `types.go` say, a reason to stop is a string (`InputsAssumption`,
`AnswersAssumption`; gateway); `NoPid` is no process (daemon); `.gitignore` begins in one of the five
states of `Gitignored`, a file that is not there is not one without tokens (setup). Some theorems name
a condition more. `"reported" \notin Faults` leaves out upstreams that report a failure inside a
stream: there the code does otherwise, see "Where code and text disagree". `PlainConversations` is at most one system message, and that not empty. `Honest`,
`Peaceful` and `Serial` are explained below.

*Limiter, the invariant.* `WindowBound` is not inductive: whether a push keeps it depends on what the
ring has forgotten. `IInv` says the ring is the last `count` entries of the log (`RingIsLogSuffix`),
that everything before them is older than the window (`EvictedAreOld`), that stamps are ordered and
not in the future (`StampsInOrder`), that the cutoff of a call inside `evict` is at most now - Window
and above all that has been evicted (`CutoffIsCurrent`), that only the mutex's holder is inside
(`Owner`), and that room found stays room until the push (`PushHasRoom`). At a push count < limit, so
the limit-th last admission is out of the ring, hence older than the window: `WindowBound`.
`SlotValue`, `EvictRing` and `PushRing` are about the ring alone: modular indexing, and what one
eviction or push leaves where it was. One lemma per action preserves `IInv`; `NextInvariant` joins
them.

*Limiter, the refinement.* An admission takes effect at `Push`. A denial takes effect earlier, when
the cutoff is read: from then on the limit-th last admission is not evictable and nobody else can
push, so the verdict is fixed although evicting goes on and the clock runs (`Doomed`). `Verdict` maps
the program counter accordingly, and `RefinementStep` shows each action is a step of `SlidingWindow`
or a stutter.

*Proxy, what is sent.* `IInv` adds to the four properties what each middleware leaves behind for the
next (`Passed`): before the whitelist a route that some header names, before the limiter an allowed
path, before the secret lookup an admission of that route, before the call a key at least as new as
the one stored at arrival. It needs that the router returns an element of the headers whatever the
order of providers is (`RouteIsNamed`), and that `buildChain`'s order is followed (`NextInChain`).
Most steps decide nothing (`Onwards`) or change one request (`Alone`); both are lemmas of their own.

*Proxy, what is logged.* `Books` says which entry a request may have at each point of its way: none
before the step that may log, then the status that has been or is about to be written, or 499; and
that a stream has no deadline. A step changes one request's `Page`.

*Proxy, types.* `Keyed` is `TypeOK` in groups, with the fact that a request about to be sent holds a
key; it uses `IInv` for the route.

*Data of any length.* Paths, conversations and streams are sequences, and what the operators make of
them is computed by recursive functions and folds. The provers cannot instantiate an induction theorem
that has an operator as its parameter; `Recursion` states induction with a *set*, that of the numbers
or sequences that have the property. It follows from `WFMin`, which has no such parameter: a set of
numbers has a least one (`LeastNumber`), so what is kept by the next number holds of all (`UpTo`), so
what is kept by one more element holds of all sequences (`ElementByElement`). A recursive definition
needs that its function exists (`Recursive`, `FoldExists`), before it says anything of its values.
`FlattenSeq` of a sequence of images is `Mapped`; it distributes over concatenation (`MappedConcat`)
and composes (`MappedTwice`).

*Whitelist.* The walk of `Leads` and the fold of `Clean` go side by side: after each element, where
the walk has come is what the fold has kept (`CleanLeads`), and the fold keeps no dots and no empty
elements. So an entry that the cleaned path begins with has none after its first slash either,
unless it is "/" itself, and leads to what it spells. After a target's path a walk does to its end what
it does from the root (`JoinedLeads`, one element at a time: `ElementAfter`), as long as no ".." finds
nothing of its own to go back to. `PathsLeadInside` follows with `Authorised`, which is about the path
as checked.

*Gateway, the log.* `Books` says what may have been written and logged at each point: nothing is
logged before the end of `ServeHTTP`; at each place that logs a literal that status has been written,
but at the last one, where 502 may have been if the answer was to be translated as a whole.

*Gateway, the streams.* `StreamIsPrefix` is not inductive: a step may add what the next event does not
say. `Streaming` says exactly what has been written: `Said(r)`, the translation of the events read so
far, and after the last of them perhaps one `[DONE]`; that the id carried by the translator is the
answer's once the first event is read; and that a stream still relayed has said no `[DONE]`
(`NotYetDone`). Reading one more event appends its translation (`RelayedNext`); `[DONE]` is what
only the last event yields (`DoneComesLast`). `Types` adds that the translator is never ahead of
upstream. For `StreamsTellTheAnswer`, `Agrees` says what the translation of all but the last event
has in common with the whole answer: id, text, and a reason to stop in its last chunk. It is shown of
Anthropic's streams block by block and fragment by fragment (`BlockSays`, `MiddleSays`).

*Gateway, the questions.* `Asked` says upstream was asked `Question` of the conversation.
`QuestionTells` shows of any conversation with one system message at most that moving it to the front
loses nothing and leaves the others in order.

*Daemon.* The properties are false without a condition, as `DaemonStaleRace` shows, and each of the two
conditions has an invariant of its own. `Peaceful`: nothing fails, is stopped or run by launchd, but any
number of commands overlap. Then the file, once there, is that of the one process past O_EXCL, and a
command that has read a PID has read that one's (`Reads`), so none comes to remove it. `Serial`: each
command is typed when the last one and its server have come to rest, but servers fail and are killed
anywhere. Then a file is its living owner's or a dead process's (`Owned`), and what a command has
found out still holds when it acts on it (`Knows`): the PID it probes is that of the only process
there is, and where it removes the file there is none.

Types of the daemon (`TypeCorrect`) need no condition.

*Setup, `.gitignore`.* `IInv` says that whoever is past `ensureGitignoreEntries` has `.env` listed, that whoever is
about to append has a line of its own to do it on, and that a `.gitignore` which mentions `.env`
ignores it. The last is kept by every step but is the assumption `Honest` about the first
`.gitignore`; `SetupGitignore` shows what happens without it.

*Setup, agents.* `Agreed` says, as long as there was no `trouble` (an init killed, two at once, an
edit after `.env` was written), that one init at most is under way and has loaded what is configured,
and that a filled `.env` has a token for every service of `vibeproxy.yaml`; and, always, that a server
runs with one of the backends `New` knows.

Only model-checked: liveness (`CallReturns`, `WindowReopens`, `StartSucceeds`, `StopIsObeyed`,
`StaleFileIsCleaned`, `RestartsWhenAsked`, `UninstallStops`, `ForwardsAreAudited`, `CalledIsAudited`),
as TLAPS 1.4 has no rules for fairness and `ENABLED`; and the safety of `Daemon` where the conditions
of its theorems meet: starts that overlap, as `Peaceful` allows, in a run with stops and failures, as
`Serial` allows. `DaemonCommands` checks that. No module uses RECURSIVE operators.

## Where code and text disagree

Shown by a run:

1. `DaemonStaleRace`. Two starts find the file of a crashed server. The first cleans up and its server
   comes up; the second, which had probed the dead PID, now removes the new file, and its server
   creates another. Both are past `WritePID`. `daemon.go:18` and the repository's `README.md:188`
   promise O_EXCL prevents this. With one TCP port the second server then fails to listen, and its
   deferred `RemovePID` leaves the first one without a file; on a unix socket it takes the first one's
   path.
2. `DaemonLaunchd`. `vibe start --foreground` does not call `CleanStalePID`: after a crash launchd's
   restarts fail on the stale file. `service.go:42` prints "Auto-restarts on crash".
3. `ProxyDisconnect`. A refused or reset connection to upstream is a `*net.OpError`, which
   `isClientDisconnect` takes for the client's: 499 in the log, an empty 200 for the client.
4. `GatewayUpstreamError`. Anthropic's `error` event is skipped, and the client is told `[DONE]`.
5. `SetupGitignore`. `ensureGitignoreEntries` looks for ".env" anywhere in the file: a `.gitignore`
   with `.env.example` or `!.env` counts as ignoring `.env`.

Seen while modelling, in the models but without a run of their own:

- The race of `DaemonStaleRace` needs no crash: a server that fails to listen, or a stop that times
  out and is followed by starts, leads to the same removal of another's file. `stop` itself removes
  the file once the server is gone, by when launchd's next one may have created its own.
- A server killed between creating its PID file and writing it (`daemon.go:23`, `:31`) leaves an empty
  file, which `ReadPID` cannot parse and nothing ever removes. `StartSucceeds`, `StaleFileIsCleaned`
  and `RestartsWhenAsked` except it.
- A failed secret lookup answers 500 unlogged although the limiter counted the request
  (`proxy.go:117`); so do the gateway's 400 and 500 (`handler.go:95-142`). Preflights and 401 are not
  logged either. The repository's `README.md:140-144` draws "Response → Audit log" for all.
- A whole gateway answer that breaks off or does not decode is 502 for the client (`handler.go:196`)
  and 200 in the log (`handler.go:169`), where the repository's `README.md:160` promises status codes.
  `AuditTellsReply` of `Gateway` names it as its exception.
- 401 always has the generic body: no route is known yet that would say which provider's format to
  use, where the repository's README has "Provider-compatible error responses".
- The chunks of a stream carry upstream's name of the model, the whole answer the one requested. Of
  several system messages only the last reaches Anthropic. `ConversationIsKept` allows one.
- An init killed after creating `vibeproxy.yaml` leaves an empty one, which the next takes for the
  user's: it says "Done!" and writes a `.env` without tokens. Services added after `.env` was written
  never get a token there. `AgentIsServed` excepts both.
- A service with an underscore in its name gets a token from init that the router always refuses
  (`token.go:38`), as `AgentIsServed` says; `vibe auth login` stores keys under the name as typed, while viper has folded the
  configuration's to lower case, and always in the keychain, whatever `secret_backend` says.

## Not modelled, and the plan

| Part | Why, or when |
|---|---|
| Error bodies (`errformat.go`), CORS headers, `vibe logs`, `cmd/root.go` | wording, stateless headers, one reader of one file, glue |
| 101 upgrades, ReadTimeout, retries and idle connections inside `net/http` | the standard library's; the transport made per request (`proxy.go:123`) is listed as a hazard |
| PID reuse by unrelated processes | nothing in the file tells them apart; listed as a hazard |
| A keychain or a log that fails, an environment that changes | nothing in the code reacts beyond the error answered |
| Names of models, sampling options, usage counters | handed on by the translators |
| Proofs about `Daemon` with stops that overlap starts, as long as nothing has failed | next: `DaemonCommands` checks starts and status that do, but the two conditions proved do not meet there |
| `Proxy` with `RateLimiter` in place of its counter, as a refinement | next |
| `vibe logs` reading while a line is being appended | open |
