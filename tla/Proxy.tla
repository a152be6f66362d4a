-------------------------------- MODULE Proxy --------------------------------
(***************************************************************************)
(* The path of a request through the proxy (internal/proxy): CORS, the     *)
(* choice between gateway and proxy, and the chain Auth -> Whitelist ->    *)
(* RateLimit -> ReverseProxy, with the secret store,                       *)
(* the upstream API, the client and the audit log around it.  Each request *)
(* is a goroutine of net/http; they meet in the limiter, the secret store  *)
(* and the log.                                                            *)
(*                                                                         *)
(* The limiter is used by its promise (SlidingWindow): at most Limit[s]    *)
(* admissions of s are in the window, and each leaves it in time.          *)
(***************************************************************************)
EXTENDS Integers, Sequences, FiniteSets, SequencesExt, Whitelist

CONSTANTS
  Requests,     \* the requests of one behaviour, each a goroutine
  Services,     \* configured services
  NoService,    \* no service: an empty header, no route in the context
  Headers,      \* the providers: one auth header (and scheme) each
  AuthHeader,   \* AuthHeader[s]: the provider of s
  Limit,        \* Limit[s]: admissions of s per window, unlimited if not positive
  BasePath,     \* BasePath[s]: the path of the target of s, <<"">> for none
  AllowedPaths, \* AllowedPaths[s]: the paths whitelisted for s
  GatewayPaths, \* the paths of the gateway, none if it is disabled
  Origins,      \* the origins CORS allows, none if it is disabled
  Inputs,       \* what clients send: [tokens: header -> service named, path, method,
                \* origin, large: the body is beyond 10 MB]
  Outcomes,     \* what can become of an upstream call
  MaxKey        \* bound: how often a key is stored in the secret provider

ASSUME AuthHeaderAssumption == AuthHeader \in [Services -> Headers]
ASSUME LimitAssumption      == Limit \in [Services -> Int]
ASSUME NoServiceAssumption  == NoService \notin Services
ASSUME OutcomesAssumption   ==
  Outcomes \subseteq {"plain", "stream", "broken", "refused", "reset", "timeout"}
ASSUME MaxKeyAssumption     == MaxKey \in Nat \ {0}
ASSUME InputsAssumption     ==
  /\ Inputs # {}
  /\ \A i \in Inputs : i.tokens \in [Headers -> Services \cup {NoService}]
\* What a split at the slashes gives: one element at least.
ASSUME PathsAssumption      ==
  LET Paths == {i.path : i \in Inputs} \cup {BasePath[s] : s \in Services}
                 \cup UNION {AllowedPaths[s] : s \in Services}
  IN \A p \in Paths : p \in Seq(STRING) /\ p # << >>
ASSUME HeadersAssumption    == IsFiniteSet(Headers)

VARIABLES
  order,        \* r.providers: the order in which NewRouter met the providers
  used,         \* used[s]: admissions of s in the current window
  key,          \* key[s]: the secret store; the n-th key stored, 0 for none
  in,           \* in[r]: the request as received
  at,           \* at[r]: what handles r next
  route,        \* route[r]: the service in the request's context
  held,         \* held[r]: the local realKey
  call,         \* call[r]: the auth headers upstream has received
  err,          \* err[r]: the error passed to ErrorHandler
  status,       \* status[r]: the status of the response being written
  stream,       \* stream[r]: WriteTimeout has been lifted for a streaming response
  reply,        \* reply[r]: the status written to the client, 0 for none
  cut,          \* cut[r]: why the client has not read it all: upstream broke off, or
                \*         its connection was closed or past WriteTimeout
  gone,         \* gone[r]: the client has closed the connection
  late,         \* late[r]: WriteTimeout has passed
  audit,        \* audit[r]: the statuses logged for r
  since,        \* history: since[r]: the secret store when r arrived
  admitted      \* history: admitted[r]: the service whose limiter let r in

shared == <<order, used, key>>
outside == <<gone, late>>
history == <<since, admitted>>
progress == <<in, at, route, held, call, err, status, stream, reply, cut, audit>>
vars == <<shared, outside, history, progress>>

(**************************** the router ***********************************)
Named(tokens, h) == tokens[h] \in Services

\* IdentifyRoute: the first provider, in the order of this server's map
\* iteration, whose header holds a token of a configured service.
IdentifyRoute(r) ==
  LET hits == {i \in DOMAIN order : Named(in[r].tokens, order[i])}
  IN IF hits = {} THEN NoService ELSE in[r].tokens[order[Min(hits)]]

Token(s) == [kind |-> "token", of |-> s, nr |-> 0]
RealKey(s, n) == [kind |-> "key", of |-> s, nr |-> n]
NoCall == [h \in Headers |-> Token(NoService)]

\* Rewrite: the route's own header is set to the real key; every other header
\* goes out as it came in.
InjectIntoFirst(r) ==                                           \* mutant
  LET h == CHOOSE g \in Headers : in[r].tokens[g] = route[r] IN
  [NoCall EXCEPT ![h] = RealKey(route[r], held[r])]

InjectKey(r) ==
  [h \in Headers |-> IF h = AuthHeader[route[r]] THEN RealKey(route[r], held[r])
                     ELSE Token(in[r].tokens[h])]

\* Rewrite: SetURL.
Forwarded(r) == JoinPath(BasePath[route[r]], in[r].path)

(**************************** the chain ************************************)
ChainLimitFirst == <<"auth", "limit", "whitelist", "secret">>   \* mutant
Chain == <<"auth", "whitelist", "limit", "secret">>

ServeNext(r) ==
  LET i == CHOOSE i \in DOMAIN Chain : Chain[i] = at[r]
  IN at' = [at EXCEPT ![r] = Chain[i + 1]]

Init ==
  /\ order \in {o \in [1..Cardinality(Headers) -> Headers] : IsInjective(o)}
  /\ used = [s \in Services |-> 0]
  /\ key \in [Services -> 0..1]
  /\ in = [r \in Requests |-> CHOOSE i \in Inputs : TRUE]
  /\ at = [r \in Requests |-> "idle"]
  /\ route = [r \in Requests |-> NoService]
  /\ held = [r \in Requests |-> 0]
  /\ call = [r \in Requests |-> NoCall]
  /\ err = [r \in Requests |-> "none"]
  /\ status = [r \in Requests |-> 0]
  /\ stream = [r \in Requests |-> FALSE]
  /\ reply = [r \in Requests |-> 0]
  /\ cut = [r \in Requests |-> "no"]
  /\ gone = [r \in Requests |-> FALSE]
  /\ late = [r \in Requests |-> FALSE]
  /\ audit = [r \in Requests |-> << >>]
  /\ since = [r \in Requests |-> key]
  /\ admitted = [r \in Requests |-> NoService]

Arrive(r) ==
  /\ at[r] = "idle"
  /\ \E i \in Inputs : in' = [in EXCEPT ![r] = i]
  /\ at' = [at EXCEPT ![r] = "outer"]
  /\ since' = [since EXCEPT ![r] = key]
  /\ UNCHANGED <<shared, outside, admitted, route, held, call, err, status, stream,
                 reply, cut, audit>>

\* mutant: the return after a refusal is missing
RejectAndServe(r, code, next) ==
  /\ reply' = [reply EXCEPT ![r] = code]
  /\ IF code \in {403, 429} THEN ServeNext(r) ELSE at' = [at EXCEPT ![r] = next]

\* A handler answers r itself and returns; some then write an audit entry.
Reject(r, code, next) ==
  /\ reply' = [reply EXCEPT ![r] = code]
  /\ at' = [at EXCEPT ![r] = next]

\* corsMiddleware answers a preflight from an allowed origin, before anything is
\* asked of it or logged; what goes on is the gateway's if its path is one of its
\* own, to the letter.
Outer(r) ==
  /\ at[r] = "outer"
  /\ IF in[r].method = "OPTIONS" /\ in[r].origin \in Origins
       THEN Reject(r, 204, "done")
       ELSE /\ at' = [at EXCEPT ![r] = IF in[r].path \in GatewayPaths THEN "gateway"
                                       ELSE Chain[1]]
            /\ UNCHANGED reply
  /\ UNCHANGED <<shared, outside, history, in, route, held, call, err, status, stream,
                 cut, audit>>

\* AuthMiddleware.  401 is not audited.
Auth(r) ==
  /\ at[r] = "auth"
  /\ IF IdentifyRoute(r) = NoService
       THEN Reject(r, 401, "done") /\ UNCHANGED route
       ELSE /\ route' = [route EXCEPT ![r] = IdentifyRoute(r)]
            /\ ServeNext(r) /\ UNCHANGED reply
  /\ UNCHANGED <<shared, outside, history, in, held, call, err, status, stream, cut, audit>>

\* What a policy middleware answers r with, 0 to serve it: a missing route is
\* 500 (and not audited), a refusal is `code`.
Verdict(r, refused, code) ==
  CASE route[r] = NoService -> 500
    [] route[r] # NoService -> IF refused[route[r]] THEN code ELSE 0

Refuse(r, code) == Reject(r, code, IF code = 500 THEN "done" ELSE "log")

\* WhitelistMiddleware.
Whitelist(r) ==
  LET v == Verdict(r, [s \in Services |-> ~Allowed(AllowedPaths[s], in[r].path)], 403) IN
  /\ at[r] = "whitelist"
  /\ IF v # 0 THEN Refuse(r, v) ELSE ServeNext(r) /\ UNCHANGED reply
  /\ UNCHANGED <<shared, outside, history, in, route, held, call, err, status, stream,
                 cut, audit>>

Full(s) == Limit[s] > 0 /\ used[s] >= Limit[s]

Admit(r) ==
  /\ used' = [used EXCEPT ![route[r]] = IF Limit[route[r]] > 0 THEN @ + 1 ELSE @]
  /\ admitted' = [admitted EXCEPT ![r] = route[r]]

\* RateLimitMiddleware.
RateLimit(r) ==
  LET v == Verdict(r, [s \in Services |-> Full(s)], 429) IN
  /\ at[r] = "limit"
  /\ IF v # 0 THEN Refuse(r, v) /\ UNCHANGED <<used, admitted>>
              ELSE Admit(r) /\ ServeNext(r) /\ UNCHANGED reply
  /\ UNCHANGED <<order, key, outside, since, in, route, held, call, err, status, stream,
                 cut, audit>>

(************************** the reverse proxy ******************************)
SecretCached(r) ==                                              \* mutant
  LET earlier == {held[q] : q \in {p \in Requests : route[p] = route[r] /\ held[p] > 0}}
  IN IF earlier = {} THEN key[route[r]] ELSE Min(earlier)
\* secrets.Get, asked again for every request.
SecretOf(r) == key[route[r]]

SecretUnchecked(r) ==                                           \* mutant
  /\ at[r] = "secret"
  /\ held' = [held EXCEPT ![r] = SecretOf(r)]
  /\ at' = [at EXCEPT ![r] = "send"]
  /\ UNCHANGED <<shared, outside, history, in, route, call, err, status, stream, reply,
                 cut, audit>>

\* No key stored: 500, not audited, though the limiter has counted the request.
Secret(r) ==
  /\ at[r] = "secret"
  /\ IF SecretOf(r) = 0
       THEN Reject(r, 500, "done") /\ UNCHANGED held
       ELSE /\ held' = [held EXCEPT ![r] = SecretOf(r)]
            /\ at' = [at EXCEPT ![r] = "send"]
            /\ UNCHANGED reply
  /\ UNCHANGED <<shared, outside, history, in, route, call, err, status, stream, cut, audit>>

Fails(r, e) ==
  /\ at' = [at EXCEPT ![r] = "error"]
  /\ err' = [err EXCEPT ![r] = e]

\* Rewrite and the outgoing half of RoundTrip: upstream has received InjectKey's
\* headers, and is asked for the path Forwarded(r).
Send(r) ==
  /\ at[r] = "send"
  /\ \/ /\ call' = [call EXCEPT ![r] = InjectKey(r)]
        /\ at' = [at EXCEPT ![r] = "waiting"]
        /\ UNCHANGED err
     \/ gone[r] /\ Fails(r, "canceled") /\ UNCHANGED call
     \/ "refused" \in Outcomes /\ Fails(r, "netOpError") /\ UNCHANGED call
  /\ UNCHANGED <<shared, outside, history, in, route, held, status, stream, reply, cut, audit>>

\* Upstream does not answer: the client's departure cancels the call, the connection
\* breaks, the upstream timeout passes, or MaxBytesReader ends the request's body.
NoAnswer(r) ==
  /\ at[r] = "waiting"
  /\ \/ gone[r] /\ Fails(r, "canceled")
     \/ "reset" \in Outcomes /\ Fails(r, "netOpError")
     \/ "timeout" \in Outcomes /\ Fails(r, "timeout")
     \/ in[r].large /\ Fails(r, "tooLarge")
  /\ UNCHANGED <<shared, outside, history, in, route, held, call, status, stream, reply,
                 cut, audit>>

Log(r, code) == audit' = [audit EXCEPT ![r] = Append(@, code)]

StreamKeepsDeadline(r) == stream' = [stream EXCEPT ![r] = TRUE] /\ UNCHANGED late \* mutant
\* SetWriteDeadline(time.Time{})
LiftDeadline(r) ==
  /\ stream' = [stream EXCEPT ![r] = TRUE]
  /\ late' = [late EXCEPT ![r] = FALSE]

\* Upstream's headers arrive: ModifyResponse, which writes the audit entry.
ModifyResponse(r) ==
  /\ at[r] = "waiting"
  /\ \E o \in Outcomes \cap {"plain", "stream"}, code \in {200, 400} :
       /\ status' = [status EXCEPT ![r] = code]
       /\ Log(r, code)
       /\ IF o = "stream" THEN LiftDeadline(r) ELSE UNCHANGED <<stream, late>>
  /\ at' = [at EXCEPT ![r] = "header"]
  /\ UNCHANGED <<shared, gone, history, in, route, held, call, err, reply, cut>>

\* The header is written to the client, who reads it if the connection still serves.
CopyHeader(r) ==
  /\ at[r] = "header"
  /\ reply' = [reply EXCEPT ![r] = status[r]]
  /\ IF gone[r] \/ late[r]
       THEN cut' = [cut EXCEPT ![r] = "unwritable"] /\ at' = [at EXCEPT ![r] = "done"]
       ELSE at' = [at EXCEPT ![r] = "body"] /\ UNCHANGED cut
  /\ UNCHANGED <<shared, outside, history, in, route, held, call, err, status, stream, audit>>

\* The body is copied to its end, or cut off by upstream, the client or the clock.
CopyBody(r) ==
  /\ at[r] = "body"
  /\ \/ ~gone[r] /\ ~late[r] /\ UNCHANGED cut
     \/ "broken" \in Outcomes /\ cut' = [cut EXCEPT ![r] = "upstream"]
     \/ (gone[r] \/ late[r]) /\ cut' = [cut EXCEPT ![r] = "unwritable"]
  /\ at' = [at EXCEPT ![r] = "done"]
  /\ UNCHANGED <<shared, outside, history, in, route, held, call, err, status, stream,
                 reply, audit>>

\* isClientDisconnect: any *net.OpError counts, the upstream dial's too.
LooksLikeDisconnect(e) == e \in {"canceled", "netOpError"}

\* ErrorHandler: a disconnect is logged as 499 and answered by nothing, anything
\* else is answered by 502 and logged.
ErrorHandlerSilent(r) ==                                        \* mutant
  /\ at[r] = "error"
  /\ IF LooksLikeDisconnect(err[r])
       THEN at' = [at EXCEPT ![r] = "finish"] /\ UNCHANGED reply
       ELSE Reject(r, 502, "log")
  /\ UNCHANGED <<shared, outside, history, in, route, held, call, err, status, stream,
                 cut, audit>>

ErrorHandlerFallsThrough(r) ==                                  \* mutant
  /\ at[r] = "error"
  /\ IF LooksLikeDisconnect(err[r]) THEN Log(r, 499) ELSE UNCHANGED audit
  /\ Reject(r, 502, "log")
  /\ UNCHANGED <<shared, outside, history, in, route, held, call, err, status, stream, cut>>

ErrorHandler(r) ==
  /\ at[r] = "error"
  /\ IF LooksLikeDisconnect(err[r])
       THEN Log(r, 499) /\ at' = [at EXCEPT ![r] = "finish"] /\ UNCHANGED reply
       ELSE Reject(r, 502, "log") /\ UNCHANGED audit
  /\ UNCHANGED <<shared, outside, history, in, route, held, call, err, status, stream, cut>>

\* net/http: a handler that returns without writing has answered 200.
FinishRequest(r) ==
  /\ at[r] = "finish"
  /\ reply' = [reply EXCEPT ![r] = 200]
  /\ at' = [at EXCEPT ![r] = "done"]
  /\ UNCHANGED <<shared, outside, history, in, route, held, call, err, status, stream,
                 cut, audit>>

\* mutant: copied from the whitelist
LogReplyAs403(r) ==
  /\ at[r] = "log"
  /\ Log(r, 403)
  /\ at' = [at EXCEPT ![r] = "done"]
  /\ UNCHANGED <<shared, outside, history, in, route, held, call, err, status, stream,
                 reply, cut>>

\* audit.Log after an answer of the proxy itself.
LogReply(r) ==
  /\ at[r] = "log"
  /\ Log(r, reply[r])
  /\ at' = [at EXCEPT ![r] = "done"]
  /\ UNCHANGED <<shared, outside, history, in, route, held, call, err, status, stream,
                 reply, cut>>

Handle(r) ==
  \/ Outer(r)
  \/ Auth(r)
  \/ Whitelist(r)
  \/ RateLimit(r)
  \/ Secret(r)
  \/ Send(r)
  \/ NoAnswer(r)
  \/ ModifyResponse(r)
  \/ CopyHeader(r)
  \/ CopyBody(r)
  \/ ErrorHandler(r)
  \/ FinishRequest(r)
  \/ LogReply(r)

(************************* clients, time, keys *****************************)
\* Earlier it makes no difference: nothing before Send looks at the connection.
Leave(r) ==
  /\ at[r] \in {"send", "waiting", "header", "body"} /\ ~gone[r]
  /\ gone' = [gone EXCEPT ![r] = TRUE]
  /\ UNCHANGED <<shared, late, history, progress>>

\* WriteTimeout passes; there is none on a response known to be streaming.
WriteTimeout(r) ==
  /\ at[r] \in {"waiting", "header", "body"} /\ ~late[r]
  /\ ~stream[r]
  /\ late' = [late EXCEPT ![r] = TRUE]
  /\ UNCHANGED <<shared, gone, history, progress>>

\* The oldest admission leaves the window.
Expire(s) ==
  /\ used[s] > 0
  /\ used' = [used EXCEPT ![s] = @ - 1]
  /\ UNCHANGED <<order, key, outside, history, progress>>

\* `vibe auth login` in another process.
StoreKey(s) ==
  /\ key[s] < MaxKey
  /\ key' = [key EXCEPT ![s] = @ + 1]
  /\ UNCHANGED <<order, used, outside, history, progress>>

Next ==
  \/ \E r \in Requests : Arrive(r) \/ Handle(r) \/ Leave(r) \/ WriteTimeout(r)
  \/ \E s \in Services : Expire(s) \/ StoreKey(s)

Spec == Init /\ [][Next]_vars

\* A handler keeps running: it waits for upstream at most as long as the upstream
\* timeout.  Clients need not come, and nothing else need happen.
FairSpec == Spec /\ \A r \in Requests : WF_vars(Handle(r))

(******************************* properties ********************************)
Called(r) == call[r] # NoCall
Audited(r) == audit[r] # << >>

Tokens == {Token(s) : s \in Services \cup {NoService}}
RealKeys == {RealKey(s, n) : s \in Services, n \in 1..MaxKey}

Places == {"idle", "outer", "gateway", "auth", "whitelist", "limit", "secret", "send",
           "waiting", "header", "body", "error", "finish", "log", "done"}

\* Every variable has its type, and no call is made with the key of an unchecked
\* secret lookup (proxy.go:117).
TypeOK ==
  /\ used \in [Services -> Nat] /\ key \in [Services -> 0..MaxKey]
  /\ in \in [Requests -> Inputs]
  /\ at \in [Requests -> Places]
  /\ route \in [Requests -> Services \cup {NoService}]
  /\ admitted \in [Requests -> Services \cup {NoService}]
  /\ held \in [Requests -> 0..MaxKey]
  /\ call \in [Requests -> [Headers -> Tokens \cup RealKeys]]
  /\ status \in [Requests -> {0, 200, 400}]
  /\ reply \in [Requests -> {0, 200, 204, 400, 401, 403, 429, 500, 502}]
  /\ cut \in [Requests -> {"no", "upstream", "unwritable"}]
  /\ stream \in [Requests -> BOOLEAN] /\ gone \in [Requests -> BOOLEAN]
  /\ late \in [Requests -> BOOLEAN]

\* Upstream is called only for a request that named the service in a header, whose
\* path that service's whitelist allows, and that its limiter let in (middleware.go).
ForwardIsAuthorised == \A r \in Requests :
  Called(r) => /\ \E h \in Headers : in[r].tokens[h] = route[r]
               /\ Allowed(AllowedPaths[route[r]], in[r].path)
               /\ admitted[r] = route[r]

\* What is checked is the cleaned path, what is forwarded is the path as the client
\* wrote it, after the target's own (whitelist.go:27, proxy.go:132).  Wherever its dots
\* and slashes lead, that is a whitelisted path or below one.  A ".." at the root is
\* dropped by path.Clean, but not after a target's path: such requests are excepted.
PathsStayInside == \A r \in Requests :
  LET base == Leads(BasePath[route[r]]) IN
  Called(r) /\ (base = << >> \/ ~Climbs(in[r].path)) =>
    \E e \in AllowedPaths[route[r]] : IsPrefix(base \o Leads(e), Leads(Forwarded(r)))

\* A request whose path is refused uses up nothing of the limit: the whitelist
\* stands before the limiter (proxy.go:73-77).
RefusedPathsAreFree == \A r \in Requests :
  admitted[r] # NoService => Allowed(AllowedPaths[admitted[r]], in[r].path)

\* The only secret upstream receives is the routed service's key, in that service's
\* own header, wherever the client put its token (router.go:58, proxy.go:134).
RightKeyOnly == \A r \in Requests :
  Called(r) =>
    /\ call[r][AuthHeader[route[r]]].kind = "key"
    /\ \A h \in Headers : call[r][h].kind = "key" =>
         h = AuthHeader[route[r]] /\ call[r][h].of = route[r]

\* A key stored before a request arrived is the one (or older than the one) that
\* is sent for it: the store is asked per request (proxy.go:115-116).
KeyIsFresh == \A r \in Requests :
  Called(r) => call[r][AuthHeader[route[r]]].nr >= since[r][route[r]]

\* No request is written to the log twice, whichever of the five places logs it.
AuditedOnce == \A r \in Requests : Len(audit[r]) <= 1

\* The log holds the status written to the client, unless it claims that the client
\* has left (499).
AuditTellsReply == \A r \in Requests :
  at[r] = "done" /\ Audited(r) /\ audit[r] # <<499>> => audit[r] = <<reply[r]>>

\* proxy.go:236, "isClientDisconnect returns true if the error indicates the client
\* closed the connection": whoever is logged as having left (499) has.
DisconnectIsClients == \A r \in Requests : audit[r] = <<499>> => gone[r]

\* proxy.go:139: a streaming response is not cut off by the server's WriteTimeout,
\* even one that began after it had passed; only the client or upstream ends it.
StreamsOutliveWriteTimeout == \A r \in Requests :
  stream[r] /\ cut[r] = "unwritable" => gone[r]

\* Every request that reached upstream ends up in the log.
ForwardsAreAudited == \A r \in Requests : Called(r) ~> Audited(r)
=============================================================================
