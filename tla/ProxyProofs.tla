---------------------------- MODULE ProxyProofs ----------------------------
(***************************************************************************)
(* Whatever the services, providers, inputs and outcomes, and for any      *)
(* number of requests at once: what the proxy forwards was authorised, and *)
(* with the right key.                                                     *)
(***************************************************************************)
EXTENDS Proxy, WhitelistProofs, TLAPS, FiniteSetTheorems

(************************* the router and the chain ************************)
LEMMA MinIsElement ==
  ASSUME NEW S, S \subseteq Nat, S # {}
  PROVE  Min(S) \in S
<1>1. \E x \in S : \A y \in S : x <= y
  BY LeastNumber
<1> QED  BY <1>1 DEF Min

\* The token IdentifyRoute accepts is one of a configured service, and in a header.
LEMMA RouteIsNamed ==
  ASSUME NEW r \in Requests, order \in [1..Cardinality(Headers) -> Headers],
         IdentifyRoute(r) # NoService
  PROVE  /\ IdentifyRoute(r) \in Services
         /\ \E h \in Headers : in[r].tokens[h] = IdentifyRoute(r)
<1> DEFINE hits == {i \in DOMAIN order : Named(in[r].tokens, order[i])}
<1>1. hits # {} /\ IdentifyRoute(r) = in[r].tokens[order[Min(hits)]]
  BY DEF IdentifyRoute
<1>2. Min(hits) \in hits
  <2>1. Cardinality(Headers) \in Nat
    BY HeadersAssumption, FS_CardinalityType
  <2>2. hits \subseteq Nat  BY <2>1
  <2> QED  BY <1>1, <2>2, MinIsElement
<1>3. order[Min(hits)] \in Headers
  BY <1>2
<1> QED  BY <1>1, <1>2, <1>3 DEF Named

\* Where each middleware passes a request on to.
LEMMA NextInChain ==
  ASSUME NEW r \in Requests, ServeNext(r)
  PROVE  /\ at[r] = "auth" => at' = [at EXCEPT ![r] = "whitelist"]
         /\ at[r] = "whitelist" => at' = [at EXCEPT ![r] = "limit"]
         /\ at[r] = "limit" => at' = [at EXCEPT ![r] = "secret"]
<1>1. /\ DOMAIN Chain = 1..4
      /\ Chain[1] = "auth" /\ Chain[2] = "whitelist" /\ Chain[3] = "limit"
      /\ Chain[4] = "secret"
  BY DEF Chain
<1>2. \A n \in 1..3 : at[r] = Chain[n] =>
        (CHOOSE i \in DOMAIN Chain : Chain[i] = at[r]) = n
  BY <1>1
<1>3. ASSUME NEW n \in 1..3, at[r] = Chain[n]
      PROVE  at' = [at EXCEPT ![r] = Chain[n + 1]]
  BY <1>2, <1>3 DEF ServeNext
<1>4. /\ at[r] = Chain[1] => at' = [at EXCEPT ![r] = Chain[2]]
      /\ at[r] = Chain[2] => at' = [at EXCEPT ![r] = Chain[3]]
      /\ at[r] = Chain[3] => at' = [at EXCEPT ![r] = Chain[4]]
  BY <1>3
<1> QED  BY <1>1, <1>4

(************************* the inductive invariant *************************)
Shapes ==
  /\ order \in [1..Cardinality(Headers) -> Headers]
  /\ key \in [Services -> Nat]
  /\ since \in [Requests -> [Services -> Nat]]
  /\ route \in [Requests -> Services \cup {NoService}]
  /\ admitted \in [Requests -> Services \cup {NoService}]
  /\ held \in [Requests -> Nat]
  /\ DOMAIN in = Requests /\ DOMAIN at = Requests /\ DOMAIN call = Requests

Early == {"idle", "outer", "gateway", "auth"}
Checked == {"limit", "secret", "send"}

\* What each middleware leaves behind for the next, and upstream for ever.
Passed(r) ==
  /\ at[r] \in Early \cup {"whitelist"} \cup Checked => call[r] = NoCall
  /\ at[r] \in Early \cup {"whitelist", "limit"} => admitted[r] = NoService
  /\ at[r] \in {"whitelist"} \cup Checked =>
       /\ route[r] \in Services
       /\ \E h \in Headers : in[r].tokens[h] = route[r]
  /\ at[r] \in Checked => Allowed(AllowedPaths[route[r]], in[r].path)
  /\ at[r] \in {"secret", "send"} => admitted[r] = route[r]
  /\ at[r] = "send" => held[r] >= since[r][route[r]]
  /\ \A s \in Services : since[r][s] <= key[s]
  /\ Called(r) => route[r] \in Services

IInv ==
  /\ Shapes
  /\ \A r \in Requests : Passed(r)
  /\ ForwardIsAuthorised /\ RefusedPathsAreFree /\ RightKeyOnly /\ KeyIsFresh

\* The initial states: nothing has arrived.
LEMMA InitIInv == Init => IInv
<1> SUFFICES ASSUME Init PROVE IInv  OBVIOUS
<1> USE DEF Init
<1>1. Shapes
  BY DEF Shapes
<1>2. \A r \in Requests : Passed(r)
  BY DEF Passed, Called, Early, Checked
<1>3. ForwardIsAuthorised /\ RefusedPathsAreFree /\ RightKeyOnly /\ KeyIsFresh
  BY DEF ForwardIsAuthorised, RefusedPathsAreFree, RightKeyOnly, KeyIsFresh, Called
<1> QED  BY <1>1, <1>2, <1>3 DEF IInv

(****************************** the steps **********************************)
Late == {"waiting", "header", "body", "error", "finish", "log", "done"}

\* A step that decides nothing: at most one request goes on, past Send or to its end.
Decided == <<order, key, in, route, held, call, since, admitted>>
Onwards ==
  /\ UNCHANGED Decided
  /\ UNCHANGED at \/ \E r \in Requests, l \in Late : at' = [at EXCEPT ![r] = l]

LEMMA OnwardsIInv ==
  ASSUME IInv, Onwards
  PROVE  IInv'
<1> USE DEF Onwards, Decided
<1>1. Shapes'
  BY DEF IInv, Shapes
<1>2. ASSUME NEW r \in Requests PROVE Passed(r)'
  <2>1. Passed(r) /\ (at'[r] = at[r] \/ at'[r] \in Late)
    BY DEF IInv, Shapes
  <2>2. Called(r)' = Called(r)
    BY DEF Called, NoCall, Token
  <2> QED  BY <2>1, <2>2 DEF Passed, Early, Checked, Late, NoCall, Token
<1>3. ForwardIsAuthorised' /\ RefusedPathsAreFree' /\ RightKeyOnly' /\ KeyIsFresh'
  BY DEF IInv, ForwardIsAuthorised, RefusedPathsAreFree, RightKeyOnly, KeyIsFresh,
         Called, NoCall, Token
<1> QED  BY <1>1, <1>2, <1>3 DEF IInv

\* A request arrives; the ones under way are not concerned.
LEMMA ArriveIInv ==
  ASSUME IInv, NEW r \in Requests, Arrive(r)
  PROVE  IInv'
<1> USE DEF Arrive, shared, outside
<1>1. Shapes'
  BY DEF IInv, Shapes
<1>2. ASSUME NEW q \in Requests PROVE Passed(q)'
  <2>1. Passed(q) /\ Passed(r)
    BY DEF IInv
  <2>2. CASE q = r
    BY <1>1, <2>1, <2>2 DEF IInv, Shapes, Passed, Early, Checked, Called, NoCall, Token
  <2>3. CASE q # r
    <3>1. /\ at'[q] = at[q] /\ in'[q] = in[q] /\ since'[q] = since[q]
          /\ UNCHANGED <<route, held, call, admitted, key>>
      BY <2>3 DEF IInv, Shapes
    <3> QED  BY <2>1, <3>1 DEF Passed, Called, NoCall, Token
  <2> QED  BY <2>2, <2>3
<1>3. ASSUME NEW q \in Requests
      PROVE  /\ call'[q] = call[q] /\ route'[q] = route[q] /\ admitted'[q] = admitted[q]
             /\ q = r => ~Called(q) /\ admitted[q] = NoService
             /\ q # r => in'[q] = in[q] /\ since'[q] = since[q]
  BY DEF IInv, Shapes, Passed, Early, Called
<1>4. ForwardIsAuthorised' /\ RefusedPathsAreFree' /\ RightKeyOnly' /\ KeyIsFresh'
  BY <1>3 DEF IInv, ForwardIsAuthorised, RefusedPathsAreFree, RightKeyOnly, KeyIsFresh,
         Called, NoCall, Token
<1> QED  BY <1>1, <1>2, <1>4 DEF IInv

\* A step of a request for which upstream has not been called.
Waiting(r) == at[r] \in Early \cup {"whitelist"} \cup Checked

Alone(r) ==
  /\ UNCHANGED <<order, key, in, call, since>>
  /\ \A q \in Requests \ {r} :
       at'[q] = at[q] /\ route'[q] = route[q] /\ admitted'[q] = admitted[q] /\ held'[q] = held[q]

LEMMA AloneIInv ==
  ASSUME IInv, NEW r \in Requests, Waiting(r), Alone(r), Shapes', Passed(r)',
         admitted'[r] # NoService => Allowed(AllowedPaths[admitted'[r]], in[r].path)
  PROVE  IInv'
<1>1. ~Called(r)
  BY DEF IInv, Passed, Waiting, Called
<1>2. \A q \in Requests : Called(q)' = Called(q)
  BY DEF Alone, Called, NoCall, Token
<1>3. ASSUME NEW q \in Requests \ {r} PROVE Passed(q)'
  <2>1. Passed(q)
    BY DEF IInv
  <2> QED  BY <2>1, <1>2 DEF Alone, Passed, NoCall, Token
<1>4. ForwardIsAuthorised'
  BY <1>1, <1>2 DEF IInv, Alone, ForwardIsAuthorised
<1>5. RefusedPathsAreFree'
  BY DEF IInv, Alone, RefusedPathsAreFree
<1>6. RightKeyOnly'
  BY <1>1, <1>2 DEF IInv, Alone, RightKeyOnly
<1>7. KeyIsFresh'
  BY <1>1, <1>2 DEF IInv, Alone, KeyIsFresh
<1> QED  BY <1>3, <1>4, <1>5, <1>6, <1>7 DEF IInv

\* A refusal ends a request for good.
LEMMA RejectIInv ==
  ASSUME IInv, NEW r \in Requests, NEW code, NEW l \in Late, Reject(r, code, l),
         UNCHANGED Decided
  PROVE  IInv'
BY OnwardsIInv DEF Onwards, Reject

LEMMA OuterIInv ==
  ASSUME IInv, NEW r \in Requests, Outer(r)
  PROVE  IInv'
<1> USE DEF Outer, shared, history
<1>1. CASE Reject(r, 204, "done")
  BY <1>1, RejectIInv DEF Late, Decided
<1>2. CASE \E l \in {"gateway", "auth"} : at' = [at EXCEPT ![r] = l]
  <2>1. Shapes'
    BY <1>2 DEF IInv, Shapes
  <2>2. Passed(r) /\ at[r] = "outer" /\ at'[r] \in {"gateway", "auth"}
    BY <1>2 DEF IInv, Shapes
  <2>3. Passed(r)'
    BY <2>2 DEF Passed, Called, Early, Checked, NoCall, Token
  <2>4. Alone(r) /\ Waiting(r)
    BY <1>2, <2>2 DEF IInv, Shapes, Alone, Waiting, Early
  <2>5. admitted'[r] = NoService
    BY <2>2 DEF Passed, Early
  <2> QED  BY <2>1, <2>3, <2>4, <2>5, AloneIInv
<1>3. Chain[1] = "auth"
  BY DEF Chain
<1> QED  BY <1>1, <1>2, <1>3

LEMMA AuthIInv ==
  ASSUME IInv, NEW r \in Requests, Auth(r)
  PROVE  IInv'
<1> USE DEF Auth, shared, history
<1>1. CASE IdentifyRoute(r) = NoService
  BY <1>1, RejectIInv DEF Late, Decided
<1>2. CASE IdentifyRoute(r) # NoService
  <2>1. /\ IdentifyRoute(r) \in Services
        /\ \E h \in Headers : in[r].tokens[h] = IdentifyRoute(r)
    BY <1>2, RouteIsNamed DEF IInv, Shapes
  <2>2. at' = [at EXCEPT ![r] = "whitelist"] /\ route' = [route EXCEPT ![r] = IdentifyRoute(r)]
    BY <1>2, NextInChain
  <2>3. Shapes'
    BY <2>1, <2>2 DEF IInv, Shapes
  <2>4. /\ Passed(r) /\ at[r] = "auth" /\ at'[r] = "whitelist"
        /\ route'[r] = IdentifyRoute(r)
    BY <2>2 DEF IInv, Shapes
  <2>5. Passed(r)'
    BY <2>1, <2>4 DEF Passed, Called, Early, Checked, NoCall, Token
  <2>6. Alone(r) /\ Waiting(r)
    BY <2>2, <2>4 DEF IInv, Shapes, Alone, Waiting, Early
  <2>7. admitted'[r] = NoService
    BY <2>4 DEF Passed, Early
  <2> QED  BY <2>3, <2>5, <2>6, <2>7, AloneIInv
<1> QED  BY <1>1, <1>2

\* A request that a policy middleware serves was not refused.
LEMMA ServedIsNotRefused ==
  ASSUME NEW r \in Requests, route[r] \in Services, NEW refused, NEW code,
         code # 0, Verdict(r, refused, code) = 0
  PROVE  ~refused[route[r]]
<1>1. route[r] # NoService
  BY NoServiceAssumption
<1>2. Verdict(r, refused, code) = IF refused[route[r]] THEN code ELSE 0
  BY <1>1, Zenon DEF Verdict
<1> QED  BY <1>2, Zenon

\* One that it refuses is answered for good.
LEMMA RefuseIInv ==
  ASSUME IInv, NEW r \in Requests, NEW code, Refuse(r, code), UNCHANGED Decided
  PROVE  IInv'
<1>1. Reject(r, code, "done") \/ Reject(r, code, "log")
  BY DEF Refuse
<1> QED  BY <1>1, RejectIInv DEF Late

LEMMA WhitelistIInv ==
  ASSUME IInv, NEW r \in Requests, Whitelist(r)
  PROVE  IInv'
<1> USE DEF Whitelist, shared, history
<1> DEFINE v == Verdict(r, [s \in Services |-> ~Allowed(AllowedPaths[s], in[r].path)], 403)
<1>1. Passed(r) /\ at[r] = "whitelist" /\ route[r] \in Services
  BY DEF IInv, Passed
<1>2. CASE v # 0
  <2>1. Refuse(r, v) /\ UNCHANGED Decided
    BY <1>2 DEF Decided
  <2> QED  BY <2>1, RefuseIInv
<1>3. CASE v = 0
  <2>1. at' = [at EXCEPT ![r] = "limit"]
    BY <1>1, <1>3, NextInChain
  <2>2. Allowed(AllowedPaths[route[r]], in[r].path)
    <3>1. ~[s \in Services |-> ~Allowed(AllowedPaths[s], in[r].path)][route[r]]
      BY <1>1, <1>3, ServedIsNotRefused
    <3> QED  BY <1>1, <3>1, Zenon
  <2>3. Shapes' /\ at'[r] = "limit"
    BY <2>1 DEF IInv, Shapes
  <2>4. Passed(r)'
    BY <1>1, <2>2, <2>3 DEF Passed, Called, Early, Checked, NoCall, Token
  <2>5. Alone(r) /\ Waiting(r)
    BY <1>1, <2>1 DEF IInv, Shapes, Alone, Waiting
  <2>6. admitted'[r] = NoService
    BY <1>1 DEF Passed
  <2> QED  BY <2>3, <2>4, <2>5, <2>6, AloneIInv
<1> QED  BY <1>2, <1>3

LEMMA RateLimitIInv ==
  ASSUME IInv, NEW r \in Requests, RateLimit(r)
  PROVE  IInv'
<1> USE DEF RateLimit
<1> DEFINE v == Verdict(r, [s \in Services |-> Full(s)], 429)
<1>1. /\ Passed(r) /\ at[r] = "limit" /\ route[r] \in Services
      /\ Allowed(AllowedPaths[route[r]], in[r].path)
  BY DEF IInv, Passed, Checked
<1>2. CASE v # 0
  <2>1. Refuse(r, v) /\ UNCHANGED Decided
    BY <1>2 DEF Decided
  <2> QED  BY <2>1, RefuseIInv
<1>3. CASE v = 0
  <2>1. at' = [at EXCEPT ![r] = "secret"] /\ admitted' = [admitted EXCEPT ![r] = route[r]]
    BY <1>1, <1>3, NextInChain DEF Admit
  <2>2. Shapes' /\ at'[r] = "secret" /\ admitted'[r] = route[r]
    BY <2>1 DEF IInv, Shapes
  <2>3. Passed(r)'
    BY <1>1, <2>2 DEF Passed, Called, Early, Checked, NoCall, Token
  <2>4. Alone(r) /\ Waiting(r)
    BY <1>1, <2>1 DEF IInv, Shapes, Alone, Waiting, Checked
  <2> QED  BY <1>1, <2>2, <2>3, <2>4, AloneIInv
<1> QED  BY <1>2, <1>3

LEMMA SecretIInv ==
  ASSUME IInv, NEW r \in Requests, Secret(r)
  PROVE  IInv'
<1> USE DEF Secret, shared, history
<1>1. /\ Passed(r) /\ at[r] = "secret" /\ route[r] \in Services
      /\ admitted[r] = route[r] /\ Allowed(AllowedPaths[route[r]], in[r].path)
  BY DEF IInv, Passed, Checked
<1>2. CASE SecretOf(r) = 0
  BY <1>2, RejectIInv DEF Late, Decided
<1>3. CASE SecretOf(r) # 0
  <2>1. held' = [held EXCEPT ![r] = key[route[r]]] /\ at' = [at EXCEPT ![r] = "send"]
    BY <1>3 DEF SecretOf
  <2>2. Shapes' /\ at'[r] = "send" /\ held'[r] = key[route[r]]
    BY <1>1, <2>1 DEF IInv, Shapes
  <2>3. since[r][route[r]] <= key[route[r]] /\ key[route[r]] \in Nat
        /\ since[r][route[r]] \in Nat
    BY <1>1 DEF IInv, Shapes, Passed
  <2>4. held'[r] >= since'[r][route'[r]]
    BY <2>2, <2>3
  <2>5. Passed(r)'
    BY <1>1, <2>2, <2>4 DEF Passed, Called, Early, Checked, NoCall, Token
  <2>6. Alone(r) /\ Waiting(r)
    BY <1>1, <2>1 DEF IInv, Shapes, Alone, Waiting, Checked
  <2> QED  BY <1>1, <2>2, <2>5, <2>6, AloneIInv
<1> QED  BY <1>2, <1>3

\* The call is made, and with it every promise about calls falls due.
LEMMA SendIInv ==
  ASSUME IInv, NEW r \in Requests, Send(r)
  PROVE  IInv'
<1> USE DEF Send, shared, history
<1>1. /\ Passed(r) /\ at[r] = "send" /\ route[r] \in Services /\ admitted[r] = route[r]
      /\ \E h \in Headers : in[r].tokens[h] = route[r]
      /\ Allowed(AllowedPaths[route[r]], in[r].path)
      /\ held[r] >= since[r][route[r]]
  BY DEF IInv, Passed, Checked
<1>2. CASE \E e : Fails(r, e) /\ UNCHANGED call
  BY <1>2, OnwardsIInv DEF Onwards, Fails, Late, Decided
<1>3. CASE call' = [call EXCEPT ![r] = InjectKey(r)] /\ at' = [at EXCEPT ![r] = "waiting"]
  <2>1. Shapes'
    BY <1>3 DEF IInv, Shapes
  <2>2. at'[r] = "waiting" /\ call'[r] = InjectKey(r)
    BY <1>3 DEF IInv, Shapes
  <2>3. ASSUME NEW q \in Requests, q # r
        PROVE  call'[q] = call[q] /\ at'[q] = at[q] /\ Called(q)' = Called(q)
    BY <1>3, <2>3 DEF IInv, Shapes, Called, NoCall, Token
  <2>4. /\ AuthHeader[route[r]] \in Headers
        /\ \A h \in Headers : InjectKey(r)[h] = IF h = AuthHeader[route[r]]
                                               THEN RealKey(route[r], held[r])
                                               ELSE Token(in[r].tokens[h])
    BY <1>1, AuthHeaderAssumption DEF InjectKey
  <2>5. ASSUME NEW q \in Requests PROVE Passed(q)'
    <3>1. Passed(q)
      BY DEF IInv
    <3>2. CASE q = r
      BY <1>1, <2>2, <3>1, <3>2 DEF Passed, Early, Checked
    <3>3. CASE q # r
      BY <2>3, <3>1, <3>3 DEF Passed, NoCall, Token
    <3> QED  BY <3>2, <3>3
  <2>6. ForwardIsAuthorised'
    BY <1>1, <2>3 DEF IInv, ForwardIsAuthorised
  <2>7. RefusedPathsAreFree'
    BY DEF IInv, RefusedPathsAreFree
  <2>8. RightKeyOnly'
    <3>1. /\ call'[r][AuthHeader[route[r]]].kind = "key"
          /\ \A h \in Headers : call'[r][h].kind = "key" =>
               h = AuthHeader[route[r]] /\ call'[r][h].of = route[r]
      <4> DEFINE own == AuthHeader[route[r]]
      <4>1. /\ own \in Headers /\ call'[r][own] = RealKey(route[r], held[r])
            /\ \A h \in Headers : h # own => call'[r][h] = Token(in[r].tokens[h])
        BY <2>2, <2>4
      <4>2. RealKey(route[r], held[r]).kind = "key" /\ RealKey(route[r], held[r]).of = route[r]
        BY DEF RealKey
      <4>3. \A s : Token(s).kind # "key"
        BY DEF Token
      <4> QED  BY <4>1, <4>2, <4>3
    <3> QED  BY <2>3, <3>1 DEF IInv, RightKeyOnly
  <2>9. KeyIsFresh'
    <3>1. call'[r][AuthHeader[route[r]]].nr >= since[r][route[r]]
      BY <1>1, <2>2, <2>4 DEF RealKey
    <3> QED  BY <2>3, <3>1 DEF IInv, KeyIsFresh
  <2> QED  BY <2>1, <2>5, <2>6, <2>7, <2>8, <2>9 DEF IInv
<1> QED  BY <1>2, <1>3

\* A stored key is newer than any a request arrived under.
LEMMA StoreKeyIInv ==
  ASSUME IInv, NEW s \in Services, StoreKey(s)
  PROVE  IInv'
<1> USE DEF StoreKey, outside, history, progress
<1>1. key \in [Services -> Nat] /\ since \in [Requests -> [Services -> Nat]]
  BY DEF IInv, Shapes
<1>2. key' \in [Services -> Nat] /\ \A z \in Services : key[z] <= key'[z]
  BY <1>1
<1>3. Shapes'
  BY <1>2 DEF IInv, Shapes
<1>4. \A q \in Requests : Called(q)' = Called(q)
  BY DEF Called, NoCall, Token
<1>5. ASSUME NEW q \in Requests PROVE Passed(q)'
  <2>1. Passed(q)
    BY DEF IInv
  <2>2. \A z \in Services : since[q][z] <= key'[z]
    <3>1. ASSUME NEW z \in Services PROVE since[q][z] <= key'[z]
      <4>1. since[q][z] \in Nat /\ key[z] \in Nat /\ key'[z] \in Nat
        BY <1>1, <1>2
      <4>2. since[q][z] <= key[z] /\ key[z] <= key'[z]
        BY <1>2, <2>1 DEF Passed
      <4> QED  BY <4>1, <4>2
    <3> QED  BY <3>1
  <2> QED  BY <1>4, <2>1, <2>2 DEF Passed, NoCall, Token
<1>6. ForwardIsAuthorised' /\ RefusedPathsAreFree' /\ RightKeyOnly' /\ KeyIsFresh'
  BY <1>4 DEF IInv, ForwardIsAuthorised, RefusedPathsAreFree, RightKeyOnly, KeyIsFresh
<1> QED  BY <1>3, <1>5, <1>6 DEF IInv

\* Whatever else happens decides nothing any more.
LEMMA OthersGoOnwards ==
  ASSUME \/ \E r \in Requests :
              \/ NoAnswer(r) \/ ModifyResponse(r) \/ CopyHeader(r) \/ CopyBody(r)
              \/ ErrorHandler(r) \/ FinishRequest(r) \/ LogReply(r)
              \/ Leave(r) \/ WriteTimeout(r)
         \/ \E s \in Services : Expire(s)
         \/ UNCHANGED vars
  PROVE  Onwards
<1> USE DEF Onwards, Decided, Late, shared, outside, history, progress
<1>1. ASSUME NEW r \in Requests, NoAnswer(r) PROVE Onwards
  BY <1>1 DEF NoAnswer, Fails
<1>2. ASSUME NEW r \in Requests, ModifyResponse(r) PROVE Onwards
  BY <1>2 DEF ModifyResponse
<1>3. ASSUME NEW r \in Requests, CopyHeader(r) PROVE Onwards
  BY <1>3 DEF CopyHeader
<1>4. ASSUME NEW r \in Requests, CopyBody(r) PROVE Onwards
  BY <1>4 DEF CopyBody
<1>5. ASSUME NEW r \in Requests, ErrorHandler(r) PROVE Onwards
  BY <1>5 DEF ErrorHandler, Reject
<1>6. ASSUME NEW r \in Requests, FinishRequest(r) \/ LogReply(r) PROVE Onwards
  BY <1>6 DEF FinishRequest, LogReply
<1>7. ASSUME NEW r \in Requests, Leave(r) \/ WriteTimeout(r) PROVE Onwards
  BY <1>7 DEF Leave, WriteTimeout
<1>8. ASSUME NEW s \in Services, Expire(s) PROVE Onwards
  BY <1>8 DEF Expire
<1>9. ASSUME UNCHANGED vars PROVE Onwards
  BY <1>9 DEF vars
<1> QED  BY <1>1, <1>2, <1>3, <1>4, <1>5, <1>6, <1>7, <1>8, <1>9

LEMMA StepIInv == IInv /\ [Next]_vars => IInv'
<1> SUFFICES ASSUME IInv, [Next]_vars PROVE IInv'
  OBVIOUS
<1>1. ASSUME NEW r \in Requests,
             \/ Arrive(r) \/ Outer(r) \/ Auth(r) \/ Whitelist(r) \/ RateLimit(r)
             \/ Secret(r) \/ Send(r)
      PROVE  IInv'
  BY <1>1, ArriveIInv, OuterIInv, AuthIInv, WhitelistIInv, RateLimitIInv, SecretIInv,
     SendIInv
<1>2. ASSUME NEW s \in Services, StoreKey(s) PROVE IInv'
  BY <1>2, StoreKeyIInv
<1>3. ASSUME Onwards PROVE IInv'
  BY <1>3, OnwardsIInv
<1>4. \/ \E r \in Requests : \/ Arrive(r) \/ Outer(r) \/ Auth(r) \/ Whitelist(r)
                             \/ RateLimit(r) \/ Secret(r) \/ Send(r)
      \/ \E s \in Services : StoreKey(s)
      \/ Onwards
  BY OthersGoOnwards DEF Next, Handle
<1> QED  BY <1>1, <1>2, <1>3, <1>4

(******************************* theorems **********************************)
LEMMA AlwaysIInv == Spec => []IInv
BY InitIInv, StepIInv, PTL DEF Spec

\* Upstream is called only for requests that all three middlewares let pass.
THEOREM Authorised == Spec => []ForwardIsAuthorised
<1>1. IInv => ForwardIsAuthorised  BY DEF IInv
<1> QED  BY <1>1, AlwaysIInv, PTL

\* A request for a path that is not whitelisted never counts against a limit.
THEOREM RefusalIsFree == Spec => []RefusedPathsAreFree
<1>1. IInv => RefusedPathsAreFree  BY DEF IInv
<1> QED  BY <1>1, AlwaysIInv, PTL

\* A key reaches upstream in its own service's header, and no other key does.
THEOREM OneKeyPerCall == Spec => []RightKeyOnly
<1>1. IInv => RightKeyOnly  BY DEF IInv
<1> QED  BY <1>1, AlwaysIInv, PTL

\* A key stored before the request arrived is in force for it.
THEOREM StoredKeyIsUsed == Spec => []KeyIsFresh
<1>1. IInv => KeyIsFresh  BY DEF IInv
<1> QED  BY <1>1, AlwaysIInv, PTL

(******************************* the books *********************************)
\* What is written down about a request: to the client, to the log, on the clock.
Ledger == <<at, status, reply, audit, cut, stream, gone, late>>
Sheets ==
  /\ DOMAIN at = Requests /\ DOMAIN status = Requests /\ DOMAIN reply = Requests
  /\ DOMAIN audit = Requests /\ DOMAIN cut = Requests /\ DOMAIN stream = Requests
  /\ DOMAIN gone = Requests /\ DOMAIN late = Requests

Logged == {"header", "body", "finish", "done"}

\* Nothing is logged before the last step that may log; from then on the entry is
\* what the client has got or is about to get.  A stream has no deadline.
Balanced(r) ==
  /\ at[r] \notin Logged => audit[r] = << >>
  /\ at[r] \in {"header", "body"} => audit[r] = <<status[r]>>
  /\ at[r] = "body" => reply[r] = status[r]
  /\ at[r] = "finish" => audit[r] = <<499>>
  /\ at[r] = "done" => audit[r] \in {<< >>, <<499>>, <<reply[r]>>}
  /\ at[r] # "done" => cut[r] = "no"
  /\ stream[r] => ~late[r]
  /\ stream[r] /\ cut[r] = "unwritable" => gone[r]

Books == Sheets /\ \A r \in Requests : Balanced(r)

LEMMA InitBooks == Init => Books
BY DEF Init, Books, Sheets, Balanced, Logged

\* A step of r leaves the other pages alone.
Page(q) == <<at[q], status[q], reply[q], audit[q], cut[q], stream[q], gone[q], late[q]>>

LEMMA OnePage ==
  ASSUME Books, NEW r \in Requests, Sheets', Balanced(r)',
         \A q \in Requests \ {r} : UNCHANGED Page(q)
  PROVE  Books'
<1>1. ASSUME NEW q \in Requests, q # r PROVE Balanced(q)'
  <2>1. Balanced(q) /\ UNCHANGED Page(q)
    BY <1>1 DEF Books
  <2> QED  BY <2>1 DEF Page, Balanced
<1> QED  BY <1>1 DEF Books

\* Before upstream is asked nothing is logged, and a refusal is logged as it is.
LEMMA EarlyBooks ==
  ASSUME Books, NEW r \in Requests,
         \/ Arrive(r) \/ Outer(r) \/ Auth(r) \/ Whitelist(r) \/ RateLimit(r)
         \/ Secret(r) \/ Send(r) \/ NoAnswer(r)
  PROVE  Books'
<1> DEFINE Open == {"outer", "gateway", "auth", "whitelist", "limit", "secret", "send",
                    "waiting", "error", "log"}
<1>1. /\ at[r] \notin Logged
      /\ UNCHANGED <<status, audit, cut, stream, outside>>
      /\ \E l \in Open \cup {"done"} : at' = [at EXCEPT ![r] = l]
      /\ UNCHANGED reply \/ \E code : reply' = [reply EXCEPT ![r] = code]
  <2>1. CASE Arrive(r)
    BY <2>1 DEF Arrive, Logged
  <2>2. CASE Outer(r)
    <3>1. Chain[1] = "auth"  BY DEF Chain
    <3> QED  BY <2>2, <3>1 DEF Outer, Reject, Logged
  <2>3. CASE Auth(r)
    BY <2>3, NextInChain DEF Auth, Reject, Logged
  <2>4. CASE Whitelist(r)
    BY <2>4, NextInChain DEF Whitelist, Refuse, Reject, Logged
  <2>5. CASE RateLimit(r)
    BY <2>5, NextInChain DEF RateLimit, Refuse, Reject, Logged
  <2>6. CASE Secret(r)
    BY <2>6 DEF Secret, Reject, Logged
  <2>7. CASE Send(r) \/ NoAnswer(r)
    BY <2>7 DEF Send, NoAnswer, Fails, Logged
  <2> QED  BY <2>1, <2>2, <2>3, <2>4, <2>5, <2>6, <2>7
<1>2. Sheets' /\ \A q \in Requests \ {r} : UNCHANGED Page(q)
  BY <1>1 DEF Books, Sheets, Page, outside
<1>3. Balanced(r) /\ audit'[r] = << >> /\ cut'[r] = "no" /\ at'[r] \in Open \cup {"done"}
  BY <1>1 DEF Books, Sheets, Balanced, Logged
<1>4. Balanced(r)'
  BY <1>1, <1>3 DEF Balanced, Logged, outside
<1> QED  BY <1>2, <1>4, OnePage

\* From upstream's headers, or its failure, to the end.
LEMMA LateBooks ==
  ASSUME Books, NEW r \in Requests,
         \/ ModifyResponse(r) \/ CopyHeader(r) \/ CopyBody(r) \/ ErrorHandler(r)
         \/ FinishRequest(r) \/ LogReply(r) \/ Leave(r) \/ WriteTimeout(r)
  PROVE  Books'
<1> USE DEF shared, outside, history, progress
<1>0. Balanced(r) /\ Sheets
  BY DEF Books
<1>1. Append(<< >>, 499) = <<499>> /\ \A x : Append(<< >>, x) = <<x>>
  OBVIOUS
<1>2. Sheets' /\ \A q \in Requests \ {r} : UNCHANGED Page(q)
  <2>1. CASE ModifyResponse(r)
    BY <1>0, <2>1 DEF ModifyResponse, LiftDeadline, Log, Sheets, Page
  <2>2. CASE CopyHeader(r) \/ CopyBody(r)
    BY <1>0, <2>2 DEF CopyHeader, CopyBody, Sheets, Page
  <2>3. CASE ErrorHandler(r) \/ FinishRequest(r) \/ LogReply(r)
    BY <1>0, <2>3 DEF ErrorHandler, Reject, FinishRequest, LogReply, Log, Sheets, Page
  <2>4. CASE Leave(r) \/ WriteTimeout(r)
    BY <1>0, <2>4 DEF Leave, WriteTimeout, Sheets, Page
  <2> QED  BY <2>1, <2>2, <2>3, <2>4
<1>3. Balanced(r)'
  <2>1. CASE ModifyResponse(r)
    <3>1. PICK o \in Outcomes \cap {"plain", "stream"}, code \in {200, 400} :
            /\ status' = [status EXCEPT ![r] = code]
            /\ Log(r, code)
            /\ IF o = "stream" THEN LiftDeadline(r) ELSE UNCHANGED <<stream, late>>
      BY <2>1, Zenon DEF ModifyResponse
    <3>2. at[r] = "waiting" /\ audit[r] = << >> /\ cut[r] = "no"
      BY <1>0, <2>1 DEF ModifyResponse, Balanced, Logged
    <3>3. audit'[r] = <<code>> /\ status'[r] = code /\ at'[r] = "header" /\ cut'[r] = "no"
      BY <1>0, <1>1, <2>1, <3>1, <3>2 DEF ModifyResponse, Log, Sheets
    <3>4. stream'[r] => ~late'[r]
      BY <1>0, <3>1 DEF LiftDeadline, Sheets, Balanced
    <3> QED  BY <3>3, <3>4 DEF Balanced, Logged
  <2>2. CASE CopyHeader(r)
    <3>1. /\ audit'[r] = <<status'[r]>> /\ reply'[r] = status'[r]
          /\ stream'[r] = stream[r] /\ late'[r] = late[r] /\ gone'[r] = gone[r]
      BY <1>0, <2>2 DEF CopyHeader, Balanced, Sheets
    <3>2. \/ at'[r] = "body" /\ cut'[r] = "no"
          \/ at'[r] = "done" /\ cut'[r] = "unwritable" /\ (gone[r] \/ late[r])
      BY <1>0, <2>2 DEF CopyHeader, Balanced, Sheets
    <3> QED  BY <1>0, <3>1, <3>2 DEF Balanced, Logged
  <2>3. CASE CopyBody(r)
    <3>1. /\ at'[r] = "done" /\ audit'[r] = <<reply'[r]>>
          /\ stream'[r] = stream[r] /\ late'[r] = late[r] /\ gone'[r] = gone[r]
      BY <1>0, <2>3 DEF CopyBody, Balanced, Sheets
    <3>2. cut'[r] = "unwritable" => gone[r] \/ late[r]
      BY <1>0, <2>3 DEF CopyBody, Balanced, Sheets
    <3> QED  BY <1>0, <3>1, <3>2 DEF Balanced, Logged
  <2>4. CASE ErrorHandler(r)
    BY <1>0, <1>1, <2>4 DEF ErrorHandler, Reject, Log, Balanced, Logged, Sheets
  <2>5. CASE FinishRequest(r)
    BY <1>0, <2>5 DEF FinishRequest, Balanced, Logged, Sheets
  <2>6. CASE LogReply(r)
    BY <1>0, <1>1, <2>6 DEF LogReply, Log, Balanced, Logged, Sheets
  <2>7. CASE Leave(r) \/ WriteTimeout(r)
    BY <1>0, <2>7 DEF Leave, WriteTimeout, Balanced, Logged, Sheets
  <2> QED  BY <2>1, <2>2, <2>3, <2>4, <2>5, <2>6, <2>7
<1> QED  BY <1>2, <1>3, OnePage

LEMMA StepBooks == Books /\ [Next]_vars => Books'
<1> SUFFICES ASSUME Books, [Next]_vars PROVE Books'
  OBVIOUS
<1>1. CASE UNCHANGED Ledger
  BY <1>1 DEF Books, Sheets, Balanced, Ledger
<1>2. \/ UNCHANGED Ledger
      \/ \E r \in Requests :
           \/ Arrive(r) \/ Outer(r) \/ Auth(r) \/ Whitelist(r) \/ RateLimit(r)
           \/ Secret(r) \/ Send(r) \/ NoAnswer(r)
      \/ \E r \in Requests :
           \/ ModifyResponse(r) \/ CopyHeader(r) \/ CopyBody(r) \/ ErrorHandler(r)
           \/ FinishRequest(r) \/ LogReply(r) \/ Leave(r) \/ WriteTimeout(r)
  <2>1. ASSUME NEW s \in Services, Expire(s) \/ StoreKey(s) PROVE UNCHANGED Ledger
    BY <2>1 DEF Expire, StoreKey, Ledger, outside, progress
  <2>2. UNCHANGED vars => UNCHANGED Ledger
    BY DEF vars, Ledger, outside, progress
  <2> QED  BY <2>1, <2>2 DEF Next, Handle
<1> QED  BY <1>1, <1>2, EarlyBooks, LateBooks

LEMMA AlwaysBooks == Spec => []Books
BY InitBooks, StepBooks, PTL DEF Spec

\* However many requests there are and whatever becomes of them, none is logged twice.
THEOREM LoggedOnce == Spec => []AuditedOnce
<1>1. ASSUME Books, NEW r \in Requests PROVE Len(audit[r]) <= 1
  <2>1. audit[r] = << >> \/ \E x : audit[r] = <<x>>
    BY <1>1 DEF Books, Balanced, Logged
  <2>2. CASE audit[r] = << >>
    BY <2>2
  <2>3. ASSUME NEW x, audit[r] = <<x>> PROVE Len(audit[r]) <= 1
    BY <2>3
  <2> QED  BY <2>1, <2>2, <2>3
<1>2. Books => AuditedOnce
  BY <1>1 DEF AuditedOnce
<1> QED  BY <1>2, AlwaysBooks, PTL

\* The log tells what the client was told, or that it has gone.
THEOREM LogIsTrue == Spec => []AuditTellsReply
<1>1. Books => AuditTellsReply
  BY DEF Books, Balanced, Logged, AuditTellsReply, Audited
<1> QED  BY <1>1, AlwaysBooks, PTL

\* WriteTimeout cuts no stream off, whenever it passes.
THEOREM StreamsLast == Spec => []StreamsOutliveWriteTimeout
<1>1. Books => StreamsOutliveWriteTimeout
  BY DEF Books, Balanced, StreamsOutliveWriteTimeout
<1> QED  BY <1>1, AlwaysBooks, PTL

(******************************** types ************************************)
\* The types, in the groups the steps change together.
PolicyTyped ==
  /\ used \in [Services -> Nat] /\ key \in [Services -> 0..MaxKey]
  /\ in \in [Requests -> Inputs]
  /\ route \in [Requests -> Services \cup {NoService}]
  /\ admitted \in [Requests -> Services \cup {NoService}]
  /\ held \in [Requests -> 0..MaxKey]

PlaceTyped == at \in [Requests -> Places]

ReplyTyped ==
  /\ call \in [Requests -> [Headers -> Tokens \cup RealKeys]]
  /\ status \in [Requests -> {0, 200, 400}]
  /\ reply \in [Requests -> {0, 200, 204, 400, 401, 403, 429, 500, 502}]
  /\ cut \in [Requests -> {"no", "upstream", "unwritable"}]

FlagsTyped ==
  /\ stream \in [Requests -> BOOLEAN]
  /\ gone \in [Requests -> BOOLEAN]
  /\ late \in [Requests -> BOOLEAN]

\* Only a key that was found is held by a request that is about to be sent.
HeldIsKey == \A r \in Requests : at[r] = "send" => held[r] \in 1..MaxKey

Keyed == PolicyTyped /\ PlaceTyped /\ ReplyTyped /\ FlagsTyped /\ HeldIsKey

\* What upstream may be sent is fixed.
LEMMA Rigid == (Tokens \cup RealKeys)' = Tokens \cup RealKeys
  BY DEF Tokens, RealKeys, Token, RealKey

LEMMA InitKeyed == Init => Keyed
<1> SUFFICES ASSUME Init PROVE Keyed  OBVIOUS
<1>1. PolicyTyped
  <2>1. (CHOOSE i \in Inputs : TRUE) \in Inputs  BY InputsAssumption
  <2> QED  BY <2>1, MaxKeyAssumption DEF Init, PolicyTyped
<1>2. ReplyTyped
  <2>1. NoCall \in [Headers -> Tokens \cup RealKeys]  BY DEF NoCall, Tokens
  <2> QED  BY <2>1 DEF Init, ReplyTyped
<1>3. FlagsTyped  BY DEF Init, FlagsTyped
<1>4. PlaceTyped  BY DEF Init, PlaceTyped, Places
<1>5. HeldIsKey  BY DEF Init, HeldIsKey
<1> QED  BY <1>1, <1>2, <1>3, <1>4, <1>5 DEF Keyed

\* What a handler does before it asks upstream.
LEMMA EarlyKeyed ==
  ASSUME IInv, Keyed, NEW r \in Requests,
         \/ Arrive(r) \/ Outer(r) \/ Auth(r) \/ Whitelist(r) \/ RateLimit(r) \/ Secret(r)
  PROVE  Keyed'
<1> USE Rigid DEF Keyed, shared, outside, history
<1>1. CASE Arrive(r)
  <2>5. PolicyTyped'  BY <1>1 DEF PolicyTyped, Arrive
  <2>6. PlaceTyped'  BY <1>1 DEF PlaceTyped, Places, Arrive
  <2>7. ReplyTyped'  BY <1>1 DEF ReplyTyped, Arrive
  <2>8. FlagsTyped'  BY <1>1 DEF FlagsTyped, Arrive
  <2>9. HeldIsKey'  BY <1>1 DEF HeldIsKey, PolicyTyped, PlaceTyped, Arrive
  <2> QED  BY <2>5, <2>6, <2>7, <2>8, <2>9 DEF Keyed
<1>2. CASE Outer(r)
  <2>1. Chain[1] = "auth"  BY DEF Chain
  <2>5. PolicyTyped'  BY <1>2, <2>1 DEF PolicyTyped, Outer, Reject
  <2>6. PlaceTyped'  BY <1>2, <2>1 DEF PlaceTyped, Places, Outer, Reject
  <2>7. ReplyTyped'  BY <1>2, <2>1 DEF ReplyTyped, Outer, Reject
  <2>8. FlagsTyped'  BY <1>2, <2>1 DEF FlagsTyped, Outer, Reject
  <2>9. HeldIsKey'  BY <1>2, <2>1 DEF HeldIsKey, PolicyTyped, PlaceTyped, Outer, Reject
  <2> QED  BY <2>5, <2>6, <2>7, <2>8, <2>9 DEF Keyed
<1>3. CASE Auth(r)
  <2>1. IdentifyRoute(r) # NoService => IdentifyRoute(r) \in Services
    BY RouteIsNamed DEF IInv, Shapes
  <2>5. PolicyTyped'  BY <1>3, <2>1, NextInChain DEF PolicyTyped, Auth, Reject
  <2>6. PlaceTyped'  BY <1>3, <2>1, NextInChain DEF PlaceTyped, Places, Auth, Reject
  <2>7. ReplyTyped'  BY <1>3, <2>1, NextInChain DEF ReplyTyped, Auth, Reject
  <2>8. FlagsTyped'  BY <1>3, <2>1, NextInChain DEF FlagsTyped, Auth, Reject
  <2>9. HeldIsKey'  BY <1>3, <2>1, NextInChain DEF HeldIsKey, PolicyTyped, PlaceTyped, Auth, Reject
  <2> QED  BY <2>5, <2>6, <2>7, <2>8, <2>9 DEF Keyed
<1>4. CASE Whitelist(r)
  <2>1. route[r] \in Services
    BY <1>4 DEF Whitelist, IInv, Passed
  <2>2. route[r] # NoService  BY <2>1, NoServiceAssumption
  <2> DEFINE v == Verdict(r, [s \in Services |-> ~Allowed(AllowedPaths[s], in[r].path)], 403)
  <2> HIDE DEF v
  <2>3. \/ reply' = [reply EXCEPT ![r] = 403] /\ at' = [at EXCEPT ![r] = "log"]
        \/ ServeNext(r) /\ UNCHANGED reply
    <3>1. CASE Allowed(AllowedPaths[route[r]], in[r].path)
      <4>1. ~[s \in Services |-> ~Allowed(AllowedPaths[s], in[r].path)][route[r]]
        BY <2>1, <3>1
      <4>2. v = 0
        BY <2>2, <4>1, Zenon DEF v, Verdict
      <4> QED  BY <1>4, <4>2, Zenon DEF v, Whitelist
    <3>2. CASE ~Allowed(AllowedPaths[route[r]], in[r].path)
      <4>1. [s \in Services |-> ~Allowed(AllowedPaths[s], in[r].path)][route[r]]
        BY <2>1, <3>2
      <4>2. v = 403
        BY <2>2, <4>1, Zenon DEF v, Verdict
      <4>3. v # 0 /\ v # 500  BY <4>2
      <4>4. reply' = [reply EXCEPT ![r] = v] /\ at' = [at EXCEPT ![r] = "log"]
        BY <1>4, <4>3 DEF v, Whitelist, Refuse, Reject
      <4> QED  BY <4>2, <4>4
    <3> QED  BY <3>1, <3>2
  <2>4. \/ reply' = [reply EXCEPT ![r] = 403] /\ at' = [at EXCEPT ![r] = "log"]
        \/ at' = [at EXCEPT ![r] = "limit"] /\ UNCHANGED reply
    BY <1>4, <2>3, NextInChain DEF Whitelist
  <2>5. PolicyTyped'  BY <1>4, <2>4 DEF PolicyTyped, Whitelist
  <2>6. PlaceTyped'  BY <1>4, <2>4 DEF PlaceTyped, Places, Whitelist
  <2>7. ReplyTyped'  BY <1>4, <2>4 DEF ReplyTyped, Whitelist
  <2>8. FlagsTyped'  BY <1>4, <2>4 DEF FlagsTyped, Whitelist
  <2>9. HeldIsKey'  BY <1>4, <2>4 DEF HeldIsKey, PolicyTyped, PlaceTyped, Whitelist
  <2> QED  BY <2>5, <2>6, <2>7, <2>8, <2>9 DEF Keyed
<1>5. CASE RateLimit(r)
  <2>1. route[r] \in Services
    BY <1>5 DEF RateLimit, IInv, Passed, Checked
  <2>2. \/ Refuse(r, 429) /\ UNCHANGED <<used, admitted>>
        \/ Admit(r) /\ at' = [at EXCEPT ![r] = "secret"] /\ UNCHANGED reply
    BY <1>5, <2>1, NoServiceAssumption, NextInChain DEF RateLimit, Verdict
  <2>5. PolicyTyped'  BY <1>5, <2>1, <2>2 DEF PolicyTyped, RateLimit, Refuse, Reject, Admit
  <2>6. PlaceTyped'  BY <1>5, <2>1, <2>2 DEF PlaceTyped, Places, RateLimit, Refuse, Reject, Admit
  <2>7. ReplyTyped'  BY <1>5, <2>1, <2>2 DEF ReplyTyped, RateLimit, Refuse, Reject, Admit
  <2>8. FlagsTyped'  BY <1>5, <2>1, <2>2 DEF FlagsTyped, RateLimit, Refuse, Reject, Admit
  <2>9. HeldIsKey'  BY <1>5, <2>1, <2>2 DEF HeldIsKey, PolicyTyped, PlaceTyped,
                                        RateLimit, Refuse, Reject, Admit
  <2> QED  BY <2>5, <2>6, <2>7, <2>8, <2>9 DEF Keyed
<1>6. CASE Secret(r)
  <2>1. route[r] \in Services
    BY <1>6 DEF Secret, IInv, Passed, Checked
  <2>5. PolicyTyped'  BY <1>6, <2>1 DEF PolicyTyped, Secret, SecretOf, Reject
  <2>6. PlaceTyped'  BY <1>6, <2>1 DEF PlaceTyped, Places, Secret, SecretOf, Reject
  <2>7. ReplyTyped'  BY <1>6, <2>1 DEF ReplyTyped, Secret, SecretOf, Reject
  <2>8. FlagsTyped'  BY <1>6, <2>1 DEF FlagsTyped, Secret, SecretOf, Reject
  <2>9. HeldIsKey'  BY <1>6, <2>1 DEF HeldIsKey, PolicyTyped, PlaceTyped, Secret, SecretOf, Reject
  <2> QED  BY <2>5, <2>6, <2>7, <2>8, <2>9 DEF Keyed
<1> QED  BY <1>1, <1>2, <1>3, <1>4, <1>5, <1>6

\* The call, and what comes of it.
LEMMA LateKeyed ==
  ASSUME IInv, Keyed, NEW r \in Requests,
         \/ Send(r) \/ NoAnswer(r) \/ ModifyResponse(r) \/ CopyHeader(r) \/ CopyBody(r)
         \/ ErrorHandler(r) \/ FinishRequest(r) \/ LogReply(r)
  PROVE  Keyed'
<1> USE Rigid DEF Keyed, shared, outside, history
<1>1. CASE Send(r)
  <2>1. route[r] \in Services /\ held[r] \in 1..MaxKey
    BY <1>1 DEF Send, IInv, Passed, Checked, HeldIsKey
  <2>2. RealKey(route[r], held[r]) \in RealKeys  BY <2>1 DEF RealKeys
  <2>3. \A h \in Headers : Token(in[r].tokens[h]) \in Tokens
    BY InputsAssumption DEF Tokens, PolicyTyped
  <2>4. InjectKey(r) \in [Headers -> Tokens \cup RealKeys]
    BY <2>2, <2>3 DEF InjectKey
  <2>5. PolicyTyped'  BY <1>1, <2>4 DEF PolicyTyped, Send, Fails
  <2>6. PlaceTyped'  BY <1>1, <2>4 DEF PlaceTyped, Places, Send, Fails
  <2>7. ReplyTyped'  BY <1>1, <2>4 DEF ReplyTyped, Send, Fails
  <2>8. FlagsTyped'  BY <1>1, <2>4 DEF FlagsTyped, Send, Fails
  <2>9. HeldIsKey'  BY <1>1, <2>4 DEF HeldIsKey, PolicyTyped, PlaceTyped, Send, Fails
  <2> QED  BY <2>5, <2>6, <2>7, <2>8, <2>9 DEF Keyed
<1>2. CASE NoAnswer(r)
  <2>5. PolicyTyped'  BY <1>2 DEF PolicyTyped, NoAnswer, Fails
  <2>6. PlaceTyped'  BY <1>2 DEF PlaceTyped, Places, NoAnswer, Fails
  <2>7. ReplyTyped'  BY <1>2 DEF ReplyTyped, NoAnswer, Fails
  <2>8. FlagsTyped'  BY <1>2 DEF FlagsTyped, NoAnswer, Fails
  <2>9. HeldIsKey'  BY <1>2 DEF HeldIsKey, PolicyTyped, PlaceTyped, NoAnswer, Fails
  <2> QED  BY <2>5, <2>6, <2>7, <2>8, <2>9 DEF Keyed
<1>3. CASE ModifyResponse(r)
  <2>1. LiftDeadline(r) \/ UNCHANGED <<stream, late>>
    BY <1>3, Zenon DEF ModifyResponse
  <2>5. PolicyTyped'  BY <1>3, <2>1 DEF PolicyTyped, ModifyResponse, LiftDeadline
  <2>6. PlaceTyped'  BY <1>3, <2>1 DEF PlaceTyped, Places, ModifyResponse, LiftDeadline
  <2>7. ReplyTyped'  BY <1>3, <2>1 DEF ReplyTyped, ModifyResponse, LiftDeadline
  <2>8. FlagsTyped'
    <3>1. CASE LiftDeadline(r)
      BY <1>3, <3>1 DEF FlagsTyped, LiftDeadline, ModifyResponse
    <3>2. CASE UNCHANGED <<stream, late>>
      BY <1>3, <3>2 DEF FlagsTyped, ModifyResponse
    <3> QED  BY <2>1, <3>1, <3>2
  <2>9. HeldIsKey'  BY <1>3, <2>1 DEF HeldIsKey, PolicyTyped, PlaceTyped,
                                   ModifyResponse, LiftDeadline
  <2> QED  BY <2>5, <2>6, <2>7, <2>8, <2>9 DEF Keyed
<1>4. CASE CopyHeader(r)
  <2>5. PolicyTyped'  BY <1>4 DEF PolicyTyped, CopyHeader
  <2>6. PlaceTyped'  BY <1>4 DEF PlaceTyped, Places, CopyHeader
  <2>7. ReplyTyped'  BY <1>4 DEF ReplyTyped, CopyHeader
  <2>8. FlagsTyped'  BY <1>4 DEF FlagsTyped, CopyHeader
  <2>9. HeldIsKey'  BY <1>4 DEF HeldIsKey, PolicyTyped, PlaceTyped, CopyHeader
  <2> QED  BY <2>5, <2>6, <2>7, <2>8, <2>9 DEF Keyed
<1>5. CASE CopyBody(r)
  <2>5. PolicyTyped'  BY <1>5 DEF PolicyTyped, CopyBody
  <2>6. PlaceTyped'  BY <1>5 DEF PlaceTyped, Places, CopyBody
  <2>7. ReplyTyped'  BY <1>5 DEF ReplyTyped, CopyBody
  <2>8. FlagsTyped'  BY <1>5 DEF FlagsTyped, CopyBody
  <2>9. HeldIsKey'  BY <1>5 DEF HeldIsKey, PolicyTyped, PlaceTyped, CopyBody
  <2> QED  BY <2>5, <2>6, <2>7, <2>8, <2>9 DEF Keyed
<1>6. CASE ErrorHandler(r)
  <2>5. PolicyTyped'  BY <1>6 DEF PolicyTyped, ErrorHandler, Reject
  <2>6. PlaceTyped'  BY <1>6 DEF PlaceTyped, Places, ErrorHandler, Reject
  <2>7. ReplyTyped'  BY <1>6 DEF ReplyTyped, ErrorHandler, Reject
  <2>8. FlagsTyped'  BY <1>6 DEF FlagsTyped, ErrorHandler, Reject
  <2>9. HeldIsKey'  BY <1>6 DEF HeldIsKey, PolicyTyped, PlaceTyped, ErrorHandler, Reject
  <2> QED  BY <2>5, <2>6, <2>7, <2>8, <2>9 DEF Keyed
<1>7. CASE FinishRequest(r) \/ LogReply(r)
  <2>5. PolicyTyped'  BY <1>7 DEF PolicyTyped, FinishRequest, LogReply
  <2>6. PlaceTyped'  BY <1>7 DEF PlaceTyped, Places, FinishRequest, LogReply
  <2>7. ReplyTyped'  BY <1>7 DEF ReplyTyped, FinishRequest, LogReply
  <2>8. FlagsTyped'  BY <1>7 DEF FlagsTyped, FinishRequest, LogReply
  <2>9. HeldIsKey'  BY <1>7 DEF HeldIsKey, PolicyTyped, PlaceTyped, FinishRequest, LogReply
  <2> QED  BY <2>5, <2>6, <2>7, <2>8, <2>9 DEF Keyed
<1> QED  BY <1>1, <1>2, <1>3, <1>4, <1>5, <1>6, <1>7

LEMMA StepKeyed == IInv /\ Keyed /\ [Next]_vars => Keyed'
<1> SUFFICES ASSUME IInv, Keyed, [Next]_vars PROVE Keyed'
  OBVIOUS
<1>1. ASSUME NEW r \in Requests, Leave(r) \/ WriteTimeout(r) PROVE Keyed'
  <2> USE Rigid DEF Leave, WriteTimeout, Keyed, shared, history, progress
  <2>1. PolicyTyped' /\ HeldIsKey'  BY <1>1 DEF PolicyTyped, HeldIsKey
  <2>2. PlaceTyped' /\ ReplyTyped'  BY <1>1 DEF PlaceTyped, ReplyTyped
  <2>3. FlagsTyped'  BY <1>1 DEF FlagsTyped
  <2> QED  BY <2>1, <2>2, <2>3
<1>2. ASSUME NEW s \in Services, Expire(s) \/ StoreKey(s) PROVE Keyed'
  <2> USE Rigid DEF Expire, StoreKey, Keyed, outside, history, progress
  <2>1. PolicyTyped'  BY <1>2, MaxKeyAssumption DEF PolicyTyped
  <2>2. PlaceTyped' /\ ReplyTyped'  BY <1>2 DEF PlaceTyped, ReplyTyped
  <2>3. FlagsTyped' /\ HeldIsKey'  BY <1>2 DEF FlagsTyped, HeldIsKey
  <2> QED  BY <2>1, <2>2, <2>3
<1>3. CASE UNCHANGED vars
  BY <1>3, Rigid DEF vars, Keyed, PolicyTyped, PlaceTyped, ReplyTyped, FlagsTyped, HeldIsKey,
                     shared, outside, history, progress
<1> QED  BY <1>1, <1>2, <1>3, EarlyKeyed, LateKeyed DEF Next, Handle

\* Every variable keeps its type; above all, no call is made with the key of a lookup
\* that found none.
THEOREM TypeCorrect == Spec => []TypeOK
<1>1. Keyed => TypeOK
  BY DEF Keyed, PolicyTyped, PlaceTyped, ReplyTyped, FlagsTyped, TypeOK
<1> QED  BY <1>1, AlwaysIInv, InitKeyed, StepKeyed, PTL DEF Spec

\* Whatever dots and slashes a forwarded path is written with, it leads, after the path
\* of the target, to an entry of its service's whitelist or below one.
THEOREM PathsLeadInside == Spec => []PathsStayInside
<1>1. ASSUME IInv, TypeOK, NEW r \in Requests, Called(r),
             Leads(BasePath[route[r]]) = << >> \/ ~Climbs(in[r].path)
      PROVE  \E e \in AllowedPaths[route[r]] :
               IsPrefix(Leads(BasePath[route[r]]) \o Leads(e), Leads(Forwarded(r)))
  <2> DEFINE base == BasePath[route[r]]
             path == in[r].path
  <2>1. PICK e \in AllowedPaths[route[r]] : IsPrefix(e, Clean(path))
    BY <1>1 DEF IInv, ForwardIsAuthorised, Allowed
  <2>2. route[r] \in Services /\ in[r] \in Inputs
    BY <1>1 DEF IInv, Passed, TypeOK
  <2>3. /\ e \in Seq(STRING) /\ e # << >>
        /\ base \in Seq(STRING) /\ base # << >>
        /\ path \in Seq(STRING) /\ path # << >>
    BY <2>2, PathsAssumption, Zenon
  <2>4. Leads(Forwarded(r)) = Leads(base) \o Leads(path)
    BY <1>1, <2>3, JoinedLeads DEF Forwarded
  <2>5. IsPrefix(Leads(e), Leads(path))
    BY <2>1, <2>3, PrefixLeads, Zenon
  <2>6. Leads(base) \in Seq(STRING) /\ Leads(e) \in Seq(STRING) /\ Leads(path) \in Seq(STRING)
    BY <2>3, CleanLeads
  <2>7. IsPrefix(Leads(base) \o Leads(e), Leads(base) \o Leads(path))
    BY <2>5, <2>6, PrefixAfter
  <2> QED  BY <2>4, <2>7
<1>2. IInv /\ TypeOK => PathsStayInside
  BY <1>1 DEF PathsStayInside
<1> QED  BY <1>2, AlwaysIInv, TypeCorrect, PTL
=============================================================================
