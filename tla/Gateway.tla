------------------------------- MODULE Gateway -------------------------------
(***************************************************************************)
(* internal/gateway: the OpenAI-compatible endpoint.  A request is a       *)
(* goroutine of ServeHTTP; it shares the limiter and the secret store with *)
(* the others.  A streaming answer is relayed event by event: upstream     *)
(* sends and the connection may end at any event, while the translator     *)
(* reads behind it and the handler writes what it yields to the client.    *)
(***************************************************************************)
EXTENDS Integers, Anthropic

CONSTANTS
  Requests,     \* the requests of one behaviour
  Services,     \* configured services
  Translators,  \* services that have a translator
  NoService,
  Limit,        \* Limit[s]: admissions of s per window, unlimited if not positive
  Inputs,       \* what clients send: [method, bearer, apiKey, valid, routes, stream,
                \*                     messages]
  Answers,      \* Answers[s]: the answers s may give, in its own format
  Faults        \* of {"reported": a stream ends with an event that reports a failure}

ASSUME TranslatorsAssumption == Translators \subseteq Services
ASSUME LimitAssumption       == Limit \in [Services -> Int]
ASSUME InputsAssumption      ==
  /\ Inputs # {}
  /\ \A i \in Inputs : i.messages \in Seq([role : STRING, content : Seq(STRING)])
ASSUME AnswersAssumption     == \A s \in Translators : \A a \in Answers[s] :
  IF s = "anthropic"
    THEN a \in [id : STRING, stop_reason : STRING \ {Nil},
                 content : Seq([type : STRING, text : Seq(STRING)])]
    ELSE a \in [id : STRING, finish : STRING \ {Nil}, content : Seq(STRING)]
ASSUME FaultsAssumption      == Faults \subseteq {"reported"}

VARIABLES
  used,         \* used[s]: admissions of s in the current window
  stored,       \* the services with a translator that have a key in the secret store
  in,           \* in[r]: the request as received
  at,           \* at[r]: what r does next in ServeHTTP
  service,      \* service[r]: svcName
  asked,        \* asked[r]: the messages sent upstream, none before client.Do
  answer,       \* answer[r]: what upstream has to say
  script,       \* script[r]: the events it streams that in
  sent,         \* sent[r]: how many of them it has sent
  ended,        \* ended[r]: how the response body ended, "open" before it did
  read,         \* read[r]: how many events the translator has read
  id,           \* id[r]: the id it has found in them
  out,          \* out[r]: what the client has been written: chunks, or one answer
  reply,        \* reply[r]: the status written to the client, 0 for none
  audit,        \* audit[r]: the statuses logged for r
  gone          \* gone[r]: nothing can be written to the client any more

upstream == <<answer, script, sent, ended>>
relay == <<read, id, out>>
vars == <<used, stored, in, at, service, asked, upstream, relay, reply, audit, gone>>

NoQuestion == [system |-> << >>, messages |-> << >>]

Init ==
  /\ used = [s \in Services |-> 0]
  /\ stored \in SUBSET Translators
  /\ in = [r \in Requests |-> CHOOSE i \in Inputs : TRUE]
  /\ at = [r \in Requests |-> "idle"]
  /\ service = [r \in Requests |-> NoService]
  /\ asked = [r \in Requests |-> NoQuestion]
  /\ answer = [r \in Requests |-> Nil]
  /\ script = [r \in Requests |-> << >>]
  /\ sent = [r \in Requests |-> 0]
  /\ ended = [r \in Requests |-> "open"]
  /\ read = [r \in Requests |-> 0]
  /\ id = [r \in Requests |-> Nil]
  /\ out = [r \in Requests |-> << >>]
  /\ reply = [r \in Requests |-> 0]
  /\ audit = [r \in Requests |-> << >>]
  /\ gone = [r \in Requests |-> FALSE]

Goto(r, label) == at' = [at EXCEPT ![r] = label]

Answer(r, code, label) ==
  /\ reply' = [reply EXCEPT ![r] = code]
  /\ Goto(r, label)

Arrive(r) ==
  /\ at[r] = "idle"
  /\ \E i \in Inputs : in' = [in EXCEPT ![r] = i]
  /\ Goto(r, "check")
  /\ UNCHANGED <<used, stored, service, asked, upstream, relay, reply, audit, gone>>

(************************ before upstream is called ************************)
\* extractAndValidateToken: a "vibe" token names a service, configured or not; a
\* "malformed" one has the prefix and no valid name, and ends the search.
HasToken(i) ==
  \/ i.bearer = "vibe"
  \/ i.bearer \notin {"vibe", "malformed"} /\ i.apiKey = "vibe"

\* resolveService: any prefix that matches the model, in the order of a map.
Check(r) ==
  /\ at[r] = "check"
  /\ LET i == in[r]
         code == CASE i.method # "POST" -> 405
                   [] i.method = "POST" /\ ~HasToken(i) -> 401
                   [] OTHER -> IF i.valid /\ i.routes # {} THEN 0 ELSE 400
     IN IF code # 0
          THEN Answer(r, code, "done") /\ UNCHANGED service
          ELSE /\ \E s \in i.routes : service' = [service EXCEPT ![r] = s]
               /\ Goto(r, "limit") /\ UNCHANGED reply
  /\ UNCHANGED <<used, stored, in, asked, upstream, relay, audit, gone>>

\* A service the limiter does not know is not limited.
Limited(s) == s \in Services /\ Limit[s] > 0

Allow(r) ==
  /\ at[r] = "limit"
  /\ LET s == service[r] IN
     IF Limited(s) /\ used[s] >= Limit[s]
       THEN Answer(r, 429, "log429") /\ UNCHANGED used
       ELSE /\ used' = [t \in Services |-> IF t = s /\ Limited(s) THEN used[t] + 1 ELSE used[t]]
            /\ Goto(r, "prepare") /\ UNCHANGED reply
  /\ UNCHANGED <<stored, in, service, asked, upstream, relay, audit, gone>>

\* The service and its translator are looked up, then its key: what is missing is
\* answered, and not audited.
Prepare(r) ==
  /\ at[r] = "prepare"
  /\ IF service[r] \notin Translators THEN Answer(r, 400, "done")
     ELSE IF service[r] \notin stored THEN Answer(r, 500, "done")
     ELSE Goto(r, "send") /\ UNCHANGED reply
  /\ UNCHANGED <<used, stored, in, service, asked, upstream, relay, audit, gone>>

(************************* upstream and its answer *************************)
\* What the translator of s makes of a conversation: OpenAI's has nothing to do.
Question(s, messages) ==
  IF s = "anthropic" THEN TranslateRequest(messages)
  ELSE [system |-> << >>, messages |-> messages]

\* The events in which s streams an answer; a service that speaks OpenAI's protocol
\* may leave [DONE] out.
Streams(s, a) ==
  LET chunks == [i \in DOMAIN a.content |-> Chunk(a.id, <<a.content[i]>>, Nil)]
                  \o <<Chunk(a.id, << >>, a.finish)>>
  IN IF s = "anthropic" THEN {EventsOf(a)} ELSE {chunks, Append(chunks, DONE)}

Failing(x) ==
  IF "reported" \in Faults THEN {<<x[1], [type |-> "error"]>>} ELSE {x}

\* client.Do: the answer's status, or an error: refused, broken off, cancelled
\* with the client's connection, or the client's timeout.
Send(r) ==
  /\ at[r] = "send"
  /\ asked' = [asked EXCEPT ![r] = Question(service[r], in[r].messages)]
  /\ \/ Answer(r, 502, "log502") /\ UNCHANGED <<answer, script>>
     \/ Answer(r, 400, "logError") /\ UNCHANGED <<answer, script>>
     \/ \E a \in Answers[service[r]] :
          /\ answer' = [answer EXCEPT ![r] = a]
          /\ \/ ~in[r].stream /\ Goto(r, "decode") /\ UNCHANGED <<script, reply>>
             \/ /\ in[r].stream
                /\ \E x \in UNION {Failing(y) : y \in Streams(service[r], a)} :
                     script' = [script EXCEPT ![r] = x]
                /\ Answer(r, 200, "relay")
  /\ UNCHANGED <<used, stored, in, service, sent, ended, relay, audit, gone>>

\* TranslateResponse of the translator of s.
Whole(s, a) == IF s = "anthropic" THEN TranslateResponse(a) ELSE a

\* handleNonStream.  The body may break off, arrive too late (the client's timeout
\* covers it) or not decode: 502.  Whatever was written, ServeHTTP goes on to log 200.
Decode(r) ==
  /\ at[r] = "decode"
  /\ \/ /\ out' = [out EXCEPT ![r] = <<Whole(service[r], answer[r])>>]
        /\ Answer(r, 200, "logOK")
     \/ Answer(r, 502, "logOK") /\ UNCHANGED out
  /\ UNCHANGED <<used, stored, in, service, asked, upstream, read, id, audit, gone>>

UpstreamSends(r) ==
  /\ at[r] = "relay" /\ ended[r] = "open"
  /\ sent[r] < Len(script[r])
  /\ sent' = [sent EXCEPT ![r] = @ + 1]
  /\ UNCHANGED <<used, stored, in, at, service, asked, answer, script, ended, relay,
                 reply, audit, gone>>

\* The body ends: after its last event, or before it with an error, of the
\* connection or by the client's timeout of 120 seconds for the whole exchange.
UpstreamEnds(r) ==
  /\ at[r] = "relay" /\ ended[r] = "open"
  /\ \/ sent[r] = Len(script[r]) /\ ended' = [ended EXCEPT ![r] = "EOF"]
     \/ ended' = [ended EXCEPT ![r] = "error"]
  /\ UNCHANGED <<used, stored, in, at, service, asked, answer, script, sent, relay,
                 reply, audit, gone>>

(**************************** the stream ***********************************)
\* Next of the translator of s on one event: OpenAI's pass as they are.
Yields(s, i, e) == IF s = "anthropic" THEN ChunkOf(i, e) ELSE <<e>>

\* All that it makes of the events x, if its id is i throughout.
Relayed(s, i, x) == FlattenSeq([k \in DOMAIN x |-> Yields(s, i, x[k])])

\* The loop of handleStream on what Next has yielded: [DONE] ends it.
LoopsOn(r, e) == Goto(r, "relay")                                  \* mutant
StopsAtDone(r, e) == Goto(r, IF e = <<DONE>> THEN "logOK" ELSE "relay")

Event(r) ==
  LET e == script[r][read[r] + 1]
      chunks == Yields(service[r], id[r], e)
  IN /\ at[r] = "relay" /\ read[r] < sent[r]
     /\ read' = [read EXCEPT ![r] = @ + 1]
     /\ id' = [id EXCEPT ![r] = IF service[r] = "anthropic" THEN IdAfter(@, e) ELSE @]
     /\ out' = [out EXCEPT ![r] = @ \o chunks]
     /\ StopsAtDone(r, chunks)
     /\ UNCHANGED <<used, stored, in, service, asked, upstream, reply, audit, gone>>

EndOfStreamIgnored(r) ==                                        \* mutant
  /\ at[r] = "relay" /\ ended[r] = "EOF" /\ read[r] = sent[r]
  /\ UNCHANGED vars

\* io.EOF is taken for the end of the answer, [DONE] or not.
EndOfStream(r) ==
  /\ at[r] = "relay" /\ ended[r] = "EOF" /\ read[r] = sent[r]
  /\ out' = [out EXCEPT ![r] = Append(@, DONE)]
  /\ Goto(r, "logOK")
  /\ UNCHANGED <<used, stored, in, service, asked, upstream, read, id, reply,
                 audit, gone>>

StreamErrorIsEOF(r) ==                                          \* mutant
  /\ at[r] = "relay" /\ ended[r] = "error"
  /\ out' = [out EXCEPT ![r] = Append(@, DONE)]
  /\ Goto(r, "logOK")
  /\ UNCHANGED <<used, stored, in, service, asked, upstream, read, id, reply,
                 audit, gone>>

\* Any other error, the scanner's limit of 64 kB a line among them, ends the stream
\* without [DONE]; events in the way are lost.
StreamError(r) ==
  /\ at[r] = "relay" /\ ended[r] = "error"
  /\ Goto(r, "logOK")
  /\ UNCHANGED <<used, stored, in, service, asked, upstream, relay, reply,
                 audit, gone>>

LoggedTooEarly(r) == IF at[r] = "logOK" THEN 0 ELSE reply[r]    \* mutant
LoggedAsOK(r) == IF at[r] = "log429" THEN 429 ELSE 200          \* mutant

\* The status that is logged is a literal at each of the places, or upstream's.
LoggedStatus(r) ==
  CASE at[r] = "log429" -> 429
    [] at[r] = "log502" -> 502
    [] at[r] = "logError" -> 400
    [] at[r] = "logOK" -> 200

Log(r) ==
  /\ at[r] \in {"log429", "log502", "logError", "logOK"}
  /\ audit' = [audit EXCEPT ![r] = Append(@, LoggedStatus(r))]
  /\ Goto(r, "done")
  /\ UNCHANGED <<used, stored, in, service, asked, upstream, relay, reply, gone>>

ServeHTTP(r) ==
  \/ Check(r)
  \/ Allow(r)
  \/ Prepare(r)
  \/ Send(r)
  \/ Decode(r)
  \/ Event(r)
  \/ EndOfStream(r)
  \/ StreamError(r)
  \/ Log(r)

(************************* clients, time, keys *****************************)
\* The client closes the connection, or WriteTimeout passes, which the gateway lifts
\* for no stream.  net/http cancels the context, and with it the upstream request.
Disconnect(r) ==
  /\ at[r] \in {"send", "decode", "relay"} /\ ~gone[r]
  /\ gone' = [gone EXCEPT ![r] = TRUE]
  /\ ended' = IF ended[r] = "open" THEN [ended EXCEPT ![r] = "error"] ELSE ended
  /\ UNCHANGED <<used, stored, in, at, service, asked, answer, script, sent, relay,
                 reply, audit>>

\* The oldest admission leaves the window.
Expire(s) ==
  /\ used[s] > 0
  /\ used' = [used EXCEPT ![s] = @ - 1]
  /\ UNCHANGED <<stored, in, at, service, asked, upstream, relay, reply, audit, gone>>

\* Only the keys of services with a translator are ever asked for.
StoreKey(s) ==
  /\ s \in Translators \ stored
  /\ stored' = stored \cup {s}
  /\ UNCHANGED <<used, in, at, service, asked, upstream, relay, reply, audit, gone>>

Next ==
  \/ \E r \in Requests :
       Arrive(r) \/ ServeHTTP(r) \/ UpstreamSends(r) \/ UpstreamEnds(r) \/ Disconnect(r)
  \/ \E s \in Services : Expire(s) \/ StoreKey(s)

Spec == Init /\ [][Next]_vars

\* Handlers keep running, and a response body ends at the latest by the timeout
\* of the gateway's http.Client.
FairSpec ==
  Spec /\ \A r \in Requests : WF_vars(ServeHTTP(r)) /\ WF_vars(UpstreamEnds(r))

(******************************* properties ********************************)
\* What upstream streams, as the client should read it: translated, and ended by
\* one [DONE], which an upstream may leave out.
Translation(r) ==
  LET said == Relayed(service[r], answer[r].id, script[r])
  IN IF said # << >> /\ Last(said) = DONE THEN said ELSE Append(said, DONE)

\* The values of the variables; what is logged is a status some client was sent.
TypeOK ==
  /\ used \in [Services -> Nat] /\ stored \in SUBSET Services
  /\ at \in [Requests -> {"idle", "check", "limit", "prepare", "send", "decode", "relay",
                          "log429", "log502", "logError", "logOK", "done"}]
  /\ gone \in [Requests -> BOOLEAN]
  /\ ended \in [Requests -> {"open", "EOF", "error"}]
  /\ reply \in [Requests -> {0, 200, 400, 401, 405, 429, 500, 502}]
  /\ \A r \in Requests :
       /\ in[r] \in Inputs /\ service[r] \in in[r].routes \cup {NoService}
       /\ read[r] <= sent[r] /\ sent[r] <= Len(script[r])
       /\ audit[r] \in {<< >>} \cup {<<code>> : code \in {200, 400, 429, 502}}

\* The client reads what upstream says, translated, in order, nothing twice and
\* nothing made up (handler.go:216-237 and the translators' Next).
StreamIsPrefix == \A r \in Requests :
  at[r] \in {"relay", "logOK", "done"} /\ script[r] # << >> => IsPrefix(out[r], Translation(r))

\* translator.go:18, "Returns io.EOF when the stream is complete": a client that is
\* told [DONE] has read the whole answer, and upstream has not reported a failure.
DoneMeansComplete == \A r \in Requests :
  (\E i \in DOMAIN out[r] : out[r][i] = DONE) =>
    /\ out[r] = Translation(r)
    /\ \A i \in DOMAIN script[r] : script[r][i].type # "error"

\* The audit log holds the status that was written to the client, with the exception
\* that contradicts README.md:160: an answer that was to be translated as a whole, and
\* broke off or did not decode, is 502 for the client and 200 in the log
\* (handler.go:196, :169).
AuditTellsReply == \A r \in Requests :
  at[r] = "done" /\ audit[r] # << >> =>
    \/ audit[r] = <<reply[r]>>
    \/ ~in[r].stream /\ reply[r] = 502 /\ audit[r] = <<200>>

\* A request for which upstream was called ends, and ends up in the log, however its
\* stream ends (handler.go:144-169).
CalledIsAudited == \A r \in Requests : asked[r] # NoQuestion ~> audit[r] # << >>

\* Asking for a stream or not makes no difference to what a client learns: the
\* fragments of a complete stream, put together, are the answer that the translator
\* makes of the same message as a whole, tool calls in between or not, and so is its
\* reason to stop (stream_anthropic.go:48 against anthropic.go:97).
StreamAgreesWithWhole == \A r \in Requests :
  LET n == Len(out[r])
      chunks == SubSeq(out[r], 1, n - 1)
  IN script[r] # << >> /\ n > 1 /\ out[r][n] = DONE =>
       LET whole == Whole(service[r], answer[r]) IN
       /\ \A c \in ToSet(chunks) : c.id = whole.id
       /\ FlattenSeq([i \in DOMAIN chunks |-> chunks[i].content]) = whole.content
       /\ \E i \in DOMAIN chunks :
            /\ chunks[i].finish = whole.finish
            /\ \A j \in DOMAIN chunks : j > i => chunks[j].finish = Nil

\* Upstream is asked what the client asked: every message reaches it, in the order of
\* the conversation, as long as there is one system message at most (anthropic.go:73).
ConversationIsKept == \A r \in Requests :
  LET said == in[r].messages
      heard == [i \in DOMAIN asked[r].messages |-> asked[r].messages[i].content]
      told == IF asked[r].system = << >> THEN heard ELSE <<asked[r].system>> \o heard
      system == {i \in DOMAIN said : said[i].role = "system"}
  IN asked[r] # NoQuestion =>
       /\ Len(told) = Len(said)
       /\ \A i \in DOMAIN said \ system, j \in DOMAIN said \ system :
            i < j => \E k, l \in DOMAIN told :
              k < l /\ told[k] = said[i].content /\ told[l] = said[j].content
       /\ \A i \in DOMAIN said : said[i].content \in ToSet(told)
=============================================================================
