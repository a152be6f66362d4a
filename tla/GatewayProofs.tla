---------------------------- MODULE GatewayProofs ---------------------------
(***************************************************************************)
(* Whatever is asked of the gateway, by however many clients at once, and  *)
(* wherever streams and connections break off: upstream is asked what the  *)
(* client asked, the client reads a beginning of what upstream says, and   *)
(* the same whether it is streamed or not; [DONE] means all of it; and the *)
(* log tells the status the client was sent, but for one kind of answer.   *)
(***************************************************************************)
EXTENDS TranslatorProofs

\* What is written down about a request.
Page(r) == <<in[r], at[r], reply[r], audit[r]>>

Sheets ==
  /\ DOMAIN in = Requests /\ DOMAIN at = Requests
  /\ DOMAIN reply = Requests /\ DOMAIN audit = Requests

\* An answer that is translated as a whole may be given up after 200 has been decided on.
GivenUp(r) == ~in[r].stream /\ reply[r] = 502

\* Wherever ServeHTTP logs a literal, it has come there by writing that status, but
\* for the 200 at its end.
Balanced(r) ==
  /\ at[r] # "done" => audit[r] = << >>
  /\ at[r] = "decode" => ~in[r].stream
  /\ at[r] = "relay" => reply[r] = 200
  /\ at[r] = "log429" => reply[r] = 429
  /\ at[r] = "log502" => reply[r] = 502
  /\ at[r] = "logError" => reply[r] = 400
  /\ at[r] = "logOK" => reply[r] = 200 \/ GivenUp(r)
  /\ at[r] = "done" => audit[r] \in {<< >>, <<reply[r]>>} \/ (audit[r] = <<200>> /\ GivenUp(r))

Books == Sheets /\ \A r \in Requests : Balanced(r)

LEMMA InitBooks == Init => Books
BY DEF Init, Books, Sheets, Balanced, GivenUp

LEMMA OnePage ==
  ASSUME Books, NEW r \in Requests, Sheets', Balanced(r)',
         \A q \in Requests \ {r} : UNCHANGED Page(q)
  PROVE  Books'
<1>1. ASSUME NEW q \in Requests, q # r PROVE Balanced(q)'
  <2>1. Balanced(q) /\ UNCHANGED Page(q)
    BY <1>1 DEF Books
  <2> QED  BY <2>1 DEF Page, Balanced, GivenUp
<1> QED  BY <1>1 DEF Books

\* Until upstream has answered, nothing is logged.
LEMMA EarlyBooks ==
  ASSUME Books, NEW r \in Requests,
         Arrive(r) \/ Check(r) \/ Allow(r) \/ Prepare(r) \/ Send(r)
  PROVE  Books'
<1> USE DEF Goto, Answer
<1>0. Balanced(r) /\ Sheets
  BY DEF Books
<1>1. /\ Sheets' /\ UNCHANGED audit
      /\ \A q \in Requests \ {r} : in'[q] = in[q] /\ at'[q] = at[q] /\ reply'[q] = reply[q]
      /\ audit[r] = << >>
      /\ \/ at'[r] \in {"check", "limit", "prepare", "send", "done"}
         \/ at'[r] = "decode" /\ ~in'[r].stream
         \/ <<at'[r], reply'[r]>> \in {<<"relay", 200>>, <<"log429", 429>>, <<"log502", 502>>,
                                      <<"logError", 400>>}
  <2>1. CASE Arrive(r)
    BY <1>0, <2>1 DEF Arrive, Sheets, Balanced
  <2>2. CASE Check(r)
    <3>1. \/ \E code \in {400, 401, 405} : Answer(r, code, "done")
          \/ (Goto(r, "limit") /\ UNCHANGED reply)
      BY <2>2 DEF Check
    <3> QED  BY <1>0, <2>2, <3>1 DEF Check, Sheets, Balanced
  <2>3. CASE Allow(r)
    BY <1>0, <2>3 DEF Allow, Sheets, Balanced
  <2>4. CASE Prepare(r)
    BY <1>0, <2>4 DEF Prepare, Sheets, Balanced
  <2>5. CASE Send(r)
    <3>1. \/ Answer(r, 502, "log502")
          \/ Answer(r, 400, "logError")
          \/ (~in[r].stream /\ Goto(r, "decode") /\ UNCHANGED reply)
          \/ Answer(r, 200, "relay")
      BY <2>5 DEF Send
    <3> QED  BY <1>0, <2>5, <3>1 DEF Send, Sheets, Balanced
  <2> QED  BY <2>1, <2>2, <2>3, <2>4, <2>5
<1>2. Balanced(r)'
  BY <1>1 DEF Balanced
<1> QED  BY <1>1, <1>2, OnePage DEF Page

\* The answer, the stream, and the entry.
LEMMA LateBooks ==
  ASSUME Books, NEW r \in Requests,
         \/ Decode(r) \/ Event(r) \/ EndOfStream(r) \/ StreamError(r) \/ Log(r)
         \/ Disconnect(r)
  PROVE  Books'
<1> USE DEF Goto, Answer, relay
<1>0. Balanced(r) /\ Sheets
  BY DEF Books
<1>1. CASE Decode(r)
  <2>1. Sheets' /\ \A q \in Requests \ {r} : UNCHANGED Page(q)
    BY <1>0, <1>1 DEF Decode, Sheets, Page
  <2>2. /\ at'[r] = "logOK" /\ UNCHANGED <<in, audit>> /\ ~in[r].stream
        /\ reply'[r] \in {200, 502}
    BY <1>0, <1>1 DEF Decode, Balanced, Sheets
  <2>3. Balanced(r)'
    BY <1>0, <1>1, <2>2 DEF Balanced, GivenUp, Decode
  <2> QED  BY <2>1, <2>3, OnePage
<1>2. CASE Event(r) \/ EndOfStream(r) \/ StreamError(r)
  <2>1. /\ at[r] = "relay" /\ UNCHANGED <<in, reply, audit>>
        /\ \E label \in {"relay", "logOK"} : at' = [at EXCEPT ![r] = label]
    BY <1>2 DEF Event, StopsAtDone, EndOfStream, StreamError
  <2>2. Sheets' /\ \A q \in Requests \ {r} : UNCHANGED Page(q)
    BY <1>0, <2>1 DEF Sheets, Page
  <2>3. Balanced(r)'
    BY <1>0, <2>1 DEF Balanced, Sheets
  <2> QED  BY <2>2, <2>3, OnePage
<1>3. CASE Log(r)
  <2>1. Sheets' /\ \A q \in Requests \ {r} : UNCHANGED Page(q)
    BY <1>0, <1>3 DEF Log, Sheets, Page
  <2>2. audit[r] = << >> /\ Append(<< >>, LoggedStatus(r)) = <<LoggedStatus(r)>>
    BY <1>0, <1>3 DEF Log, Balanced
  <2>3. at'[r] = "done" /\ audit'[r] = <<LoggedStatus(r)>> /\ UNCHANGED <<in, reply>>
    BY <1>0, <1>3, <2>2 DEF Log, Sheets
  <2>4. LoggedStatus(r) = reply[r] \/ (LoggedStatus(r) = 200 /\ GivenUp(r))
    BY <1>0, <1>3 DEF Log, Balanced, LoggedStatus
  <2>5. Balanced(r)'
    BY <2>3, <2>4 DEF Balanced, GivenUp
  <2> QED  BY <2>1, <2>5, OnePage
<1>4. CASE Disconnect(r)
  <2>1. Sheets' /\ \A q \in Requests \ {r} : UNCHANGED Page(q)
    BY <1>0, <1>4 DEF Disconnect, Sheets, Page
  <2>2. UNCHANGED <<in, at, reply, audit>>
    BY <1>4 DEF Disconnect
  <2>3. Balanced(r)'
    BY <1>0, <2>2 DEF Balanced, GivenUp
  <2> QED  BY <2>1, <2>3, OnePage
<1> QED  BY <1>1, <1>2, <1>3, <1>4

LEMMA StepBooks == Books /\ [Next]_vars => Books'
<1> SUFFICES ASSUME Books, [Next]_vars PROVE Books'
  OBVIOUS
<1>1. CASE UNCHANGED <<in, at, reply, audit>>
  BY <1>1 DEF Books, Sheets, Balanced, GivenUp
<1>2. \/ UNCHANGED <<in, at, reply, audit>>
      \/ \E r \in Requests :
           \/ Arrive(r) \/ Check(r) \/ Allow(r) \/ Prepare(r) \/ Send(r)
      \/ \E r \in Requests :
           \/ Decode(r) \/ Event(r) \/ EndOfStream(r) \/ StreamError(r) \/ Log(r)
           \/ Disconnect(r)
  <2>1. ASSUME NEW r \in Requests, UpstreamSends(r) \/ UpstreamEnds(r)
        PROVE  UNCHANGED <<in, at, reply, audit>>
    BY <2>1 DEF UpstreamSends, UpstreamEnds
  <2>2. ASSUME NEW s \in Services, Expire(s) \/ StoreKey(s)
        PROVE  UNCHANGED <<in, at, reply, audit>>
    BY <2>2 DEF Expire, StoreKey
  <2>3. UNCHANGED vars => UNCHANGED <<in, at, reply, audit>>
    BY DEF vars
  <2> QED  BY <2>1, <2>2, <2>3 DEF Next, ServeHTTP
<1> QED  BY <1>1, <1>2, EarlyBooks, LateBooks

\* The status in the log is the one that was written to the client, streamed or not,
\* and whether or not the client has stayed; only a whole answer that could not be
\* translated is 502 for the client and 200 in the log.
THEOREM LogIsTrue == Spec => []AuditTellsReply
<1>1. Books => AuditTellsReply
  BY DEF Books, Balanced, GivenUp, AuditTellsReply
<1>2. Init => Books
  BY InitBooks
<1>3. Books /\ [Next]_vars => Books'
  BY StepBooks
<1> QED  BY <1>1, <1>2, <1>3, PTL DEF Spec

(**************************** the types ************************************)
Labels == {"idle", "check", "limit", "prepare", "send", "decode", "relay",
           "log429", "log502", "logError", "logOK", "done"}

Rows ==
  /\ DOMAIN in = Requests /\ DOMAIN service = Requests /\ DOMAIN asked = Requests
  /\ DOMAIN answer = Requests /\ DOMAIN script = Requests /\ DOMAIN sent = Requests
  /\ DOMAIN read = Requests /\ DOMAIN id = Requests /\ DOMAIN out = Requests
  /\ DOMAIN audit = Requests
  /\ at = [r \in Requests |-> at[r]] /\ ended = [r \in Requests |-> ended[r]]
  /\ reply = [r \in Requests |-> reply[r]] /\ gone = [r \in Requests |-> gone[r]]

\* Everything that is known about r.
Row(r) == <<in[r], at[r], service[r], asked[r], answer[r], script[r], sent[r], ended[r],
            read[r], id[r], out[r], reply[r], audit[r], gone[r]>>

Step(r) == Arrive(r) \/ ServeHTTP(r) \/ UpstreamSends(r) \/ UpstreamEnds(r) \/ Disconnect(r)

\* A step of r leaves the others alone.
LEMMA OneRow ==
  ASSUME Rows, NEW r \in Requests, Step(r)
  PROVE  Rows' /\ \A q \in Requests \ {r} : UNCHANGED Row(q)
<1> USE DEF Rows, Row, Goto, Answer, upstream, relay
<1>1. CASE Arrive(r)
  BY <1>1 DEF Arrive
<1>2. CASE Check(r)
  <2>1. \/ \E code \in {400, 401, 405} : Answer(r, code, "done") /\ UNCHANGED service
        \/ /\ \E s \in in[r].routes : service' = [service EXCEPT ![r] = s]
           /\ Goto(r, "limit") /\ UNCHANGED reply
    BY <1>2 DEF Check
  <2> QED  BY <1>2, <2>1 DEF Check
<1>3. CASE Allow(r)
  BY <1>3 DEF Allow
<1>4. CASE Prepare(r)
  BY <1>4 DEF Prepare
<1>5. CASE Send(r)
  BY <1>5 DEF Send
<1>6. CASE Decode(r)
  BY <1>6 DEF Decode
<1>7. CASE Event(r)
  BY <1>7 DEF Event, StopsAtDone
<1>8. CASE EndOfStream(r) \/ StreamError(r)
  BY <1>8 DEF EndOfStream, StreamError
<1>9. CASE Log(r)
  BY <1>9 DEF Log
<1>10. CASE UpstreamSends(r) \/ UpstreamEnds(r)
  BY <1>10 DEF UpstreamSends, UpstreamEnds
<1>11. CASE Disconnect(r)
  BY <1>11 DEF Disconnect
<1> QED  BY <1>1, <1>2, <1>3, <1>4, <1>5, <1>6, <1>7, <1>8, <1>9, <1>10, <1>11 DEF Step, ServeHTTP

\* What is logged last, and how far a stream is, once it has begun.
Progress(r) ==
  /\ in[r] \in Inputs /\ at[r] \in Labels /\ gone[r] \in BOOLEAN
  /\ service[r] \in in[r].routes \cup {NoService}
  /\ at[r] \in {"idle", "check"} => service[r] = NoService
  /\ at[r] = "send" => service[r] \in Translators
  /\ at[r] \in {"idle", "check", "limit", "prepare", "send"} => script[r] = << >>
  /\ reply[r] \in {0, 200, 400, 401, 405, 429, 500, 502}
  /\ at[r] # "done" => audit[r] = << >>
  /\ audit[r] \in {<< >>} \cup {<<code>> : code \in {200, 400, 429, 502}}
  /\ read[r] \in Nat /\ sent[r] \in Nat /\ Len(script[r]) \in Nat
  /\ read[r] <= sent[r] /\ sent[r] <= Len(script[r])
  /\ ended[r] \in {"open", "EOF", "error"}
  /\ ended[r] = "EOF" => sent[r] = Len(script[r]) /\ at[r] \in {"relay", "logOK", "done"}

Types ==
  /\ used \in [Services -> Nat] /\ stored \subseteq Translators
  /\ Rows /\ \A r \in Requests : Progress(r)

LEMMA InitTypes == Init => Types
<1> SUFFICES ASSUME Init PROVE Types
  OBVIOUS
<1>1. (CHOOSE i \in Inputs : TRUE) \in Inputs
  BY InputsAssumption
<1>2. Len(<< >>) = 0
  OBVIOUS
<1> QED  BY <1>1, <1>2 DEF Init, Types, Rows, Progress, Labels

\* ServeHTTP until upstream has answered.
LEMMA EarlyProgress ==
  ASSUME Types, NEW r \in Requests, Rows',
         Arrive(r) \/ Check(r) \/ Prepare(r) \/ Send(r)
  PROVE  Progress(r)'
<1> USE DEF Goto, Answer, upstream, relay
<1>0. Progress(r) /\ Rows
  BY DEF Types
<1>1. CASE Arrive(r)
  BY <1>0, <1>1 DEF Arrive, Progress, Rows, Labels
<1>2. CASE Check(r)
  <2>1. \/ \E code \in {400, 401, 405} : Answer(r, code, "done") /\ UNCHANGED service
        \/ /\ \E s \in in[r].routes : service' = [service EXCEPT ![r] = s]
           /\ Goto(r, "limit") /\ UNCHANGED reply
    BY <1>2 DEF Check
  <2> QED  BY <1>0, <1>2, <2>1 DEF Check, Progress, Rows, Labels
<1>3. CASE Prepare(r)
  BY <1>0, <1>3 DEF Prepare, Progress, Rows, Labels
<1>4. CASE Send(r)
  <2>1. at[r] = "send" /\ UNCHANGED <<in, service, sent, ended, read, audit, gone>>
    BY <1>4 DEF Send
  <2>2. \/ Answer(r, 502, "log502") /\ UNCHANGED script
        \/ Answer(r, 400, "logError") /\ UNCHANGED script
        \/ Goto(r, "decode") /\ UNCHANGED <<script, reply>>
        \/ Answer(r, 200, "relay") /\ \E x : script' = [script EXCEPT ![r] = x] /\ Len(x) \in Nat
    <3>1. ASSUME NEW a \in Answers[service[r]], NEW y \in Streams(service[r], a), NEW x \in Failing(y)
          PROVE  Len(x) \in Nat
      <4>1. service[r] \in Translators
        BY <1>0, <2>1 DEF Progress
      <4>2. x \in Seq(Events(service[r], a.id))
        BY <3>1, <4>1, StreamsAreStreamed DEF Streamed
      <4> QED  BY <4>2, LenProperties
    <3> QED  BY <1>4, <3>1 DEF Send
  <2>3. Len(<< >>) = 0
    OBVIOUS
  <2> QED  BY <1>0, <2>1, <2>2, <2>3 DEF Progress, Rows, Labels
<1> QED  BY <1>1, <1>2, <1>3, <1>4

\* The limiter refuses, or goes on.
LEMMA AllowTypes ==
  ASSUME Types, NEW r \in Requests, Rows', Allow(r)
  PROVE  Progress(r)' /\ used' \in [Services -> Nat]
<1>1. Progress(r)'
  <2>1. Progress(r) /\ Rows
    BY DEF Types
  <2>2. \/ Answer(r, 429, "log429")
        \/ Goto(r, "prepare") /\ UNCHANGED reply
    BY DEF Allow
  <2> QED  BY <2>1, <2>2 DEF Allow, Answer, Goto, Progress, Rows, Labels, upstream, relay
<1>2. used' \in [Services -> Nat]
  BY DEF Allow, Types
<1> QED  BY <1>1, <1>2

\* Upstream, the rest of ServeHTTP, and the client.
LEMMA LateProgress ==
  ASSUME Types, NEW r \in Requests, Rows',
         \/ Decode(r) \/ Event(r) \/ EndOfStream(r) \/ StreamError(r) \/ Log(r)
         \/ UpstreamSends(r) \/ UpstreamEnds(r) \/ Disconnect(r)
  PROVE  Progress(r)'
<1> USE DEF Goto, Answer, upstream, relay
<1>0. Progress(r) /\ Rows
  BY DEF Types
<1>1. CASE Decode(r)
  BY <1>0, <1>1 DEF Decode, Progress, Rows, Labels
<1>2. CASE Event(r)
  BY <1>0, <1>2 DEF Event, StopsAtDone, Progress, Rows, Labels
<1>3. CASE EndOfStream(r) \/ StreamError(r)
  BY <1>0, <1>3 DEF EndOfStream, StreamError, Progress, Rows, Labels
<1>4. CASE Log(r)
  <2>1. audit[r] = << >> /\ Append(<< >>, LoggedStatus(r)) = <<LoggedStatus(r)>>
    BY <1>0, <1>4 DEF Log, Progress
  <2>2. LoggedStatus(r) \in {200, 400, 429, 502}
    BY <1>0, <1>4 DEF Log, LoggedStatus, Progress
  <2> QED  BY <1>0, <1>4, <2>1, <2>2 DEF Log, Progress, Rows, Labels
<1>5. CASE UpstreamSends(r) \/ UpstreamEnds(r)
  BY <1>0, <1>5 DEF UpstreamSends, UpstreamEnds, Progress, Rows, Labels
<1>6. CASE Disconnect(r)
  BY <1>0, <1>6 DEF Disconnect, Progress, Rows, Labels
<1> QED  BY <1>1, <1>2, <1>3, <1>4, <1>5, <1>6

LEMMA StepTypes == Types /\ [Next]_vars => Types'
<1> SUFFICES ASSUME Types, [Next]_vars PROVE Types'
  OBVIOUS
<1>1. ASSUME NEW r \in Requests, Step(r) PROVE Types'
  <2>1. Rows' /\ \A q \in Requests \ {r} : UNCHANGED Row(q)
    BY <1>1, OneRow DEF Types
  <2>2. Progress(r)' /\ used' \in [Services -> Nat]
    <3>1. CASE Allow(r)
      BY <2>1, <3>1, AllowTypes
    <3>2. CASE ~Allow(r)
      <4>1. UNCHANGED used
        BY <1>1, <3>2 DEF Step, ServeHTTP, Arrive, Check, Prepare, Send, Decode, Event, EndOfStream,
           StreamError, Log, UpstreamSends, UpstreamEnds, Disconnect
      <4>2. Progress(r)'
        BY <1>1, <2>1, <3>2, EarlyProgress, LateProgress DEF Step, ServeHTTP
      <4> QED  BY <4>1, <4>2 DEF Types
    <3> QED  BY <3>1, <3>2
  <2>3. UNCHANGED stored
    BY <1>1 DEF Step, ServeHTTP, Arrive, Check, Allow, Prepare, Send, Decode, Event, EndOfStream,
       StreamError, Log, UpstreamSends, UpstreamEnds, Disconnect
  <2>4. ASSUME NEW q \in Requests, q # r PROVE Progress(q)'
    <3>1. Progress(q) /\ UNCHANGED Row(q)
      BY <2>1, <2>4 DEF Types
    <3> QED  BY <3>1 DEF Progress, Row
  <2> QED  BY <2>1, <2>2, <2>3, <2>4 DEF Types
<1>2. ASSUME NEW s \in Services, Expire(s) \/ StoreKey(s) PROVE Types'
  <2>1. UNCHANGED <<in, at, service, asked, upstream, relay, reply, audit, gone>>
    BY <1>2 DEF Expire, StoreKey
  <2>2. used' \in [Services -> Nat] /\ stored' \subseteq Translators
    BY <1>2 DEF Expire, StoreKey, Types
  <2> QED  BY <2>1, <2>2 DEF Types, Rows, Progress, upstream, relay
<1>3. CASE UNCHANGED vars
  BY <1>3 DEF Types, Rows, Progress, vars, upstream, relay
<1> QED  BY <1>1, <1>2, <1>3 DEF Next, Step

\* Whatever is asked, and whatever upstream answers: the types, no translator is ahead
\* of its upstream, and only statuses some client was sent are logged.
THEOREM TypeCorrect == Spec => []TypeOK
<1>1. Types => TypeOK
  <2> SUFFICES ASSUME Types PROVE TypeOK
    OBVIOUS
  <2>1. /\ at \in [Requests -> Labels] /\ gone \in [Requests -> BOOLEAN]
        /\ ended \in [Requests -> {"open", "EOF", "error"}]
        /\ reply \in [Requests -> {0, 200, 400, 401, 405, 429, 500, 502}]
    BY DEF Types, Progress, Rows
  <2>2. \A r \in Requests :
          /\ in[r] \in Inputs /\ service[r] \in in[r].routes \cup {NoService}
          /\ read[r] <= sent[r] /\ sent[r] <= Len(script[r])
          /\ audit[r] \in {<< >>} \cup {<<code>> : code \in {200, 400, 429, 502}}
    BY DEF Types, Progress
  <2>3. used \in [Services -> Nat] /\ stored \in SUBSET Services
    BY TranslatorsAssumption DEF Types
  <2> QED  BY <2>1, <2>2, <2>3 DEF TypeOK, Labels
<1>2. Init => Types
  BY InitTypes
<1>3. Types /\ [Next]_vars => Types'
  BY StepTypes
<1> QED  BY <1>1, <1>2, <1>3, PTL DEF Spec

(**************************** the streams **********************************)
\* What the events that have been read say.
Said(r) == Relayed(service[r], answer[r].id, SubSeq(script[r], 1, read[r]))

\* The client has been written what the events that were read say, and after the last
\* one [DONE].
Streaming(r) ==
  IF script[r] = << >>
  THEN /\ at[r] # "relay" /\ NoDone(out[r])
       /\ at[r] \in {"idle", "check", "limit", "prepare", "send", "decode"} => out[r] = << >>
       /\ at[r] = "decode" => service[r] \in Translators /\ answer[r] \in Answers[service[r]]
  ELSE /\ service[r] \in Translators /\ answer[r] \in Answers[service[r]]
       /\ "reported" \notin Faults => script[r] \in Streams(service[r], answer[r])
       /\ answer[r].id \in STRING /\ Streamed(service[r], answer[r].id, script[r])
       /\ at[r] \in {"relay", "logOK", "done"}
       /\ service[r] = "anthropic" /\ read[r] > 0 => id[r] = answer[r].id
       /\ \/ out[r] = Said(r)
          \/ at[r] # "relay" /\ read[r] = Len(script[r]) /\ out[r] = Append(Said(r), DONE)
       /\ at[r] = "relay" \/ out[r] # Said(r) => NoDone(Said(r))

Relaying == \A r \in Requests : Streaming(r)

LEMMA InitRelaying == Init => Relaying
<1> SUFFICES ASSUME Init PROVE Relaying
  OBVIOUS
<1>1. \A k : k \notin DOMAIN << >>
  OBVIOUS
<1> QED  BY <1>1 DEF Init, Relaying, Streaming, NoDone

\* What handleNonStream writes is not taken for [DONE].
LEMMA WholeIsNoDone ==
  ASSUME NEW s \in Translators, NEW a \in Answers[s]
  PROVE  NoDone(<<Whole(s, a)>>)
<1>1. Whole(s, a) # DONE
  <2>1. CASE s = "anthropic"
    <3>1. "id" \in DOMAIN Whole(s, a) /\ "id" \notin DOMAIN DONE
      BY <2>1 DEF Whole, TranslateResponse, DONE
    <3> QED  BY <3>1
  <2>2. CASE s # "anthropic"
    <3>1. Whole(s, a) \in [id : STRING, finish : STRING \ {Nil}, content : Seq(STRING)]
      BY <2>2, AnswersAssumption DEF Whole
    <3>2. "id" \in DOMAIN Whole(s, a) /\ "id" \notin DOMAIN DONE
      BY <3>1 DEF DONE
    <3> QED  BY <3>2
  <2> QED  BY <2>1, <2>2
<1> QED  BY <1>1 DEF NoDone

\* The stream begins.
LEMMA SendStreams ==
  ASSUME Types, NEW r \in Requests, Streaming(r), Rows', Send(r)
  PROVE  Streaming(r)'
<1> USE DEF Goto, Answer, Rows
<1>0. Progress(r) /\ Rows
  BY DEF Types
<1>1. /\ at[r] = "send" /\ script[r] = << >> /\ out[r] = << >> /\ service[r] \in Translators
      /\ UNCHANGED <<service, read, id, out>>
  BY <1>0 DEF Send, Progress, Streaming, relay
<1>2. read[r] = 0
  <2>1. Len(<< >>) = 0
    OBVIOUS
  <2> QED  BY <1>0, <1>1, <2>1 DEF Progress
<1>3. NoDone(<< >>)
  BY DEF NoDone
<1>4. CASE script'[r] = << >> /\ at'[r] \in {"log502", "logError"}
  BY <1>1, <1>3, <1>4 DEF Streaming
<1>5. CASE script'[r] = << >> /\ at'[r] = "decode" /\ answer'[r] \in Answers[service[r]]
  BY <1>1, <1>3, <1>5 DEF Streaming
<1>6. ASSUME NEW a \in Answers[service[r]], NEW y \in Streams(service[r], a), NEW x \in Failing(y),
             answer'[r] = a, script'[r] = x, at'[r] = "relay"
      PROVE  Streaming(r)'
  <2>1. a.id \in STRING /\ Streamed(service[r], a.id, x)
    BY <1>1, StreamsAreStreamed
  <2>2. x # << >> /\ ("reported" \notin Faults => x = y)
    BY <2>1 DEF Streamed, Failing
  <2>3. Said(r)' = << >>
    <3>1. SubSeq(x, 1, 0) = << >>
      BY <2>1 DEF Streamed
    <3> QED  BY <1>1, <1>2, <1>6, <3>1, RelayedNone DEF Said
  <2> QED  BY <1>1, <1>2, <1>3, <1>6, <2>1, <2>2, <2>3 DEF Streaming
<1>7. \/ script'[r] = << >> /\ at'[r] \in {"log502", "logError"}
      \/ script'[r] = << >> /\ at'[r] = "decode" /\ answer'[r] \in Answers[service[r]]
      \/ \E a \in Answers[service[r]] : \E y \in Streams(service[r], a) : \E x \in Failing(y) :
           answer'[r] = a /\ script'[r] = x /\ at'[r] = "relay"
  BY <1>0, <1>1 DEF Send
<1> QED  BY <1>4, <1>5, <1>6, <1>7

\* The loop of handleStream.
LEMMA EventStreams ==
  ASSUME Types, NEW r \in Requests, Streaming(r), Rows', Event(r)
  PROVE  Streaming(r)'
<1> DEFINE s == service[r]
           i == answer[r].id
           x == script[r]
           n == read[r] + 1
           chunks == Yields(s, id[r], x[n])
<1>0. Progress(r) /\ Rows
  BY DEF Types
<1>1. at[r] = "relay" /\ UNCHANGED <<service, answer, script>> /\ x # << >>
  BY DEF Event, Streaming, upstream
<1>2. i \in STRING /\ Streamed(s, i, x) /\ (s = "anthropic" /\ n # 1 => id[r] = i)
      /\ out[r] = Said(r)
  BY <1>0, <1>1 DEF Streaming, Progress
<1>3. n \in 1..Len(x) /\ n - 1 = read[r]
  BY <1>0 DEF Event, Progress
<1>4. read'[r] = n /\ out'[r] = out[r] \o chunks
      /\ at'[r] = (IF chunks = <<DONE>> THEN "logOK" ELSE "relay")
      /\ (s = "anthropic" => id'[r] = IdAfter(id[r], x[n]))
  BY <1>0 DEF Event, StopsAtDone, Goto, Rows
<1>5. Knows(s, i, n, id[r])
  BY <1>2 DEF Knows
<1>6. chunks = Yields(s, i, x[n])
  <2> HIDE DEF s, i, x, n
  <2> DEFINE j == id[r]
  <2>1. i \in STRING /\ Streamed(s, i, x) /\ n \in 1..Len(x) /\ Knows(s, i, n, j)
    BY <1>2, <1>3, <1>5
  <2> HIDE DEF j
  <2>2. Yields(s, j, x[n]) = Yields(s, i, x[n])
    BY <2>1, YieldsSame
  <2> QED  BY <2>2 DEF j
<1>7. s = "anthropic" => id'[r] = i
  <2>1. s = "anthropic" => IdAfter(id[r], x[n]) = i
    <3> HIDE DEF s, i, x, n
    <3> QED  BY <1>2, <1>3, <1>5, IdFound, Zenon
  <2> QED  BY <1>4, <2>1
<1>8. Said(r)' = Relayed(s, i, SubSeq(x, 1, n)) /\ Said(r) = Relayed(s, i, SubSeq(x, 1, n - 1))
  BY <1>1, <1>3, <1>4 DEF Said
<1>9. out'[r] = Said(r)'
  <2>1. Relayed(s, i, SubSeq(x, 1, n)) = Relayed(s, i, SubSeq(x, 1, n - 1)) \o chunks
    <3> HIDE DEF s, i, x, n, chunks
    <3> QED  BY <1>2, <1>3, <1>6, ReadOne, Zenon
  <2> QED  BY <1>2, <1>4, <1>8, <2>1, Zenon
<1>10. at'[r] = "relay" => NoDone(Said(r)')
  BY <1>2, <1>3, <1>4, <1>6, <1>8, StillOpen
<1> HIDE DEF chunks
<1> QED  BY <1>1, <1>2, <1>4, <1>7, <1>9, <1>10 DEF Streaming

\* The other steps of r.
LEMMA OtherStreams ==
  ASSUME Types, NEW r \in Requests, Streaming(r), Rows', Step(r), ~Send(r), ~Event(r)
  PROVE  Streaming(r)'
<1> USE DEF Goto, Answer, Rows, upstream, relay
<1>0. Progress(r) /\ Rows
  BY DEF Types
<1>1. CASE Decode(r)
  <2>1. /\ at[r] = "decode" /\ at'[r] = "logOK" /\ UNCHANGED script
        /\ out'[r] \in {out[r], <<Whole(service[r], answer[r])>>}
    BY <1>0, <1>1 DEF Decode
  <2>2. script[r] = << >> /\ NoDone(out[r]) /\ NoDone(<<Whole(service[r], answer[r])>>)
    BY <2>1, WholeIsNoDone DEF Streaming
  <2> QED  BY <2>1, <2>2 DEF Streaming
<1>2. CASE EndOfStream(r)
  <2>1. /\ at[r] = "relay" /\ read[r] = Len(script[r]) /\ at'[r] = "logOK"
        /\ UNCHANGED <<service, answer, script, read, id>> /\ out'[r] = Append(out[r], DONE)
    BY <1>0, <1>2 DEF EndOfStream, Progress
  <2>2. script[r] # << >> /\ out[r] = Said(r) /\ NoDone(Said(r)) /\ Said(r)' = Said(r)
    BY <2>1 DEF Streaming, Said
  <2> QED  BY <2>1, <2>2 DEF Streaming
<1>3. CASE Log(r) \/ StreamError(r)
  <2>1. /\ UNCHANGED <<service, answer, script, read, id, out>>
        /\ at[r] \in {"log429", "log502", "logError", "logOK", "relay"} /\ at'[r] \in {"logOK", "done"}
    BY <1>0, <1>3 DEF Log, StreamError
  <2>2. Said(r)' = Said(r)
    BY <2>1 DEF Said
  <2> QED  BY <2>1, <2>2 DEF Streaming
<1>4. CASE UpstreamSends(r) \/ UpstreamEnds(r) \/ Disconnect(r)
  <2>1. UNCHANGED <<at, service, answer, script, read, id, out>>
    BY <1>4 DEF UpstreamSends, UpstreamEnds, Disconnect
  <2>2. Said(r)' = Said(r)
    BY <2>1 DEF Said
  <2> QED  BY <2>1, <2>2 DEF Streaming
<1>5. CASE Arrive(r) \/ Check(r) \/ Allow(r) \/ Prepare(r)
  <2>1. /\ UNCHANGED <<script, out>> /\ at[r] \in {"idle", "check", "limit", "prepare"}
        /\ at'[r] \in Labels \ {"relay", "decode"}
    BY <1>0, <1>5 DEF Arrive, Check, Allow, Prepare, Labels
  <2>2. script[r] = << >>
    BY <1>0, <2>1 DEF Progress
  <2> QED  BY <2>1, <2>2 DEF Streaming
<1> QED  BY <1>1, <1>2, <1>3, <1>4, <1>5 DEF Step, ServeHTTP

LEMMA StepRelaying == Types /\ Relaying /\ [Next]_vars => Relaying'
<1> SUFFICES ASSUME Types, Relaying, [Next]_vars PROVE Relaying'
  OBVIOUS
<1>1. ASSUME NEW r \in Requests, Step(r) PROVE Relaying'
  <2>1. Rows' /\ \A q \in Requests \ {r} : UNCHANGED Row(q)
    BY <1>1, OneRow DEF Types
  <2>2. Streaming(r)'
    <3>1. Streaming(r)
      BY DEF Relaying
    <3> QED  BY <1>1, <2>1, <3>1, SendStreams, EventStreams, OtherStreams
  <2>3. ASSUME NEW q \in Requests, q # r PROVE Streaming(q)'
    <3>1. Streaming(q) /\ UNCHANGED Row(q)
      BY <2>1, <2>3 DEF Relaying
    <3> QED  BY <3>1 DEF Streaming, Said, Row
  <2> QED  BY <2>2, <2>3 DEF Relaying
<1>2. ASSUME UNCHANGED <<at, service, answer, script, read, id, out>> PROVE Relaying'
  BY <1>2 DEF Relaying, Streaming, Said
<1>3. ASSUME NEW s \in Services, Expire(s) \/ StoreKey(s)
      PROVE  UNCHANGED <<at, service, answer, script, read, id, out>>
  BY <1>3 DEF Expire, StoreKey, upstream, relay
<1> QED  BY <1>1, <1>2, <1>3 DEF Next, Step, vars, upstream, relay

\* A stream that has been read to its end says Translation, with or without the [DONE]
\* of its own.
LEMMA AllRead ==
  ASSUME NEW r \in Requests, script[r] # << >>, Streaming(r), Progress(r)
  PROVE  /\ out[r] # Said(r) => out[r] = Translation(r)
         /\ out[r] = Said(r) /\ ~NoDone(out[r]) => out[r] = Translation(r)
<1> DEFINE s == service[r]
           i == answer[r].id
           x == script[r]
           all == Relayed(s, i, x)
           W == Written(i)
<1>1. i \in STRING /\ Streamed(s, i, x) /\ x \in Seq(Events(s, i))
  BY DEF Streaming, Streamed
<1>2. read[r] = Len(x) => Said(r) = all
  <2>1. SubSeq(x, 1, Len(x)) = x
    BY <1>1
  <2> QED  BY <2>1 DEF Said
<1>3. all \in Seq(W)
  BY <1>1, YieldsAre, RelayedType
<1>4. NoDone(all) => Translation(r) = Append(all, DONE)
  <2> SUFFICES ASSUME NoDone(all) PROVE Translation(r) = Append(all, DONE)
    OBVIOUS
  <2>1. all # << >> => Last(all) # DONE
    <3> HIDE DEF all, W
    <3>1. all # << >> => Len(all) \in DOMAIN all
      BY <1>3
    <3> QED  BY <3>1 DEF NoDone, Last
  <2> QED  BY <2>1 DEF Translation
<1>5. ~NoDone(all) => Translation(r) = all
  <2>1. ~NoDone(all) => all # << >> /\ Last(all) = DONE
    BY <1>1, DoneComesLast, NoDoneHere
  <2> QED  BY <2>1 DEF Translation
<1>6. ASSUME out[r] # Said(r) PROVE out[r] = Translation(r)
  BY <1>2, <1>4, <1>6 DEF Streaming
<1>7. ASSUME out[r] = Said(r), ~NoDone(out[r]) PROVE out[r] = Translation(r)
  <2>1. read[r] \in 0..Len(x)
    BY DEF Progress
  <2>2. read[r] # Len(x) => NoDone(Said(r))
    <3> SUFFICES ASSUME read[r] # Len(x) PROVE NoDone(Said(r))
      OBVIOUS
    <3>1. read[r] \in 0..(Len(x) - 1)
      BY <1>1, <2>1
    <3>2. Said(r) \in Seq(W \ {DONE})
      BY <1>1, <3>1, NotYetDone DEF Said
    <3> QED  BY <3>2, NoDoneHere
  <2> QED  BY <1>2, <1>5, <1>7, <2>2
<1> QED  BY <1>6, <1>7

\* What the client has read is at all times a beginning of what upstream says.
THEOREM StreamsAreFaithful == Spec => []StreamIsPrefix
<1>1. Types /\ Relaying => StreamIsPrefix
  <2> SUFFICES ASSUME Types, Relaying, NEW r \in Requests, script[r] # << >>
               PROVE  IsPrefix(out[r], Translation(r))
    BY DEF StreamIsPrefix
  <2> DEFINE s == service[r]
             i == answer[r].id
             x == script[r]
             all == Relayed(s, i, x)
             W == Written(i)
  <2>1. Progress(r) /\ Streaming(r)
    BY DEF Types, Relaying
  <2>2. i \in STRING /\ x \in Seq(Events(s, i)) /\ read[r] \in 0..Len(x)
    BY <2>1 DEF Streaming, Streamed, Progress
  <2>3. Relays(s, i, Events(s, i), W) /\ all \in Seq(W)
    BY <2>2, YieldsAre, RelayedType
  <2>4. CASE out[r] = Said(r)
    <3>1. <<DONE>> \in Seq(W) /\ << >> \in Seq(W)
      BY DEF Written
    <3>2. IsPrefix(Said(r), all \o <<DONE>>) /\ IsPrefix(Said(r), all \o << >>)
      BY <2>2, <2>3, <3>1, RelayedPrefix DEF Said
    <3>3. Translation(r) \in {all \o <<DONE>>, all \o << >>}
      <4>1. all \o << >> = all /\ Append(all, DONE) = all \o <<DONE>>
        <5>1. DONE \in W
          BY DEF Written
        <5> HIDE DEF all, W
        <5> QED  BY <2>3, <5>1
      <4>2. Translation(r) = all \/ Translation(r) = Append(all, DONE)
        BY DEF Translation
      <4> QED  BY <4>1, <4>2, Zenon
    <3> QED  BY <2>4, <3>2, <3>3, Zenon
  <2>5. CASE out[r] # Said(r)
    <3>1. out[r] = Translation(r)
      BY <2>1, <2>5, AllRead
    <3>2. out[r] = Append(Said(r), DONE) /\ read[r] = Len(x)
      BY <2>1, <2>5 DEF Streaming
    <3>3. Said(r) \in Seq(W)
      <4>1. SubSeq(x, 1, Len(x)) = x
        BY <2>2
      <4> QED  BY <2>3, <3>2, <4>1 DEF Said
    <3>4. out[r] \in Seq(W)
      <4>1. DONE \in W
        BY DEF Written
      <4> HIDE DEF W
      <4> QED  BY <3>2, <3>3, <4>1
    <3>5. IsPrefix(out[r], (out[r] \o << >>) \o << >>) /\ (out[r] \o << >>) \o << >> = out[r]
      <4> HIDE DEF W
      <4>1. << >> \in Seq(W)
        OBVIOUS
      <4>2. IsPrefix(out[r], (out[r] \o << >>) \o << >>)
        BY <3>4, <4>1, Beginning
      <4> QED  BY <3>4, <4>2
    <3> QED  BY <3>1, <3>5, Zenon
  <2> QED  BY <2>4, <2>5
<1>2. Init => Types /\ Relaying
  BY InitTypes, InitRelaying
<1>3. Types /\ Relaying /\ [Next]_vars => (Types /\ Relaying)'
  BY StepTypes, StepRelaying
<1> QED  BY <1>1, <1>2, <1>3, PTL DEF Spec

\* A client that reads [DONE] has read all that upstream had to say, provided that
\* upstreams do not report failures in the middle of a stream.
THEOREM DoneIsTheEnd ==
  ASSUME "reported" \notin Faults
  PROVE  Spec => []DoneMeansComplete
<1>1. Types /\ Relaying => DoneMeansComplete
  <2> SUFFICES ASSUME Types, Relaying, NEW r \in Requests, ~NoDone(out[r])
               PROVE  /\ out[r] = Translation(r)
                      /\ \A i \in DOMAIN script[r] : script[r][i].type # "error"
    BY DEF DoneMeansComplete, NoDone
  <2>1. Progress(r) /\ Streaming(r)
    BY DEF Types, Relaying
  <2>2. script[r] # << >>
    BY <2>1 DEF Streaming
  <2>3. out[r] = Translation(r)
    BY <2>1, <2>2, AllRead
  <2>4. \A i \in DOMAIN script[r] : script[r][i].type # "error"
    <3>1. Streamed(service[r], answer[r].id, script[r])
      BY <2>1, <2>2 DEF Streaming
    <3>2. DOMAIN script[r] = 1..Len(script[r])
      BY <3>1 DEF Streamed
    <3> QED  BY <3>1, <3>2 DEF Streamed
  <2> QED  BY <2>3, <2>4
<1>2. Init => Types /\ Relaying
  BY InitTypes, InitRelaying
<1>3. Types /\ Relaying /\ [Next]_vars => (Types /\ Relaying)'
  BY StepTypes, StepRelaying
<1> QED  BY <1>1, <1>2, <1>3, PTL DEF Spec

\* Streaming or not makes no difference to what a client learns of a complete answer.
THEOREM StreamsTellTheAnswer ==
  ASSUME "reported" \notin Faults
  PROVE  Spec => []StreamAgreesWithWhole
<1>1. Types /\ Relaying => StreamAgreesWithWhole
  <2> SUFFICES ASSUME Types, Relaying, NEW r \in Requests, script[r] # << >>, Len(out[r]) > 1,
                      out[r][Len(out[r])] = DONE
               PROVE  LET c == SubSeq(out[r], 1, Len(out[r]) - 1)
                          whole == Whole(service[r], answer[r])
                      IN /\ \A e \in ToSet(c) : e.id = whole.id
                         /\ FlattenSeq([k \in DOMAIN c |-> c[k].content]) = whole.content
                         /\ \E k \in DOMAIN c :
                              /\ c[k].finish = whole.finish
                              /\ \A j \in DOMAIN c : j > k => c[j].finish = Nil
    BY DEF StreamAgreesWithWhole
  <2> DEFINE s == service[r]
             a == answer[r]
             i == a.id
             w == Whole(s, a)
             c == Relayed(s, i, Body(s, a))
             V == Chunks(i)
  <2>1. Progress(r) /\ Streaming(r) /\ s \in Translators /\ a \in Answers[s]
        /\ script[r] \in Streams(s, a)
    BY DEF Types, Relaying, Streaming
  <2>2. Agrees(i, c, w)
    BY <2>1, BodyAgrees
  <2>3. /\ c \in Seq(V) /\ Len(c) \in DOMAIN c /\ c[Len(c)].finish = w.finish
        /\ FlattenSeq([k \in DOMAIN c |-> c[k].content]) = w.content
    <3> HIDE DEF c, w, i
    <3> QED  BY <2>2, AgreesMeans
  <2>4. Translation(r) = Append(c, DONE)
    BY <2>1, RelayedWhole DEF Translation
  <2>5. out[r] = Translation(r)
    <3>1. CASE out[r] # Said(r)
      BY <2>1, <3>1, AllRead
    <3>2. CASE out[r] = Said(r)
      <4>1. Said(r) \in Seq(Written(i))
        <5>1. read[r] \in 0..Len(script[r]) /\ i \in STRING /\ script[r] \in Seq(Events(s, i))
          BY <2>1 DEF Progress, Streaming, Streamed
        <5>2. SubSeq(script[r], 1, read[r]) \in Seq(Events(s, i))
          BY <5>1, Cut
        <5> QED  BY <5>1, <5>2, YieldsAre, RelayedType DEF Said
      <4>2. Len(out[r]) \in DOMAIN out[r]
        BY <3>2, <4>1
      <4>3. ~NoDone(out[r])
        BY <4>2 DEF NoDone
      <4> QED  BY <2>1, <3>2, <4>3, AllRead
    <3> QED  BY <3>1, <3>2
  <2>6. w.id = i
    BY DEF Whole, TranslateResponse
  <2>7. \A e \in V : e.id = i
    BY DEF Chunks
  <2> HIDE DEF c, V, i, w
  <2>8. SubSeq(out[r], 1, Len(out[r]) - 1) = c
    BY <2>3, <2>4, <2>5
  <2>9. \A e \in ToSet(c) : e.id = w.id
    BY <2>3, <2>6, <2>7 DEF ToSet
  <2>10. \E k \in DOMAIN c :
           c[k].finish = w.finish /\ \A j \in DOMAIN c : j > k => c[j].finish = Nil
    <3>1. \A j \in DOMAIN c : ~(j > Len(c))
      BY <2>3
    <3> QED  BY <2>3, <3>1
  <2> QED  BY <2>3, <2>8, <2>9, <2>10 DEF w
<1>2. Init => Types /\ Relaying
  BY InitTypes, InitRelaying
<1>3. Types /\ Relaying /\ [Next]_vars => (Types /\ Relaying)'
  BY StepTypes, StepRelaying
<1> QED  BY <1>1, <1>2, <1>3, PTL DEF Spec

(************************** the conversation *******************************)
\* The messages are sent upstream once, and translated.
Put(r) ==
  /\ at[r] \in {"idle", "check", "limit", "prepare", "send"} => asked[r] = NoQuestion
  /\ asked[r] # NoQuestion => asked[r] = Question(service[r], in[r].messages)

Asked == \A r \in Requests : Put(r)

LEMMA StepAsked == Rows /\ Asked /\ [Next]_vars => Asked'
<1> SUFFICES ASSUME Rows, Asked, [Next]_vars PROVE Asked'
  OBVIOUS
<1>1. ASSUME NEW r \in Requests, Step(r) PROVE Asked'
  <2>1. \A q \in Requests \ {r} : UNCHANGED Row(q)
    BY <1>1, OneRow
  <2>2. Put(r)
    BY DEF Asked
  <2>3. Put(r)'
    <3> USE DEF Goto, Answer
    <3>1. CASE Send(r)
      BY <2>2, <3>1 DEF Send, Put, Rows
    <3>2. CASE Arrive(r) \/ Check(r)
      <4>1. at[r] \in {"idle", "check"} /\ UNCHANGED asked
        BY <3>2 DEF Arrive, Check
      <4> QED  BY <2>2, <4>1 DEF Put
    <3>3. CASE ~(Send(r) \/ Arrive(r) \/ Check(r))
      <4>1. UNCHANGED <<in, service, asked>>
        BY <1>1, <3>3 DEF Step, ServeHTTP, Allow, Prepare, Decode, Event, EndOfStream, StreamError,
           Log, UpstreamSends, UpstreamEnds, Disconnect
      <4>2. at'[r] \in {"idle", "check", "limit", "prepare", "send"}
              => at[r] \in {"idle", "check", "limit", "prepare", "send"}
        BY <1>1, <3>3 DEF Step, ServeHTTP, Allow, Prepare, Decode, Event, EndOfStream, StreamError,
           Log, UpstreamSends, UpstreamEnds, Disconnect, StopsAtDone, Rows
      <4> QED  BY <2>2, <4>1, <4>2 DEF Put
    <3> QED  BY <3>1, <3>2, <3>3
  <2>4. ASSUME NEW q \in Requests, q # r PROVE Put(q)'
    <3>1. Put(q) /\ UNCHANGED Row(q)
      BY <2>1, <2>4 DEF Asked
    <3> QED  BY <3>1 DEF Put, Row
  <2> QED  BY <2>3, <2>4 DEF Asked
<1>2. ASSUME UNCHANGED <<in, at, service, asked>> PROVE Asked'
  BY <1>2 DEF Asked, Put
<1>3. ASSUME NEW s \in Services, Expire(s) \/ StoreKey(s) PROVE UNCHANGED <<in, at, service, asked>>
  BY <1>3 DEF Expire, StoreKey
<1> QED  BY <1>1, <1>2, <1>3 DEF Next, Step, vars

\* No client sends more than one system message, nor an empty one.
PlainConversations == \A i \in Inputs : OneSystem(i.messages)

\* Nothing that a client says is lost or put out of its place on the way upstream.
THEOREM NothingIsLost ==
  ASSUME PlainConversations
  PROVE  Spec => []ConversationIsKept
<1>1. Types /\ Asked => ConversationIsKept
  <2> SUFFICES ASSUME Types, Asked, NEW r \in Requests, asked[r] # NoQuestion
               PROVE  Tells(in[r].messages, asked[r])
    BY Zenon DEF ConversationIsKept, Tells
  <2>1. in[r] \in Inputs /\ asked[r] = Question(service[r], in[r].messages)
    BY DEF Types, Progress, Asked, Put
  <2>2. in[r].messages \in Seq(Message) /\ OneSystem(in[r].messages)
    <3>1. \A i \in Inputs : i.messages \in Seq(Message)
      BY InputsAssumption DEF Message
    <3> QED  BY <2>1, <3>1 DEF PlainConversations
  <2> QED  BY <2>1, <2>2, QuestionTells
<1>2. Init => Types /\ Asked
  <2>1. Init => Asked
    BY DEF Init, Asked, Put
  <2> QED  BY <2>1, InitTypes
<1>3. Types /\ Asked /\ [Next]_vars => (Types /\ Asked)'
  BY StepTypes, StepAsked DEF Types
<1> QED  BY <1>1, <1>2, <1>3, PTL DEF Spec
=============================================================================
