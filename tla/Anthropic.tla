------------------------------ MODULE Anthropic ------------------------------
(***************************************************************************)
(* internal/gateway/anthropic.go and stream_anthropic.go: what the gateway *)
(* makes of OpenAI's requests for Anthropic, and of Anthropic's answers.   *)
(* A text is the sequence of the fragments it is streamed in; numbers and  *)
(* options a translation only hands on are left out.                       *)
(***************************************************************************)
EXTENDS Sequences, SequencesExt

Nil == "nil"      \* a field that is not there
DONE == [type |-> "DONE"]

TranslateUserTurns(messages) ==                                 \* mutant
  LET system == {i \in DOMAIN messages : messages[i].role = "system"}
  IN [system |-> IF system = {} THEN << >> ELSE messages[Max(system)].content,
      messages |-> FlattenSeq([i \in DOMAIN messages |->
                     IF messages[i].role = "user" THEN <<messages[i]>> ELSE << >>])]

\* The last system message becomes the one of Anthropic's request, and the others
\* of them are lost; the rest of the conversation stays as it is.
TranslateRequest(messages) ==
  LET system == {i \in DOMAIN messages : messages[i].role = "system"}
  IN [system |-> IF system = {} THEN << >> ELSE messages[Max(system)].content,
      messages |-> FlattenSeq([i \in DOMAIN messages |->
                     IF i \in system THEN << >> ELSE <<messages[i]>>])]

MapStopReason(reason) ==
  CASE reason \in {"end_turn", "stop_sequence"} -> "stop"
    [] reason = "max_tokens" -> "length"
    [] OTHER -> reason

\* A whole answer: the text of its text blocks.
TranslateResponse(ar) ==
  [id |-> ar.id,
   content |-> FlattenSeq([i \in DOMAIN ar.content |->
                 IF ar.content[i].type = "text" THEN ar.content[i].text ELSE << >>]),
   finish |-> MapStopReason(ar.stop_reason)]

(**************************** the stream ***********************************)
Chunk(id, content, finish) ==
  [type |-> "chunk", id |-> id, content |-> content, finish |-> finish]

\* s.id, which the translator carries from one Next to the following.
IdAfter(id, e) == IF e.type = "message_start" THEN e.id ELSE id

ChunkOfUnmapped(id, e) ==                                       \* mutant
  CASE e.type = "message_start" -> <<Chunk(IdAfter(id, e), << >>, Nil)>>
    [] e.type = "content_block_delta" /\ e.delta = "text_delta" -> <<Chunk(id, e.text, Nil)>>
    [] e.type = "message_delta" -> <<Chunk(id, << >>, e.stop_reason)>>
    [] e.type = "message_stop" -> <<DONE>>
    [] OTHER -> << >>

\* What Next returns for an event, if not only after a later one: pings, the ends
\* of a block, errors and what does not parse are skipped.
ChunkOf(id, e) ==
  CASE e.type = "message_start" -> <<Chunk(IdAfter(id, e), << >>, Nil)>>
    [] e.type = "content_block_delta" /\ e.delta = "text_delta" -> <<Chunk(id, e.text, Nil)>>
    [] e.type = "message_delta" -> <<Chunk(id, << >>, MapStopReason(e.stop_reason))>>
    [] e.type = "message_stop" -> <<DONE>>
    [] OTHER -> << >>

\* How the API streams an answer, and a block of its content.
Deltas(b) ==
  [i \in DOMAIN b.text |->
     [type |-> "content_block_delta", text |-> <<b.text[i]>>,
      delta |-> IF b.type = "text" THEN "text_delta" ELSE "input_json_delta"]]

EventsOf(ar) ==
  <<[type |-> "message_start", id |-> ar.id]>>
  \o FlattenSeq([i \in DOMAIN ar.content |-> Deltas(ar.content[i])])
  \o <<[type |-> "message_delta", stop_reason |-> ar.stop_reason],
       [type |-> "message_stop"]>>
=============================================================================
