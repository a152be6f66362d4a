-------------------------- MODULE TranslatorProofs --------------------------
(***************************************************************************)
(* What the translators make of conversations, of answers and of streams,  *)
(* however long they are: the lemmas that the theorems about the gateway   *)
(* rest on.                                                                *)
(***************************************************************************)
EXTENDS Gateway, Recursion

\* Events that stream an answer whose id is i, and what is written to the client.
Reasons   == STRING \cup {Nil, "stop", "length"}
Chunks(i) == [type : {"chunk"}, id : {i}, content : Seq(STRING), finish : Reasons]
Starts(i) == [type : {"message_start"}, id : {i}]
Fragments == [type : {"content_block_delta"}, text : Seq(STRING), delta : {"text_delta", "input_json_delta"}]
Stops     == [type : {"message_delta"}, stop_reason : STRING]
Speech(s, i) == IF s = "anthropic" THEN Starts(i) \cup Fragments \cup Stops ELSE Chunks(i)
Failure   == [type |-> "error"]
End(s)    == IF s = "anthropic" THEN [type |-> "message_stop"] ELSE DONE
Events(s, i) == Speech(s, i) \cup {Failure, End(s)}
Written(i)   == Chunks(i) \cup {Failure, DONE}

LEMMA ChunkType ==
  ASSUME NEW i \in STRING, NEW c \in Seq(STRING), NEW f \in Reasons
  PROVE  Chunk(i, c, f) \in Chunks(i)
BY DEF Chunk, Chunks

\* Only the end of a stream yields [DONE].
LEMMA YieldsWhat ==
  ASSUME NEW s, NEW i \in STRING, NEW e \in Events(s, i)
  PROVE  /\ e = End(s) => Yields(s, i, e) = <<DONE>>
         /\ e \in Speech(s, i) \cup {Failure} => Yields(s, i, e) \in Seq(Written(i) \ {DONE})
         /\ e \in Speech(s, i) /\ s # "anthropic" => Yields(s, i, e) = <<e>>
<1> USE DEF Yields, ChunkOf, IdAfter, DONE
<1>0. << >> \in Seq(STRING)
  OBVIOUS
<1>1. CASE s # "anthropic"
  <2>1. Chunks(i) \cup {Failure} \subseteq Written(i) \ {DONE}
    <3>1. Failure # DONE
      BY DEF Failure
    <3>2. \A c \in Chunks(i) : c.type = "chunk"
      BY DEF Chunks
    <3>3. DONE.type # "chunk"
      OBVIOUS
    <3> QED  BY <3>1, <3>2, <3>3 DEF Written
  <2>2. \A d \in Written(i) \ {DONE} : <<d>> \in Seq(Written(i) \ {DONE})
    OBVIOUS
  <2> QED  BY <1>1, <2>1, <2>2 DEF Speech, End
<1>2. CASE s = "anthropic"
  <2>0. ASSUME NEW c \in Chunks(i) PROVE <<c>> \in Seq(Written(i) \ {DONE})
    <3>1. c.type # DONE.type
      BY DEF Chunks
    <3>2. c \in Written(i) \ {DONE}
      BY <3>1 DEF Written
    <3> QED  BY <3>2
  <2>1. CASE e \in Starts(i)
    <3>1. Yields(s, i, e) = <<Chunk(i, << >>, Nil)>>
      BY <1>2, <2>1 DEF Starts
    <3>2. Chunk(i, << >>, Nil) \in Chunks(i)
      BY <1>0, ChunkType DEF Reasons
    <3>3. e # End(s)
      BY <1>2, <2>1 DEF End, Starts
    <3> QED  BY <1>2, <2>0, <3>1, <3>2, <3>3
  <2>2. CASE e \in Fragments
    <3>1. Yields(s, i, e) = <<Chunk(i, e.text, Nil)>> \/ Yields(s, i, e) = << >>
      BY <1>2, <2>2 DEF Fragments
    <3>2. Chunk(i, e.text, Nil) \in Chunks(i)
      <4>1. e.text \in Seq(STRING)
        BY <2>2 DEF Fragments
      <4> QED  BY <4>1, ChunkType DEF Reasons
    <3>3. e # End(s) /\ << >> \in Seq(Written(i) \ {DONE})
      BY <1>2, <2>2 DEF End, Fragments
    <3> QED  BY <1>2, <2>0, <3>1, <3>2, <3>3
  <2>3. CASE e \in Stops
    <3>1. Yields(s, i, e) = <<Chunk(i, << >>, MapStopReason(e.stop_reason))>>
      BY <1>2, <2>3 DEF Stops
    <3>2. Chunk(i, << >>, MapStopReason(e.stop_reason)) \in Chunks(i)
      <4>1. MapStopReason(e.stop_reason) \in Reasons
        BY <2>3 DEF Stops, MapStopReason, Reasons
      <4> QED  BY <1>0, <4>1, ChunkType
    <3>3. e # End(s)
      BY <1>2, <2>3 DEF End, Stops
    <3> QED  BY <1>2, <2>0, <3>1, <3>2, <3>3
  <2>4. CASE e \in {Failure, End(s)}
    <3>1. Yields(s, i, Failure) = << >> /\ Yields(s, i, End(s)) = <<DONE>> /\ Failure # End(s)
      BY <1>2 DEF Failure, End
    <3>2. \A c \in Speech(s, i) : c # End(s) /\ c # Failure
      BY <1>2 DEF Speech, Starts, Fragments, Stops, End, Failure
    <3> QED  BY <1>2, <2>4, <3>1, <3>2
  <2> QED  BY <1>2, <2>1, <2>2, <2>3, <2>4 DEF Events, Speech
<1> QED  BY <1>1, <1>2

\* The translator of s turns events of E into sequences of F.
Relays(s, i, E, F) == \A e \in E : Yields(s, i, e) \in Seq(F)

LEMMA RelayedIsMapped ==
  ASSUME NEW s, NEW i, NEW E, NEW x \in Seq(E)
  PROVE  Relayed(s, i, x) = Mapped([e \in E |-> Yields(s, i, e)], x)
<1> DEFINE h == [e \in E |-> Yields(s, i, e)]
<1>1. \A k \in DOMAIN x : h[x[k]] = Yields(s, i, x[k])
  <2>1. \A k \in DOMAIN x : x[k] \in E
    OBVIOUS
  <2> QED  BY <2>1
<1> HIDE DEF h
<1>2. [k \in DOMAIN x |-> h[x[k]]] = [k \in DOMAIN x |-> Yields(s, i, x[k])]
  BY <1>1
<1>3. Relayed(s, i, x) = Mapped(h, x)
  BY <1>2 DEF Relayed, Mapped
<1> QED  BY <1>3 DEF h

LEMMA RelayedType ==
  ASSUME NEW s, NEW i, NEW E, NEW F, Relays(s, i, E, F), NEW x \in Seq(E)
  PROVE  Relayed(s, i, x) \in Seq(F)
<1> DEFINE h == [e \in E |-> Yields(s, i, e)]
<1>1. h \in [E -> Seq(F)] /\ Relayed(s, i, x) = Mapped(h, x)
  BY RelayedIsMapped DEF Relays
<1> HIDE DEF h
<1> QED  BY <1>1, MappedType

LEMMA RelayedConcat ==
  ASSUME NEW s, NEW i, NEW E, NEW F, Relays(s, i, E, F),
         NEW x \in Seq(E), NEW y \in Seq(E)
  PROVE  Relayed(s, i, x \o y) = Relayed(s, i, x) \o Relayed(s, i, y)
<1> DEFINE h == [e \in E |-> Yields(s, i, e)]
<1>0. x \o y \in Seq(E)
  OBVIOUS
<1>1. /\ h \in [E -> Seq(F)]
      /\ Relayed(s, i, x) = Mapped(h, x) /\ Relayed(s, i, y) = Mapped(h, y)
      /\ Relayed(s, i, x \o y) = Mapped(h, x \o y)
  BY <1>0, RelayedIsMapped DEF Relays
<1> HIDE DEF h
<1>2. Mapped(h, x \o y) = Mapped(h, x) \o Mapped(h, y)
  BY <1>1, MappedConcat
<1> QED  BY <1>1, <1>2

LEMMA RelayedOne ==
  ASSUME NEW s, NEW i, NEW F, NEW e, Yields(s, i, e) \in Seq(F)
  PROVE  Relayed(s, i, <<e>>) = Yields(s, i, e)
<1> DEFINE E == {e}
           h == [d \in E |-> Yields(s, i, d)]
<1>1. <<e>> \in Seq(E) /\ e \in E /\ h[e] = Yields(s, i, e)
  OBVIOUS
<1>2. h \in [E -> Seq(F)]
  OBVIOUS
<1>3. Relayed(s, i, <<e>>) = Mapped(h, <<e>>)
  <2> HIDE DEF E
  <2> QED  BY <1>1, RelayedIsMapped
<1> HIDE DEF h, E
<1>4. Mapped(h, <<e>>) = h[e]
  BY <1>1, <1>2, MappedOne
<1> QED  BY <1>1, <1>3, <1>4

LEMMA RelayedNone == \A s, i : Relayed(s, i, << >>) = << >>
<1> SUFFICES ASSUME NEW s, NEW i PROVE Relayed(s, i, << >>) = << >>
  OBVIOUS
<1>1. [k \in DOMAIN << >> |-> Yields(s, i, << >>[k])] = << >>
  OBVIOUS
<1> QED  BY <1>1, Zenon DEF Relayed, FlattenSeq

\* What is written is typed, and holds no [DONE] before the end of the stream is read.
LEMMA YieldsAre ==
  ASSUME NEW s, NEW i \in STRING
  PROVE  Relays(s, i, Events(s, i), Written(i))
<1>1. Written(i) \ {DONE} \subseteq Written(i) /\ DONE \in Written(i)
  BY DEF Written
<1> HIDE DEF Written
<1>2. \A q \in Seq(Written(i) \ {DONE}) : q \in Seq(Written(i))
  BY <1>1, SeqMonotonic, Zenon
<1>3. <<DONE>> \in Seq(Written(i))
  <2> DEFINE F == Written(i)
  <2>1. DONE \in F
    BY <1>1
  <2> HIDE DEF F
  <2>2. <<DONE>> \in Seq(F)
    BY <2>1
  <2> QED  BY <2>2 DEF F
<1> QED  BY <1>2, <1>3, YieldsWhat DEF Events, Relays

LEMMA YieldsBeforeEnd ==
  ASSUME NEW s, NEW i \in STRING
  PROVE  Relays(s, i, Speech(s, i) \cup {Failure}, Written(i) \ {DONE})
BY YieldsWhat DEF Events, Relays

LEMMA Cut ==
  ASSUME NEW E, NEW x \in Seq(E), NEW n \in 0..Len(x)
  PROVE  /\ SubSeq(x, 1, n) \in Seq(E) /\ SubSeq(x, n + 1, Len(x)) \in Seq(E)
         /\ x = SubSeq(x, 1, n) \o SubSeq(x, n + 1, Len(x))
         /\ n # 0 => /\ x[n] \in E /\ <<x[n]>> \in Seq(E) /\ SubSeq(x, 1, n - 1) \in Seq(E)
                     /\ SubSeq(x, 1, n) = SubSeq(x, 1, n - 1) \o <<x[n]>>
<1> DEFINE u == SubSeq(x, 1, n)
           v == SubSeq(x, n + 1, Len(x))
<1>1. u \in Seq(E) /\ v \in Seq(E)
  OBVIOUS
<1>2. x = u \o v
  <2>1. SubSeq(x, 1, n) \o SubSeq(x, n + 1, Len(x)) = SubSeq(x, 1, Len(x))
    <3>1. 1 \in 1..(Len(x) + 1) /\ n \in (1 - 1)..Len(x) /\ Len(x) \in n..Len(x)
      OBVIOUS
    <3> QED  BY <3>1, ConcatAdjacentSubSeq, Zenon
  <2>2. SubSeq(x, 1, Len(x)) = x
    OBVIOUS
  <2> QED  BY <2>1, <2>2, Zenon
<1>3. ASSUME n # 0
      PROVE  /\ x[n] \in E /\ <<x[n]>> \in Seq(E) /\ SubSeq(x, 1, n - 1) \in Seq(E)
             /\ SubSeq(x, 1, n) = SubSeq(x, 1, n - 1) \o <<x[n]>>
  BY <1>3
<1> QED  BY <1>1, <1>2, <1>3

LEMMA Beginning ==
  ASSUME NEW E, NEW x \in Seq(E), NEW y \in Seq(E), NEW z \in Seq(E)
  PROVE  IsPrefix(x, (x \o y) \o z)
<1>1. (x \o y) \o z = x \o (y \o z) /\ y \o z \in Seq(E)
  OBVIOUS
<1>2. \A w \in Seq(E) : IsPrefix(x, x \o w)
  BY DEF IsPrefix
<1> QED  BY <1>1, <1>2

\* One event more.
LEMMA RelayedNext ==
  ASSUME NEW s, NEW i, NEW E, NEW F, Relays(s, i, E, F), NEW x \in Seq(E), NEW n \in 1..Len(x)
  PROVE  Relayed(s, i, SubSeq(x, 1, n))
           = Relayed(s, i, SubSeq(x, 1, n - 1)) \o Yields(s, i, x[n])
<1> DEFINE u == SubSeq(x, 1, n - 1)
           w == <<x[n]>>
<1>1. SubSeq(x, 1, n) = u \o w /\ u \in Seq(E) /\ w \in Seq(E) /\ x[n] \in E
  <2>1. n \in 0..Len(x) /\ n # 0
    OBVIOUS
  <2> QED  BY <2>1, Cut
<1>2. Relayed(s, i, w) = Yields(s, i, x[n])
  BY <1>1, RelayedOne DEF Relays
<1> HIDE DEF u, w
<1>3. Relayed(s, i, u \o w) = Relayed(s, i, u) \o Relayed(s, i, w)
  BY <1>1, RelayedConcat
<1> QED  BY <1>1, <1>2, <1>3 DEF u

\* What is written of the first events is the beginning of what is written of all.
LEMMA RelayedPrefix ==
  ASSUME NEW s, NEW i, NEW E, NEW F, Relays(s, i, E, F), NEW x \in Seq(E),
         NEW n \in 0..Len(x), NEW y \in Seq(F)
  PROVE  IsPrefix(Relayed(s, i, SubSeq(x, 1, n)), Relayed(s, i, x) \o y)
<1> DEFINE u == SubSeq(x, 1, n)
           v == SubSeq(x, n + 1, Len(x))
<1>1. u \in Seq(E) /\ v \in Seq(E) /\ x = u \o v
  BY Cut
<1> HIDE DEF u, v
<1>2. Relayed(s, i, u \o v) = Relayed(s, i, u) \o Relayed(s, i, v)
  BY <1>1, RelayedConcat
<1>3. Relayed(s, i, u) \in Seq(F) /\ Relayed(s, i, v) \in Seq(F)
  BY <1>1, RelayedType
<1>4. IsPrefix(Relayed(s, i, u), (Relayed(s, i, u) \o Relayed(s, i, v)) \o y)
  BY <1>3, Beginning
<1> QED  BY <1>1, <1>2, <1>4 DEF u

(**************************** the streams **********************************)
\* The events that stream an answer, up to the end.
Middle(a) == FlattenSeq([k \in DOMAIN a.content |-> Deltas(a.content[k])])
Pieces(a) == [k \in DOMAIN a.content |-> Chunk(a.id, <<a.content[k]>>, Nil)]
Body(s, a) ==
  IF s = "anthropic"
    THEN (<<[type |-> "message_start", id |-> a.id]>> \o Middle(a))
         \o <<[type |-> "message_delta", stop_reason |-> a.stop_reason]>>
    ELSE Pieces(a) \o <<Chunk(a.id, << >>, a.finish)>>

Block == [type : STRING, text : Seq(STRING)]

LEMMA DeltasType ==
  ASSUME NEW b \in Block
  PROVE  /\ Deltas(b) \in Seq(Fragments) /\ Len(Deltas(b)) = Len(b.text)
         /\ \A k \in 1..Len(b.text) :
              /\ Deltas(b)[k].text = <<b.text[k]>> /\ Deltas(b)[k].type = "content_block_delta"
              /\ Deltas(b)[k].delta = IF b.type = "text" THEN "text_delta" ELSE "input_json_delta"
<1>1. b.text \in Seq(STRING) /\ DOMAIN b.text = 1..Len(b.text) /\ Len(b.text) \in Nat
  BY DEF Block
<1>2. \A k \in 1..Len(b.text) : <<b.text[k]>> \in Seq(STRING)
  BY <1>1
<1>3. Deltas(b) \in [1..Len(b.text) -> Fragments]
  BY <1>1, <1>2 DEF Deltas, Fragments
<1> QED  BY <1>1, <1>3 DEF Deltas

LEMMA MiddleIsMapped ==
  ASSUME NEW a, a.content \in Seq(Block)
  PROVE  Middle(a) = Mapped([b \in Block |-> Deltas(b)], a.content)
<1> DEFINE h == [b \in Block |-> Deltas(b)]
<1>1. \A k \in DOMAIN a.content : h[a.content[k]] = Deltas(a.content[k])
  OBVIOUS
<1> HIDE DEF h
<1>2. [k \in DOMAIN a.content |-> h[a.content[k]]] = [k \in DOMAIN a.content |-> Deltas(a.content[k])]
  BY <1>1
<1>3. Middle(a) = Mapped(h, a.content)
  BY <1>2 DEF Middle, Mapped
<1> QED  BY <1>3 DEF h

LEMMA MiddleType ==
  ASSUME NEW a, a.content \in Seq(Block)
  PROVE  Middle(a) \in Seq(Fragments)
<1> DEFINE h == [b \in Block |-> Deltas(b)]
<1>1. h \in [Block -> Seq(Fragments)]
  BY DeltasType
<1>2. Middle(a) = Mapped(h, a.content)
  BY MiddleIsMapped
<1> HIDE DEF h
<1> QED  BY <1>1, <1>2, MappedType

\* An answer is streamed as its body; the end is not always there.
LEMMA BodyType ==
  ASSUME NEW s \in Translators, NEW a \in Answers[s]
  PROVE  /\ a.id \in STRING /\ Body(s, a) \in Seq(Speech(s, a.id)) /\ Body(s, a) # << >>
         /\ s = "anthropic" => Body(s, a)[1] \in Starts(a.id)
         /\ \A x \in Streams(s, a) : x = Body(s, a) \/ x = Append(Body(s, a), End(s))
<1> DEFINE E == Speech(s, a.id)
           start == [type |-> "message_start", id |-> a.id]
           stop == [type |-> "message_delta", stop_reason |-> a.stop_reason]
           last == Chunk(a.id, << >>, a.finish)
<1>1. CASE s = "anthropic"
  <2>1. a.id \in STRING /\ a.stop_reason \in STRING /\ a.content \in Seq(Block)
    BY <1>1, AnswersAssumption DEF Block
  <2>2. Middle(a) \in Seq(Fragments)
    BY <2>1, MiddleType
  <2>3. start \in Starts(a.id) /\ stop \in Stops
    BY <2>1 DEF Starts, Stops
  <2>4. start \in E /\ stop \in E /\ Fragments \subseteq E
    BY <1>1, <2>3 DEF Speech
  <2>5. EventsOf(a) = (<<start>> \o Middle(a)) \o <<stop, [type |-> "message_stop"]>>
    BY DEF EventsOf, Middle
  <2>6. Body(s, a) = (<<start>> \o Middle(a)) \o <<stop>>
    BY <1>1 DEF Body
  <2>7. Streams(s, a) = {EventsOf(a)} /\ End(s) = [type |-> "message_stop"]
    BY <1>1 DEF Streams, End
  <2> DEFINE m == Middle(a)
             end == [type |-> "message_stop"]
  <2> HIDE DEF m, E, start, stop, end
  <2>8. m \in Seq(E)
    BY <2>2, <2>4, SeqMonotonic, Zenon DEF m
  <2>9. /\ (<<start>> \o m) \o <<stop>> \in Seq(E) /\ (<<start>> \o m) \o <<stop>> # << >>
        /\ ((<<start>> \o m) \o <<stop>>)[1] = start
    BY <2>4, <2>8
  <2>10. (<<start>> \o m) \o <<stop, end>> = Append((<<start>> \o m) \o <<stop>>, end)
    BY <2>4, <2>8
  <2> QED  BY <1>1, <2>1, <2>3, <2>5, <2>6, <2>7, <2>9, <2>10 DEF m, E, end
<1>2. CASE s # "anthropic"
  <2>1. a.id \in STRING /\ a.finish \in STRING /\ a.content \in Seq(STRING)
    BY <1>2, AnswersAssumption
  <2>2. E = Chunks(a.id) /\ End(s) = DONE
    BY <1>2 DEF Speech, End
  <2>3. last \in Chunks(a.id)
    <3>1. << >> \in Seq(STRING)
      OBVIOUS
    <3> QED  BY <2>1, <3>1, ChunkType DEF Reasons
  <2>4. Pieces(a) \in Seq(Chunks(a.id))
    <3>1. \A k \in DOMAIN a.content : <<a.content[k]>> \in Seq(STRING)
      BY <2>1
    <3>2. \A k \in DOMAIN a.content : Chunk(a.id, <<a.content[k]>>, Nil) \in Chunks(a.id)
      BY <2>1, <3>1, ChunkType DEF Reasons
    <3>3. DOMAIN a.content = 1..Len(a.content) /\ Len(a.content) \in Nat
      BY <2>1
    <3>4. Pieces(a) \in [1..Len(a.content) -> Chunks(a.id)]
      BY <3>2, <3>3 DEF Pieces
    <3> QED  BY <3>3, <3>4
  <2>5. Body(s, a) = Pieces(a) \o <<last>>
    BY <1>2 DEF Body
  <2>6. Streams(s, a) = {Body(s, a), Append(Body(s, a), DONE)}
    BY <1>2 DEF Streams, Body, Pieces
  <2> DEFINE p == Pieces(a)
  <2> HIDE DEF p, E, last
  <2>7. p \o <<last>> \in Seq(E) /\ p \o <<last>> # << >>
    BY <2>2, <2>3, <2>4 DEF p
  <2> QED  BY <1>2, <2>1, <2>2, <2>5, <2>6, <2>7 DEF p, E
<1> QED  BY <1>1, <1>2

\* What upstream streams, if not all of it: the end comes last.
Streamed(s, i, x) ==
  /\ x \in Seq(Events(s, i)) /\ x # << >>
  /\ s = "anthropic" => x[1] \in Starts(i)
  /\ \A k \in 1..(Len(x) - 1) : x[k] \in Speech(s, i) \cup {Failure}
  /\ "reported" \notin Faults => \A k \in 1..Len(x) : x[k].type # "error"

LEMMA SpeechIsNoError ==
  ASSUME NEW s, NEW i, NEW e \in Speech(s, i) \cup {End(s)}
  PROVE  e.type # "error"
BY DEF Speech, End, DONE, Starts, Fragments, Stops, Chunks

LEMMA StreamsAreStreamed ==
  ASSUME NEW s \in Translators, NEW a \in Answers[s],
         NEW y \in Streams(s, a), NEW x \in Failing(y)
  PROVE  a.id \in STRING /\ Streamed(s, a.id, x)
<1> DEFINE S == Speech(s, a.id)
           E == Events(s, a.id)
           b == Body(s, a)
           end == End(s)
<1>1. /\ a.id \in STRING /\ b \in Seq(S) /\ b # << >>
      /\ s = "anthropic" => b[1] \in Starts(a.id)
      /\ y = b \/ y = Append(b, end)
  BY BodyType
<1>2. S \cup {Failure, end} = E /\ S \subseteq E /\ Failure \in E
  BY DEF Events
<1>3. \A e \in S \cup {end} : e.type # "error"
  BY SpeechIsNoError
<1>4. (x = <<y[1], Failure>> /\ "reported" \in Faults) \/ x = y
  BY DEF Failing, Failure
<1> HIDE DEF S, E, b, end
<1>5. /\ y \in Seq(E) /\ y # << >> /\ y[1] = b[1] /\ y[1] \in S
      /\ \A k \in 1..(Len(y) - 1) : y[k] \in S
      /\ \A k \in 1..Len(y) : y[k] \in S \cup {end}
  <2>1. CASE y = b
    <3>1. b \in Seq(E)
      BY <1>1, <1>2, SeqMonotonic, Zenon
    <3> QED  BY <1>1, <2>1, <3>1
  <2>2. CASE y = Append(b, end)
    <3>1. b \in Seq(E) /\ end \in E
      BY <1>1, <1>2, SeqMonotonic, Zenon
    <3> QED  BY <1>1, <2>2, <3>1
  <2> QED  BY <1>1, <2>1, <2>2
<1>6. CASE x = y
  BY <1>1, <1>3, <1>5, <1>6 DEF Streamed, S, E
<1>7. CASE x = <<y[1], Failure>> /\ "reported" \in Faults
  <2>1. x \in Seq(E) /\ x # << >> /\ x[1] = b[1] /\ x[1] \in S /\ Len(x) - 1 = 1
    BY <1>2, <1>5, <1>7
  <2> QED  BY <1>1, <1>7, <2>1 DEF Streamed, S, E
<1> QED  BY <1>4, <1>6, <1>7

\* Until the last event is read, [DONE] is not written; then, it is written last.
LEMMA NotYetDone ==
  ASSUME NEW s, NEW i \in STRING, NEW x, Streamed(s, i, x), NEW n \in 0..(Len(x) - 1)
  PROVE  Relayed(s, i, SubSeq(x, 1, n)) \in Seq(Written(i) \ {DONE})
<1> DEFINE S == Speech(s, i) \cup {Failure}
<1>1. x \in Seq(Events(s, i)) /\ \A k \in 1..(Len(x) - 1) : x[k] \in S
  BY DEF Streamed
<1>2. SubSeq(x, 1, n) \in Seq(S)
  <2> HIDE DEF S
  <2>1. 1 \in Int /\ n \in Int /\ \A k \in 1..n : x[k] \in S
    BY <1>1
  <2> QED  BY <2>1, SubSeqProperties
<1>3. Relays(s, i, S, Written(i) \ {DONE})
  BY YieldsBeforeEnd
<1> HIDE DEF S
<1> QED  BY <1>2, <1>3, RelayedType

LEMMA DoneComesLast ==
  ASSUME NEW s, NEW i \in STRING, NEW x, Streamed(s, i, x)
  PROVE  \/ Relayed(s, i, x) \in Seq(Written(i) \ {DONE})
         \/ Relayed(s, i, x) # << >> /\ Last(Relayed(s, i, x)) = DONE
<1> DEFINE E == Events(s, i)
           V == Written(i) \ {DONE}
           n == Len(x)
           w == Relayed(s, i, SubSeq(x, 1, n - 1))
<1>1. x \in Seq(E) /\ n \in 1..n /\ x[n] \in E /\ n - 1 \in 0..(n - 1)
  BY DEF Streamed
<1>2. w \in Seq(V)
  BY <1>1, NotYetDone
<1>3. Relayed(s, i, x) = w \o Yields(s, i, x[n])
  <2>1. SubSeq(x, 1, n) = x
    <3> HIDE DEF E
    <3> QED  BY <1>1
  <2>2. Relays(s, i, E, Written(i))
    BY YieldsAre
  <2>3. Relayed(s, i, SubSeq(x, 1, n)) = Relayed(s, i, SubSeq(x, 1, n - 1)) \o Yields(s, i, x[n])
    <3> HIDE DEF E
    <3> QED  BY <1>1, <2>2, RelayedNext
  <2> QED  BY <2>1, <2>3
<1>4. Yields(s, i, x[n]) = <<DONE>> \/ Yields(s, i, x[n]) \in Seq(V)
  BY <1>1, YieldsWhat DEF Events
<1>5. \A v \in Seq(V) : w \o v \in Seq(V)
  <2> HIDE DEF w, V
  <2> QED  BY <1>2
<1>6. w \o <<DONE>> # << >> /\ Last(w \o <<DONE>>) = DONE
  <2> HIDE DEF w, V
  <2> QED  BY <1>2 DEF Last
<1> HIDE DEF w
<1> QED  BY <1>3, <1>4, <1>5, <1>6

(************************** the conversation *******************************)
NoDone(q) == \A k \in DOMAIN q : q[k] # DONE

LEMMA NoDoneHere ==
  ASSUME NEW W, NEW q \in Seq(W \ {DONE})
  PROVE  NoDone(q)
BY DEF NoDone

LEMMA EventsHere ==
  ASSUME NEW s, NEW i, NEW x, Streamed(s, i, x), NEW n \in 1..Len(x)
  PROVE  x[n] \in Events(s, i) /\ n - 1 \in 0..(Len(x) - 1) /\ Len(x) \in Nat
BY DEF Streamed

\* The loop reads one event more,
LEMMA ReadOne ==
  ASSUME NEW s, NEW i \in STRING, NEW x, Streamed(s, i, x), NEW n \in 1..Len(x)
  PROVE  Relayed(s, i, SubSeq(x, 1, n))
           = Relayed(s, i, SubSeq(x, 1, n - 1)) \o Yields(s, i, x[n])
<1>1. x \in Seq(Events(s, i))
  BY DEF Streamed
<1>2. Relays(s, i, Events(s, i), Written(i))
  BY YieldsAre
<1> QED  BY <1>1, <1>2, RelayedNext

\* and goes on, unless it was the end.
LEMMA StillOpen ==
  ASSUME NEW s, NEW i \in STRING, NEW x, Streamed(s, i, x), NEW n \in 1..Len(x),
         Yields(s, i, x[n]) # <<DONE>>
  PROVE  NoDone(Relayed(s, i, SubSeq(x, 1, n)))
<1> DEFINE W == Written(i)
           u == Relayed(s, i, SubSeq(x, 1, n - 1))
           v == Yields(s, i, x[n])
<1>1. u \in Seq(W \ {DONE})
  BY EventsHere, NotYetDone
<1>2. v \in Seq(W \ {DONE})
  BY EventsHere, YieldsWhat DEF Events
<1>3. Relayed(s, i, SubSeq(x, 1, n)) = u \o v
  BY ReadOne
<1> HIDE DEF W, u, v
<1>4. u \o v \in Seq(W \ {DONE})
  BY <1>1, <1>2, ConcatProperties, Zenon
<1> QED  BY <1>3, <1>4, NoDoneHere, Zenon

\* The id j kept before the event of place n is that of the answer.
Knows(s, i, n, j) == s = "anthropic" /\ n # 1 => j = i

\* What an event says does not depend on the id kept so far, which is right after it.
LEMMA YieldsSame ==
  ASSUME NEW s, NEW i \in STRING, NEW x, Streamed(s, i, x), NEW n \in 1..Len(x), NEW j,
         Knows(s, i, n, j)
  PROVE  Yields(s, j, x[n]) = Yields(s, i, x[n])
<1>1. CASE s # "anthropic"
  BY <1>1 DEF Yields
<1>2. CASE s = "anthropic" /\ n = 1
  BY <1>2 DEF Yields, ChunkOf, IdAfter, Starts, Streamed
<1>3. CASE s = "anthropic" /\ n # 1
  BY <1>3 DEF Knows
<1> QED  BY <1>1, <1>2, <1>3

LEMMA IdFound ==
  ASSUME NEW s, NEW i \in STRING, NEW x, Streamed(s, i, x), NEW n \in 1..Len(x), NEW j,
         s = "anthropic", Knows(s, i, n, j)
  PROVE  IdAfter(j, x[n]) = i
<1>1. CASE n = 1
  BY <1>1 DEF IdAfter, Starts, Streamed
<1>2. CASE n # 1
  <2>1. x[n] \in Events(s, i)
    BY EventsHere
  <2>2. x[n].type = "message_start" => x[n].id = i
    BY <2>1 DEF Events, Speech, Starts, Fragments, Stops, Failure, End
  <2> QED  BY <1>2, <2>2 DEF IdAfter, Knows
<1> QED  BY <1>1, <1>2

Message == [role : STRING, content : Seq(STRING)]
Spoken  == {m \in Message : m.role # "system"}

\* What Anthropic's request has one place for.
OneSystem(said) ==
  \A i \in DOMAIN said : said[i].role = "system" =>
    said[i].content # << >> /\ \A j \in DOMAIN said : said[j].role = "system" => i = j

\* The question q holds what was said, as ConversationIsKept has it.
Tells(said, q) ==
  LET heard == [i \in DOMAIN q.messages |-> q.messages[i].content]
      told == IF q.system = << >> THEN heard ELSE <<q.system>> \o heard
      system == {i \in DOMAIN said : said[i].role = "system"}
  IN /\ Len(told) = Len(said)
     /\ \A i \in DOMAIN said \ system, j \in DOMAIN said \ system :
          i < j => \E k, l \in DOMAIN told :
            k < l /\ told[k] = said[i].content /\ told[l] = said[j].content
     /\ \A i \in DOMAIN said : said[i].content \in ToSet(told)

\* Nothing is said to nobody but the system message, which goes first.
LEMMA SpokenIsKept ==
  ASSUME NEW said \in Seq(Message)
  PROVE  LET system == {i \in DOMAIN said : said[i].role = "system"}
             rest == TranslateRequest(said).messages
         IN /\ system = {} => rest = said
            /\ \A k \in DOMAIN said : system = {k} =>
                 rest = SubSeq(said, 1, k - 1) \o SubSeq(said, k + 1, Len(said))
<1> DEFINE system == {i \in DOMAIN said : said[i].role = "system"}
           rest == TranslateRequest(said).messages
           h == [m \in Message |-> IF m.role = "system" THEN << >> ELSE <<m>>]
<1>1. h \in [Message -> Seq(Message)] /\ \A m \in Spoken : h[m] = <<m>> /\ m \in Message
  BY DEF Spoken
<1>2. rest = Mapped(h, said)
  <2>1. \A i \in DOMAIN said : h[said[i]] = IF i \in system THEN << >> ELSE <<said[i]>>
    OBVIOUS
  <2>2. rest = FlattenSeq([i \in DOMAIN said |-> IF i \in system THEN << >> ELSE <<said[i]>>])
    BY DEF TranslateRequest
  <2> HIDE DEF h, system, rest
  <2>3. [i \in DOMAIN said |-> h[said[i]]] = [i \in DOMAIN said |-> IF i \in system THEN << >> ELSE <<said[i]>>]
    BY <2>1
  <2> QED  BY <2>2, <2>3 DEF Mapped
<1>3. ASSUME NEW x \in Seq(Spoken) PROVE Mapped(h, x) = x
  <2> HIDE DEF h
  <2> QED  BY <1>1, MappedToItself
<1>4. ASSUME system = {} PROVE rest = said
  <2>1. \A i \in 1..Len(said) : said[i] \in Spoken
    BY <1>4 DEF Spoken
  <2>2. said \in Seq(Spoken)
    BY <2>1
  <2> HIDE DEF h, system, rest
  <2> QED  BY <1>2, <1>3, <2>2
<1>5. ASSUME NEW k \in DOMAIN said, system = {k}
      PROVE  rest = SubSeq(said, 1, k - 1) \o SubSeq(said, k + 1, Len(said))
  <2> DEFINE u == SubSeq(said, 1, k - 1)
             v == SubSeq(said, k + 1, Len(said))
             m == <<said[k]>>
             um == u \o m
  <2>1. \A i \in 1..Len(said) : i # k => said[i] \in Spoken
    BY <1>5 DEF Spoken
  <2>2. u \in Seq(Spoken) /\ v \in Seq(Spoken)
    <3> HIDE DEF system, h, rest
    <3>1. k \in 1..Len(said) /\ Len(said) \in Nat
      OBVIOUS
    <3>2. \A i \in 1..(k - 1) : said[i] \in Spoken
      BY <2>1, <3>1
    <3>3. \A i \in (k + 1)..Len(said) : said[i] \in Spoken
      BY <2>1, <3>1
    <3>4. 1 \in Int /\ k - 1 \in Int /\ k + 1 \in Int /\ Len(said) \in Int
      BY <3>1
    <3> QED  BY <3>2, <3>3, <3>4, SubSeqProperties
  <2>3. /\ said = um \o v /\ um = u \o m
        /\ u \in Seq(Message) /\ m \in Seq(Message) /\ um \in Seq(Message)
        /\ v \in Seq(Message)
    <3>1. k \in 0..Len(said) /\ k # 0
      OBVIOUS
    <3>2. said = SubSeq(said, 1, k) \o v /\ SubSeq(said, 1, k) = u \o m
      BY <3>1, Cut
    <3>3. u \in Seq(Message) /\ v \in Seq(Message) /\ SubSeq(said, 1, k) \in Seq(Message)
          /\ m \in Seq(Message)
      BY <3>1, Cut
    <3> QED  BY <3>2, <3>3
  <2>4. Mapped(h, m) = << >>
    <3>1. said[k] \in Message /\ h[said[k]] = << >>
      BY <1>5
    <3> HIDE DEF h
    <3> QED  BY <1>1, <3>1, MappedOne
  <2>10. um = Joined(u, m) /\ said = Joined(um, v)
    BY <2>3, Zenon DEF Joined
  <2>11. h \in Images(Message, Message) /\ um \in Seq(Message) /\ u \in Seq(Message)
         /\ v \in Seq(Message) /\ m \in Seq(Message)
    BY <1>1, <2>3, Zenon DEF Images
  <2> HIDE DEF u, v, m, um, h, system, rest
  <2>5. Mapped(h, Joined(um, v)) = Joined(Mapped(h, um), Mapped(h, v))
    BY <2>11, MappedJoined
  <2>6. Mapped(h, Joined(u, m)) = Joined(Mapped(h, u), Mapped(h, m))
    BY <2>11, MappedJoined
  <2>7. u \o << >> = u
    BY <2>3
  <2>8. Mapped(h, u) = u /\ Mapped(h, v) = v
    BY <1>3, <2>2
  <2>9. rest = u \o v
    BY <1>2, <2>4, <2>5, <2>6, <2>7, <2>8, <2>10, Zenon DEF Joined
  <2> QED  BY <2>9 DEF u, v
<1> HIDE DEF h, rest, system
<1>6. (system = {} => rest = said) /\ \A k \in DOMAIN said : system = {k} =>
        rest = SubSeq(said, 1, k - 1) \o SubSeq(said, k + 1, Len(said))
  BY <1>4, <1>5
<1> QED  BY <1>6 DEF rest, system

Joins(u, v, w) ==
  /\ Len(w) = Len(u) + Len(v)
  /\ \A i \in 1..(Len(u) + Len(v)) : w[i] = IF i <= Len(u) THEN u[i] ELSE v[i - Len(u)]

LEMMA JoinsAre ==
  ASSUME NEW E, NEW u \in Seq(E), NEW v \in Seq(E)
  PROVE  u \o v \in Seq(E) /\ Joins(u, v, u \o v)
BY ConcatProperties, Zenon DEF Joins

\* u and v are what is left of x on each side of its place k.
Splits(x, N, k, u, v) ==
  /\ Len(u) = k - 1 /\ \A i \in 1..(k - 1) : u[i] = x[i]
  /\ Len(v) = N - k /\ \A i \in 1..(N - k) : v[i] = x[k + i]

\* w is x with e first, and without the element of place k.
Moved(x, N, k, e, w) ==
  /\ Len(w) = N /\ w[1] = e
  /\ \A i \in 1..N : (i < k => w[i + 1] = x[i]) /\ (i > k => w[i] = x[i])

LEMMA Moves ==
  ASSUME NEW N \in Nat, NEW k \in 1..N, NEW x, NEW u, NEW v, NEW y, NEW t, NEW w,
         Splits(x, N, k, u, v), Joins(u, v, y), Joins(t, y, w), Len(t) = 1
  PROVE  Moved(x, N, k, t[1], w)
<1>1. Len(y) = N - 1 /\ Len(w) = N
  BY DEF Joins, Splits
<1>2. \A i \in 1..(N - 1) : y[i] = IF i <= k - 1 THEN u[i] ELSE v[i - (k - 1)]
  BY <1>1 DEF Joins, Splits
<1>3. \A i \in 1..N : w[i] = IF i <= 1 THEN t[i] ELSE y[i - 1]
  BY <1>1 DEF Joins
<1>4. ASSUME NEW i \in 1..N, i < k PROVE w[i + 1] = x[i]
  <2>1. i + 1 \in 1..N /\ i \in 1..(N - 1) /\ i \in 1..(k - 1) /\ (i + 1) - 1 = i
    BY <1>4
  <2>2. w[i + 1] = y[i] /\ y[i] = u[i] /\ u[i] = x[i]
    BY <1>2, <1>3, <2>1 DEF Splits
  <2> QED  BY <2>2
<1>5. ASSUME NEW i \in 1..N, i > k PROVE w[i] = x[i]
  <2>1. /\ i - 1 \in 1..(N - 1) /\ i - k \in 1..(N - k) /\ (i - 1) - (k - 1) = i - k
        /\ k + (i - k) = i
    BY <1>5
  <2>2. w[i] = y[i - 1] /\ y[i - 1] = v[i - k] /\ v[i - k] = x[i]
    BY <1>2, <1>3, <1>5, <2>1 DEF Splits
  <2> QED  BY <2>2
<1>6. w[1] = t[1]
  BY <1>3
<1> QED  BY <1>1, <1>4, <1>5, <1>6 DEF Moved

\* A sequence whose element of place k becomes e and goes first.
LEMMA LeftOut ==
  ASSUME NEW E, NEW x \in Seq(E), NEW k \in 1..Len(x), NEW e \in E
  PROVE  LET y == SubSeq(x, 1, k - 1) \o SubSeq(x, k + 1, Len(x))
             w == <<e>> \o y
         IN y \in Seq(E) /\ w \in Seq(E) /\ Moved(x, Len(x), k, e, w)
<1> DEFINE u == SubSeq(x, 1, k - 1)
           v == SubSeq(x, k + 1, Len(x))
           t == <<e>>
           y == u \o v
           w == t \o y
<1>1. u \in Seq(E) /\ v \in Seq(E) /\ Splits(x, Len(x), k, u, v)
  BY DEF Splits
<1>2. t \in Seq(E) /\ Len(t) = 1 /\ t[1] = e /\ Len(x) \in Nat
  OBVIOUS
<1> HIDE DEF u, v, t
<1>3. y \in Seq(E) /\ Joins(u, v, y)
  BY <1>1, JoinsAre, Zenon
<1> HIDE DEF y
<1>4. w \in Seq(E) /\ Joins(t, y, w)
  BY <1>2, <1>3, JoinsAre, Zenon
<1> HIDE DEF w
<1>5. Moved(x, Len(x), k, t[1], w)
  BY <1>1, <1>2, <1>3, <1>4, Moves, Zenon
<1> USE DEF u, v, t, y, w
<1> QED  BY <1>2, <1>3, <1>4, <1>5, Zenon

Told(q) ==
  LET heard == [i \in DOMAIN q.messages |-> q.messages[i].content]
  IN IF q.system = << >> THEN heard ELSE <<q.system>> \o heard

\* What is told is the contents of the messages of w.
Contents(w, N, told) ==
  Len(told) = N /\ DOMAIN told = 1..N /\ \A i \in 1..N : told[i] = w[i].content

LEMMA ContentsOfAll ==
  ASSUME NEW y \in Seq(Message)
  PROVE  /\ Contents(y, Len(y), [i \in DOMAIN y |-> y[i].content])
         /\ [i \in DOMAIN y |-> y[i].content] \in Seq(Seq(STRING))
<1> DEFINE c == [i \in DOMAIN y |-> y[i].content]
           V == Seq(STRING)
<1>1. \A m \in Message : m.content \in V
  BY DEF Message
<1>2. DOMAIN y = 1..Len(y) /\ Len(y) \in Nat /\ \A i \in DOMAIN y : y[i] \in Message
  OBVIOUS
<1> HIDE DEF V
<1>3. c \in [1..Len(y) -> V]
  BY <1>1, <1>2
<1>4. c \in Seq(V) /\ Len(c) = Len(y) /\ DOMAIN c = 1..Len(y)
      /\ \A i \in 1..Len(y) : c[i] = y[i].content
  <2>1. DOMAIN c = 1..Len(y) /\ \A i \in 1..Len(y) : c[i] = y[i].content
    BY <1>2
  <2> HIDE DEF c
  <2> QED  BY <1>2, <1>3, <2>1
<1> HIDE DEF c
<1>5. c \in Seq(V) /\ Contents(y, Len(y), c)
  BY <1>4 DEF Contents
<1> QED  BY <1>5 DEF c, V

LEMMA ContentsJoined ==
  ASSUME NEW N \in Nat, NEW m, NEW y, NEW c, NEW w, NEW told, NEW t, NEW n,
         Contents(y, N, c), Joins(<<m>>, y, w), Joins(<<n>>, c, told), n = m.content,
         Len(y) = N, DOMAIN told = 1..(N + 1)
  PROVE  Contents(w, N + 1, told)
<1>1. Len(<<m>>) = 1 /\ Len(<<n>>) = 1 /\ <<m>>[1] = m /\ <<n>>[1] = n
  OBVIOUS
<1>2. Len(c) = N /\ \A i \in 1..N : c[i] = y[i].content
  BY DEF Contents
<1>3. Len(told) = N + 1 /\ told[1] = n /\ w[1] = m
      /\ \A i \in 1..(N + 1) : i # 1 => told[i] = c[i - 1] /\ w[i] = y[i - 1]
  BY <1>1, <1>2 DEF Joins
<1>4. ASSUME NEW i \in 1..(N + 1) PROVE told[i] = w[i].content
  <2>1. CASE i = 1
    BY <1>3, <2>1
  <2>2. CASE i # 1
    <3>1. i - 1 \in 1..N
      BY <2>2
    <3> QED  BY <1>2, <1>3, <2>2, <3>1
  <2> QED  BY <2>1, <2>2
<1> QED  BY <1>3, <1>4 DEF Contents

LEMMA ContentsAfterSystem ==
  ASSUME NEW m \in Message, NEW y \in Seq(Message)
  PROVE  Contents(<<m>> \o y, Len(<<m>> \o y),
                  <<m.content>> \o [i \in DOMAIN y |-> y[i].content])
<1> DEFINE c == [i \in DOMAIN y |-> y[i].content]
           V == Seq(STRING)
           told == <<m.content>> \o c
           w == <<m>> \o y
<1>1. c \in Seq(V) /\ Contents(y, Len(y), c)
  BY ContentsOfAll
<1>2. m.content \in V
  BY DEF Message
<1> HIDE DEF c, V
<1>3. <<m>> \in Seq(Message) /\ <<m.content>> \in Seq(V) /\ Len(y) \in Nat
  BY <1>2
<1>4. told \in Seq(V) /\ Joins(<<m.content>>, c, told) /\ w \in Seq(Message) /\ Joins(<<m>>, y, w)
  BY <1>1, <1>3, JoinsAre, Zenon
<1>5. Len(w) = Len(y) + 1 /\ Len(told) = Len(y) + 1
  <2>1. Len(c) = Len(y) /\ Len(<<m>>) = 1 /\ Len(<<m.content>>) = 1
    BY <1>1 DEF Contents
  <2> HIDE DEF w, told
  <2> QED  BY <1>3, <1>4, <2>1 DEF Joins
<1> HIDE DEF w, told
<1>6. DOMAIN told = 1..(Len(y) + 1)
  BY <1>4, <1>5
<1>7. Contents(w, Len(y) + 1, told)
  BY <1>1, <1>3, <1>4, <1>6, ContentsJoined, Zenon
<1>8. Contents(w, Len(w), told)
  BY <1>5, <1>7
<1> QED  BY <1>8 DEF w, told, c

\* Every message has its place in what is told, in order but for system messages.
Places(said, N, told, place) ==
  /\ Len(said) = N /\ DOMAIN said = 1..N /\ Len(told) = N /\ DOMAIN told = 1..N
  /\ place \in [1..N -> 1..N]
  /\ \A i \in 1..N : told[place[i]] = said[i].content
  /\ \A i, j \in 1..N : said[i].role # "system" /\ said[j].role # "system" /\ i < j =>
       place[i] < place[j]

LEMMA PlacesTell ==
  ASSUME NEW said, NEW N \in Nat, NEW q, NEW place, Places(said, N, Told(q), place)
  PROVE  Tells(said, q)
<1> DEFINE system == {i \in DOMAIN said : said[i].role = "system"}
           told == Told(q)
<1> SUFFICES /\ Len(told) = Len(said)
             /\ \A i \in DOMAIN said \ system, j \in DOMAIN said \ system :
                  i < j => \E k, l \in DOMAIN told :
                    k < l /\ told[k] = said[i].content /\ told[l] = said[j].content
             /\ \A i \in DOMAIN said : said[i].content \in ToSet(told)
  BY Zenon DEF Tells, Told
<1> HIDE DEF told
<1>0. /\ Len(told) = N /\ DOMAIN told = 1..N
      /\ \A i \in 1..N : told[place[i]] = said[i].content /\ place[i] \in 1..N
  BY DEF told, Places
<1>1. ASSUME NEW i \in DOMAIN said \ system, NEW j \in DOMAIN said \ system, i < j
      PROVE \E k, l \in DOMAIN told :
              k < l /\ told[k] = said[i].content /\ told[l] = said[j].content
  <2>1. /\ place[i] < place[j] /\ place[i] \in DOMAIN told /\ place[j] \in DOMAIN told
        /\ told[place[i]] = said[i].content /\ told[place[j]] = said[j].content
    BY <1>0, <1>1 DEF Places
  <2> QED  BY <2>1, Zenon
<1>2. \A i \in DOMAIN said : said[i].content \in ToSet(told)
  BY <1>0 DEF ToSet, Places
<1> QED  BY <1>0, <1>1, <1>2 DEF Places

LEMMA MovedPlaces ==
  ASSUME NEW said, NEW N \in Nat, Len(said) = N, DOMAIN said = 1..N, NEW k \in 1..N,
         said[k].role = "system", NEW w, Moved(said, N, k, said[k], w),
         NEW told, Contents(w, N, told)
  PROVE  \E place : Places(said, N, told, place)
<1> DEFINE place == [i \in 1..N |-> IF i = k THEN 1 ELSE IF i < k THEN i + 1 ELSE i]
<1>1. place \in [1..N -> 1..N]
  OBVIOUS
<1>2. \A i \in 1..N : w[place[i]] = said[i]
  BY DEF Moved
<1>3. \A i, j \in 1..N : i # k /\ j # k /\ i < j => place[i] < place[j]
  OBVIOUS
<1> HIDE DEF place
<1>4. \A i \in 1..N : told[place[i]] = said[i].content
  BY <1>1, <1>2 DEF Contents
<1>5. Places(said, N, told, place)
  BY <1>1, <1>3, <1>4 DEF Contents, Places
<1> QED  BY <1>5

LEMMA QuestionTells ==
  ASSUME NEW s, NEW said \in Seq(Message), OneSystem(said)
  PROVE  Tells(said, Question(s, said))
<1> DEFINE q == Question(s, said)
           N == Len(said)
           system == {i \in DOMAIN said : said[i].role = "system"}
<1>1. N \in Nat /\ DOMAIN said = 1..N /\ Len(said) = N /\ \A i \in 1..N : said[i] \in Message
  OBVIOUS
<1>2. CASE s # "anthropic" \/ system = {}
  <2>1. q.system = << >> /\ q.messages = said
    <3>1. CASE s # "anthropic"
      BY <3>1 DEF Question
    <3>2. CASE s = "anthropic" /\ system = {}
      <4>1. TranslateRequest(said).messages = said
        BY <3>2, SpokenIsKept
      <4> QED  BY <3>2, <4>1 DEF Question, TranslateRequest
    <3> QED  BY <1>2, <3>1, <3>2
  <2> HIDE DEF q
  <2>2. Contents(said, N, Told(q))
    BY <2>1, ContentsOfAll DEF Told
  <2> DEFINE place == [i \in 1..N |-> i]
  <2> HIDE DEF N
  <2>3. /\ place \in [1..N -> 1..N] /\ \A i \in 1..N : Told(q)[place[i]] = said[i].content
        /\ \A i, j \in 1..N : i < j => place[i] < place[j]
    BY <2>2 DEF Contents
  <2> HIDE DEF place
  <2>4. Places(said, N, Told(q), place)
    BY <1>1, <2>2, <2>3 DEF Places, Contents
  <2>5. Tells(said, q)
    BY <1>1, <2>4, PlacesTell, Zenon
  <2> QED  BY <2>5 DEF q
<1>3. CASE s = "anthropic" /\ system # {}
  <2>1. PICK k \in 1..N : system = {k} /\ said[k].content # << >>
    BY <1>1, <1>3 DEF OneSystem
  <2>2. q.system = said[k].content
    <3>1. system \in SUBSET (1..N)
      BY <1>1
    <3>2. Max(system) \in system
      <4> HIDE DEF system, N
      <4> QED  BY <1>1, <1>3, <3>1, MaxOf
    <3>3. q.system = said[Max(system)].content
      BY <1>3 DEF Question, TranslateRequest
    <3> QED  BY <2>1, <3>2, <3>3
  <2> DEFINE y == SubSeq(said, 1, k - 1) \o SubSeq(said, k + 1, Len(said))
             w == <<said[k]>> \o y
  <2>3. q.messages = y
    <3>1. TranslateRequest(said).messages = y
      BY <1>1, <2>1, SpokenIsKept
    <3> QED  BY <1>3, <3>1 DEF Question
  <2>4. y \in Seq(Message) /\ Moved(said, N, k, said[k], w)
    BY <1>1, LeftOut, Zenon
  <2> HIDE DEF y, q
  <2>5. Told(q) = <<said[k].content>> \o [i \in DOMAIN y |-> y[i].content]
    BY <2>1, <2>2, <2>3, Zenon DEF Told
  <2>6. Contents(w, Len(w), Told(q))
    BY <1>1, <2>4, <2>5, ContentsAfterSystem, Zenon
  <2> HIDE DEF w
  <2>7. Contents(w, N, Told(q))
    BY <2>4, <2>6 DEF Moved
  <2>8. said[k].role = "system"
    BY <2>1
  <2> HIDE DEF N
  <2>9. PICK place : Places(said, N, Told(q), place)
    BY <1>1, <2>4, <2>7, <2>8, MovedPlaces, Zenon
  <2>10. Tells(said, q)
    BY <1>1, <2>9, PlacesTell, Zenon
  <2> QED  BY <2>10 DEF q
<1> QED  BY <1>2, <1>3

(*********************** streamed, and as a whole **************************)
\* What a chunk says.
Texts(i) == [c \in Chunks(i) |-> c.content]

LEMMA TextsType ==
  ASSUME NEW i
  PROVE  Texts(i) \in [Chunks(i) -> Seq(STRING)]
BY DEF Texts, Chunks

LEMMA TextsPutTogether ==
  ASSUME NEW i, NEW x \in Seq(Chunks(i))
  PROVE  FlattenSeq([k \in DOMAIN x |-> x[k].content]) = Mapped(Texts(i), x)
<1>1. \A k \in DOMAIN x : Texts(i)[x[k]] = x[k].content
  <2>1. \A k \in DOMAIN x : x[k] \in Chunks(i)
    OBVIOUS
  <2> QED  BY <2>1 DEF Texts
<1>2. [k \in DOMAIN x |-> x[k].content] = [k \in DOMAIN x |-> Texts(i)[x[k]]]
  BY <1>1
<1> QED  BY <1>2, Zenon DEF Mapped

\* Before its end a stream yields chunks, of its answer.
LEMMA SpeechYields ==
  ASSUME NEW s, NEW i \in STRING
  PROVE  Relays(s, i, Speech(s, i), Chunks(i))
<1> SUFFICES ASSUME NEW e \in Speech(s, i) PROVE Yields(s, i, e) \in Seq(Chunks(i))
  BY DEF Relays
<1> DEFINE V == Chunks(i)
<1>0. << >> \in Seq(V) /\ \A c \in V : <<c>> \in Seq(V)
  <2> HIDE DEF V
  <2> QED  OBVIOUS
<1>1. CASE s # "anthropic"
  <2>1. Yields(s, i, e) = <<e>> /\ e \in Chunks(i)
    BY <1>1 DEF Yields, Speech
  <2> QED  BY <1>0, <2>1, Zenon
<1>2. CASE s = "anthropic"
  <2>1. e.type # "message_stop"
    BY <1>2 DEF Speech, Starts, Fragments, Stops
  <2>2. CASE e.type = "message_start"
    <3>1. e.id = i /\ << >> \in Seq(STRING)
      BY <1>2, <2>2 DEF Speech, Starts, Fragments, Stops
    <3>2. Yields(s, i, e) = <<Chunk(i, << >>, Nil)>>
      BY <1>2, <2>2, <3>1 DEF Yields, ChunkOf, IdAfter
    <3>3. Chunk(i, << >>, Nil) \in Chunks(i)
      BY <3>1, ChunkType DEF Reasons
    <3> QED  BY <1>0, <3>2, <3>3, Zenon
  <2>3. CASE e.type = "content_block_delta"
    <3>1. e \in Fragments /\ e.text \in Seq(STRING)
      BY <1>2, <2>3 DEF Speech, Starts, Fragments, Stops
    <3>2. Yields(s, i, e) \in {<<Chunk(i, e.text, Nil)>>, << >>}
      BY <1>2, <2>3 DEF Yields, ChunkOf
    <3>3. Chunk(i, e.text, Nil) \in Chunks(i)
      BY <3>1, ChunkType DEF Reasons
    <3>4. Yields(s, i, e) = <<Chunk(i, e.text, Nil)>> \/ Yields(s, i, e) = << >>
      BY <3>2
    <3> QED  BY <1>0, <3>3, <3>4, Zenon
  <2>4. CASE e.type = "message_delta"
    <3>1. e.stop_reason \in STRING /\ << >> \in Seq(STRING)
      BY <1>2, <2>4 DEF Speech, Starts, Fragments, Stops
    <3>2. Yields(s, i, e) = <<Chunk(i, << >>, MapStopReason(e.stop_reason))>>
      BY <1>2, <2>4 DEF Yields, ChunkOf
    <3>3. MapStopReason(e.stop_reason) \in Reasons
      BY <3>1 DEF MapStopReason, Reasons
    <3>4. Chunk(i, << >>, MapStopReason(e.stop_reason)) \in Chunks(i)
      BY <3>1, <3>3, ChunkType
    <3> QED  BY <1>0, <3>2, <3>4, Zenon
  <2> QED  BY <1>2, <2>2, <2>3, <2>4 DEF Speech, Starts, Fragments, Stops
<1> QED  BY <1>1, <1>2

\* The deltas of a block say its text, if it is one.
LEMMA BlockSays ==
  ASSUME NEW t, NEW b \in Block,
         \A f \in Fragments : t[f] = IF f.delta = "text_delta" THEN f.text ELSE << >>
  PROVE  Mapped(t, Deltas(b)) = IF b.type = "text" THEN b.text ELSE << >>
<1> DEFINE D == Deltas(b)
           g == [c \in STRING |-> <<c>>]
           zero == [f \in Fragments |-> << >>]
<1>1. D \in Seq(Fragments) /\ DOMAIN D = DOMAIN b.text /\ b.text \in Seq(STRING)
  <2>1. D \in Seq(Fragments) /\ b.text \in Seq(STRING)
    BY DeltasType DEF Block
  <2>2. DOMAIN D = DOMAIN b.text
    BY DEF Deltas
  <2> QED  BY <2>1, <2>2
<1>2. \A k \in DOMAIN D : t[D[k]] = IF b.type = "text" THEN <<b.text[k]>> ELSE << >>
  <2>1. \A k \in DOMAIN D :
          /\ D[k].text = <<b.text[k]>>
          /\ D[k].delta = IF b.type = "text" THEN "text_delta" ELSE "input_json_delta"
    BY DEF Deltas
  <2>2. \A k \in DOMAIN D : D[k] \in Fragments
    BY <1>1
  <2> QED  BY <2>1, <2>2
<1>3. CASE b.type = "text"
  <2>1. \A k \in DOMAIN b.text : g[b.text[k]] = <<b.text[k]>>
    BY <1>1
  <2>2. \A c \in STRING : g[c] = <<c>>
    OBVIOUS
  <2> HIDE DEF D, g
  <2>3. \A k \in DOMAIN D : t[D[k]] = g[b.text[k]]
    BY <1>1, <1>2, <1>3, <2>1
  <2>4. Mapped(t, D) = Mapped(g, b.text)
    <3>1. [k \in DOMAIN D |-> t[D[k]]] = [k \in DOMAIN b.text |-> g[b.text[k]]]
      BY <1>1, <2>3
    <3> QED  BY <3>1, Zenon DEF Mapped
  <2>5. Mapped(g, b.text) = b.text
    BY <1>1, <2>2, MappedToItself
  <2> QED  BY <1>3, <2>4, <2>5 DEF D
<1>4. CASE b.type # "text"
  <2>1. \A f \in Fragments : zero[f] = << >>
    OBVIOUS
  <2> HIDE DEF D, zero
  <2>2. \A k \in DOMAIN D : t[D[k]] = zero[D[k]]
    <3>1. \A k \in DOMAIN D : D[k] \in Fragments
      BY <1>1
    <3> QED  BY <1>2, <1>4, <2>1, <3>1
  <2>3. Mapped(t, D) = Mapped(zero, D)
    BY <2>2, MappedPointwise
  <2>4. Mapped(zero, D) = << >>
    BY <1>1, <2>1, MappedToNothing
  <2> QED  BY <1>4, <2>3, <2>4 DEF D
<1> QED  BY <1>3, <1>4

\* What is streamed between the start and the end of an answer is its text.
LEMMA MiddleSays ==
  ASSUME NEW i \in STRING, NEW a, a.content \in Seq(Block)
  PROVE  Mapped(Texts(i), Relayed("anthropic", i, Middle(a))) = TranslateResponse(a).content
<1> DEFINE d == [b \in Block |-> Deltas(b)]
           y == [f \in Fragments |-> Yields("anthropic", i, f)]
           t == Through(Fragments, y, Texts(i))
           w == Through(Block, d, t)
           z == a.content
           u == Texts(i)
           V == Chunks(i)
           S == Seq(STRING)
<1>1. d \in [Block -> Seq(Fragments)] /\ \A b \in Block : d[b] = Deltas(b)
  BY DeltasType
<1>2. y \in [Fragments -> Seq(V)] /\ \A f \in Fragments : y[f] = Yields("anthropic", i, f)
  <2>1. \A f \in Fragments : Yields("anthropic", i, f) \in Seq(V)
    <3>1. Fragments \subseteq Speech("anthropic", i)
      BY DEF Speech
    <3> QED  BY <3>1, SpeechYields DEF Relays
  <2> HIDE DEF V
  <2> QED  BY <2>1
<1>3. u \in [V -> S]
  BY TextsType
<1>4. Middle(a) = Mapped(d, z) /\ Middle(a) \in Seq(Fragments) /\ z \in Seq(Block)
  BY MiddleIsMapped, MiddleType
<1>5. Relayed("anthropic", i, Middle(a)) = Mapped(y, Middle(a))
  BY <1>4, RelayedIsMapped
<1>6. \A f \in Fragments : t[f] = IF f.delta = "text_delta" THEN f.text ELSE << >>
  <2> SUFFICES ASSUME NEW f \in Fragments
               PROVE  Mapped(u, y[f]) = IF f.delta = "text_delta" THEN f.text ELSE << >>
    BY DEF Through
  <2>1. CASE f.delta = "text_delta"
    <3>1. y[f] = <<Chunk(i, f.text, Nil)>>
      <4>1. Yields("anthropic", i, f) = <<Chunk(i, f.text, Nil)>>
        BY <2>1 DEF Yields, ChunkOf, Fragments
      <4> QED  BY <1>2, <4>1
    <3>2. Chunk(i, f.text, Nil) \in V /\ u[Chunk(i, f.text, Nil)] = f.text
      <4>1. Chunk(i, f.text, Nil) \in V /\ Chunk(i, f.text, Nil).content = f.text
        <5>1. f.text \in Seq(STRING)
          BY DEF Fragments
        <5> QED  BY <5>1, ChunkType DEF Reasons, Chunk
      <4> QED  BY <4>1 DEF Texts
    <3> HIDE DEF u, V, y
    <3>3. Mapped(u, <<Chunk(i, f.text, Nil)>>) = u[Chunk(i, f.text, Nil)]
      BY <1>3, <3>2, MappedOne
    <3> QED  BY <2>1, <3>1, <3>2, <3>3
  <2>2. CASE f.delta # "text_delta"
    <3>1. Yields("anthropic", i, f) = << >>
      BY <2>2 DEF Yields, ChunkOf, Fragments
    <3>2. Mapped(u, << >>) = << >>
      BY MappedNone
    <3> QED  BY <1>2, <2>2, <3>1, <3>2
  <2> QED  BY <2>1, <2>2
<1>7. t \in [Fragments -> S]
  <2>1. \A f \in Fragments : t[f] \in S
    <3>1. \A f \in Fragments : f.text \in S
      BY DEF Fragments
    <3>2. << >> \in S
      OBVIOUS
    <3> HIDE DEF S, t
    <3> QED  BY <1>6, <3>1, <3>2
  <2>2. t = [f \in Fragments |-> t[f]]
    BY DEF Through
  <2> HIDE DEF t, S
  <2> QED  BY <2>1, <2>2
<1> DEFINE W == [b \in Block |-> IF b.type = "text" THEN b.text ELSE << >>]
<1>8. w = W
  <2>1. \A b \in Block : Mapped(t, Deltas(b)) = IF b.type = "text" THEN b.text ELSE << >>
    <3> HIDE DEF t
    <3> QED  BY <1>6, BlockSays
  <2> HIDE DEF t, d
  <2> QED  BY <1>1, <2>1 DEF Through
<1>9. TranslateResponse(a).content = Mapped(W, z)
  <2>1. \A k \in DOMAIN z : W[z[k]] = IF z[k].type = "text" THEN z[k].text ELSE << >>
    <3>1. \A k \in DOMAIN z : z[k] \in Block
      BY <1>4
    <3> HIDE DEF z
    <3> QED  BY <3>1
  <2> HIDE DEF W
  <2>2. [k \in DOMAIN z |-> W[z[k]]]
          = [k \in DOMAIN a.content |-> IF a.content[k].type = "text" THEN a.content[k].text ELSE << >>]
    BY <2>1
  <2>3. TranslateResponse(a).content
          = FlattenSeq([k \in DOMAIN a.content |-> IF a.content[k].type = "text" THEN a.content[k].text ELSE << >>])
    BY DEF TranslateResponse
  <2> HIDE DEF z
  <2> QED  BY <2>2, <2>3, Zenon DEF Mapped
<1> HIDE DEF d, y, W, z, u, V
<1>10. d \in Images(Block, Fragments) /\ y \in Images(Fragments, V) /\ u \in Images(V, STRING)
       /\ t \in Images(Fragments, STRING)
  BY <1>1, <1>2, <1>3, <1>7 DEF Images
<1>11. Mapped(u, Mapped(y, Mapped(d, z))) = Mapped(t, Mapped(d, z))
  <2>1. Mapped(u, Mapped(y, Mapped(d, z))) = Mapped(Through(Fragments, y, u), Mapped(d, z))
    BY <1>4, <1>10, MappedTwice
  <2> QED  BY <2>1 DEF u
<1>12. Mapped(t, Mapped(d, z)) = Mapped(w, z)
  <2> HIDE DEF t
  <2> QED  BY <1>4, <1>10, MappedTwice
<1> HIDE DEF w, t
<1> QED  BY <1>4, <1>5, <1>8, <1>9, <1>11, <1>12 DEF u

\* The same, in a form that is easy to cite.
LEMMA RelayedJoined ==
  ASSUME NEW s, NEW i, NEW E, NEW F, Relays(s, i, E, F), NEW x \in Seq(E), NEW y \in Seq(E)
  PROVE  Relayed(s, i, Joined(x, y)) = Joined(Relayed(s, i, x), Relayed(s, i, y))
BY RelayedConcat DEF Joined

\* The chunks x, of id i, say what the answer w says: its text, and then its reason to stop.
Agrees(i, x, w) == \E y \in Seq(Chunks(i)), last \in Chunks(i) :
  /\ x = Joined(y, <<last>>) /\ Mapped(Texts(i), y) = w.content
  /\ last.content = << >> /\ last.finish = w.finish

LEMMA OpenAIAgrees ==
  ASSUME NEW s \in Translators, s # "anthropic", NEW a \in Answers[s]
  PROVE  Agrees(a.id, Relayed(s, a.id, Body(s, a)), Whole(s, a))
<1> DEFINE i == a.id
           V == Chunks(i)
           p == Pieces(a)
           last == Chunk(i, << >>, a.finish)
           x == Body(s, a)
           h == [e \in V |-> Yields(s, i, e)]
           g == [c \in STRING |-> <<c>>]
<1>1. i \in STRING /\ a.finish \in STRING /\ a.content \in Seq(STRING) /\ Whole(s, a) = a
  BY AnswersAssumption DEF Whole
<1>2. x \in Seq(V)
  BY <1>1, BodyType DEF Speech
<1>3. Relayed(s, i, x) = x
  <2>1. \A e \in V : h[e] = <<e>>
    BY DEF Yields
  <2>2. Relayed(s, i, x) = Mapped(h, x)
    BY <1>2, RelayedIsMapped
  <2> HIDE DEF h, V, x, i
  <2>3. Mapped(h, x) = x
    BY <1>2, <2>1, MappedToItself
  <2> QED  BY <2>2, <2>3
<1>4. \A k \in DOMAIN a.content : Chunk(i, <<a.content[k]>>, Nil) \in V
  <2>1. \A k \in DOMAIN a.content : <<a.content[k]>> \in Seq(STRING)
    BY <1>1
  <2> QED  BY <1>1, <2>1, ChunkType DEF Reasons
<1>5. p \in Seq(V) /\ DOMAIN p = DOMAIN a.content
  <2>1. DOMAIN a.content = 1..Len(a.content) /\ Len(a.content) \in Nat
    BY <1>1
  <2>2. p \in [1..Len(a.content) -> V] /\ DOMAIN p = DOMAIN a.content
    <3> HIDE DEF V
    <3> QED  BY <1>4, <2>1 DEF Pieces
  <2> HIDE DEF p, V
  <2> QED  BY <2>1, <2>2
<1>6. last \in V /\ last.content = << >> /\ last.finish = a.finish
  <2>1. << >> \in Seq(STRING)
    OBVIOUS
  <2> QED  BY <1>1, <2>1, ChunkType DEF Reasons, Chunk
<1>7. Mapped(Texts(i), p) = a.content
  <2>1. \A k \in DOMAIN p : Texts(i)[p[k]] = g[a.content[k]]
    <3> SUFFICES ASSUME NEW k \in DOMAIN a.content PROVE Texts(i)[p[k]] = g[a.content[k]]
      BY <1>5
    <3>1. p[k] = Chunk(i, <<a.content[k]>>, Nil) /\ p[k] \in V /\ a.content[k] \in STRING
      <4>1. p[k] = Chunk(i, <<a.content[k]>>, Nil)
        BY DEF Pieces
      <4>2. a.content[k] \in STRING
        BY <1>1
      <4> HIDE DEF V, p
      <4> QED  BY <1>4, <4>1, <4>2
    <3>2. Texts(i)[p[k]] = <<a.content[k]>>
      BY <3>1 DEF Texts, Chunk
    <3> QED  BY <3>1, <3>2
  <2>2. \A c \in STRING : g[c] = <<c>>
    OBVIOUS
  <2> HIDE DEF p, g
  <2>3. Mapped(Texts(i), p) = Mapped(g, a.content)
    <3>1. [k \in DOMAIN p |-> Texts(i)[p[k]]] = [k \in DOMAIN a.content |-> g[a.content[k]]]
      BY <1>5, <2>1
    <3> QED  BY <3>1, Zenon DEF Mapped
  <2>4. Mapped(g, a.content) = a.content
    BY <1>1, <2>2, MappedToItself
  <2> QED  BY <2>3, <2>4
<1>8. x = Joined(p, <<last>>)
  BY DEF Body, Joined
<1> HIDE DEF V, p, last, x, i
<1>9. Agrees(i, Relayed(s, i, x), Whole(s, a))
  BY <1>1, <1>3, <1>5, <1>6, <1>7, <1>8 DEF Agrees, V
<1> QED  BY <1>9 DEF i, x

LEMMA AnthropicAgrees ==
  ASSUME "anthropic" \in Translators, NEW a \in Answers["anthropic"]
  PROVE  Agrees(a.id, Relayed("anthropic", a.id, Body("anthropic", a)), Whole("anthropic", a))
<1> DEFINE i == a.id
           E == Speech("anthropic", i)
           V == Chunks(i)
           start == [type |-> "message_start", id |-> i]
           stop == [type |-> "message_delta", stop_reason |-> a.stop_reason]
           first == Chunk(i, << >>, Nil)
           last == Chunk(i, << >>, MapStopReason(a.stop_reason))
           m == Middle(a)
           R(x) == Relayed("anthropic", i, x)
           u == Texts(i)
<1>1. i \in STRING /\ a.stop_reason \in STRING /\ a.content \in Seq(Block)
  BY AnswersAssumption DEF Block
<1>2. <<start>> \in Seq(E) /\ <<stop>> \in Seq(E) /\ m \in Seq(E)
  <2>1. start \in E /\ stop \in E /\ Fragments \subseteq E
    BY <1>1 DEF Speech, Starts, Stops
  <2>2. m \in Seq(Fragments)
    BY <1>1, MiddleType
  <2> HIDE DEF m, E, start, stop
  <2>3. m \in Seq(E)
    BY <2>1, <2>2, SeqMonotonic, Zenon
  <2> QED  BY <2>1, <2>3
<1>3. first \in V /\ last \in V
  <2>1. << >> \in Seq(STRING) /\ MapStopReason(a.stop_reason) \in Reasons
    BY <1>1 DEF MapStopReason, Reasons
  <2> QED  BY <1>1, <2>1, ChunkType DEF Reasons
<1>4. <<first>> \in Seq(V) /\ <<last>> \in Seq(V)
  <2> HIDE DEF V, first, last
  <2> QED  BY <1>3
<1>5. Relays("anthropic", i, E, V)
  BY <1>1, SpeechYields
<1>6. R(<<start>>) = <<first>> /\ R(<<stop>>) = <<last>>
  <2>1. Yields("anthropic", i, start) = <<first>> /\ Yields("anthropic", i, stop) = <<last>>
    BY DEF Yields, ChunkOf, IdAfter
  <2> HIDE DEF first, last, start, stop, V
  <2>2. R(<<start>>) = Yields("anthropic", i, start) /\ R(<<stop>>) = Yields("anthropic", i, stop)
    BY <1>4, <2>1, RelayedOne
  <2> QED  BY <2>1, <2>2
<1>7. Body("anthropic", a) = Joined(Joined(<<start>>, m), <<stop>>)
  BY DEF Body, Joined
<1>8. Mapped(u, R(m)) = Whole("anthropic", a).content
  BY <1>1, MiddleSays DEF Whole
<1>9. /\ first.content = << >> /\ last.content = << >>
      /\ last.finish = Whole("anthropic", a).finish
  BY DEF Chunk, Whole, TranslateResponse
<1>10. u \in Images(V, STRING) /\ u[first] = << >>
  <2>1. u \in Images(V, STRING)
    BY TextsType DEF Images
  <2>2. u[first] = << >>
    BY <1>3, <1>9 DEF Texts
  <2> QED  BY <2>1, <2>2
<1> HIDE DEF E, V, start, stop, first, last, m, u
<1>11. Joined(<<start>>, m) \in Seq(E)
  BY <1>2, ConcatProperties, Zenon DEF Joined
<1>12. /\ R(Joined(Joined(<<start>>, m), <<stop>>)) = Joined(R(Joined(<<start>>, m)), R(<<stop>>))
       /\ R(Joined(<<start>>, m)) = Joined(R(<<start>>), R(m))
  <2> DEFINE b == <<start>>
             e == <<stop>>
  <2>1. b \in Seq(E) /\ e \in Seq(E) /\ Joined(b, m) \in Seq(E)
    BY <1>2, <1>11
  <2> HIDE DEF b, e
  <2>2. R(Joined(Joined(b, m), e)) = Joined(R(Joined(b, m)), R(e))
    BY <1>5, <2>1, RelayedJoined
  <2>3. R(Joined(b, m)) = Joined(R(b), R(m))
    BY <1>2, <1>5, <2>1, RelayedJoined
  <2> QED  BY <2>2, <2>3 DEF b, e
<1>13. R(m) \in Seq(V)
  BY <1>2, <1>5, RelayedType
<1> DEFINE y == Joined(<<first>>, R(m))
<1>14. y \in Seq(V)
  BY <1>4, <1>13, ConcatProperties, Zenon DEF Joined
<1>15. Mapped(u, y) = Whole("anthropic", a).content
  <2> HIDE DEF R
  <2>1. Mapped(u, y) = Joined(Mapped(u, <<first>>), Mapped(u, R(m)))
    <3> DEFINE b == <<first>>
               r == R(m)
    <3>1. b \in Seq(V) /\ r \in Seq(V)
      BY <1>4, <1>13
    <3> HIDE DEF b, r
    <3>2. Mapped(u, Joined(b, r)) = Joined(Mapped(u, b), Mapped(u, r))
      BY <1>10, <3>1, MappedJoined
    <3> QED  BY <3>2 DEF b, r
  <2>2. Mapped(u, <<first>>) = << >>
    <3>1. Mapped(u, <<first>>) = u[first]
      BY <1>3, <1>10, MappedOne DEF Images
    <3> QED  BY <1>10, <3>1
  <2>3. Mapped(u, R(m)) \in Seq(STRING)
    BY <1>10, <1>13, MappedType DEF Images
  <2>4. << >> \o Mapped(u, R(m)) = Mapped(u, R(m))
    BY <2>3, ConcatEmptySeq
  <2> QED  BY <1>8, <2>1, <2>2, <2>4, Zenon DEF Joined
<1>16. R(Body("anthropic", a)) = Joined(y, <<last>>)
  BY <1>6, <1>7, <1>12, Zenon
<1> HIDE DEF y
<1>17. Agrees(i, R(Body("anthropic", a)), Whole("anthropic", a))
  BY <1>3, <1>9, <1>14, <1>15, <1>16 DEF Agrees, V, u
<1> QED  BY <1>17

LEMMA BodyAgrees ==
  ASSUME NEW s \in Translators, NEW a \in Answers[s]
  PROVE  Agrees(a.id, Relayed(s, a.id, Body(s, a)), Whole(s, a))
BY OpenAIAgrees, AnthropicAgrees

LEMMA AgreesMeans ==
  ASSUME NEW i, NEW x, NEW w, Agrees(i, x, w)
  PROVE  /\ x \in Seq(Chunks(i)) /\ Len(x) \in DOMAIN x
         /\ FlattenSeq([k \in DOMAIN x |-> x[k].content]) = w.content
         /\ x[Len(x)].finish = w.finish
<1> DEFINE V == Chunks(i)
           u == Texts(i)
<1>1. PICK y \in Seq(V), last \in V :
        /\ x = Joined(y, <<last>>) /\ Mapped(u, y) = w.content
        /\ last.content = << >> /\ last.finish = w.finish
  BY DEF Agrees
<1>2. u \in Images(V, STRING) /\ u[last] = << >>
  BY <1>1, TextsType DEF Images, Texts
<1>3. u \in [V -> Seq(STRING)]
  BY <1>2 DEF Images
<1> HIDE DEF u, V
<1>4. <<last>> \in Seq(V)
  OBVIOUS
<1>5. /\ x \in Seq(V) /\ Len(x) \in DOMAIN x /\ x[Len(x)] = last
  BY <1>1 DEF Joined
<1>6. Mapped(u, x) = w.content
  <2> DEFINE b == <<last>>
  <2>1. b \in Seq(V) /\ Mapped(u, b) = << >>
    BY <1>2, <1>3, <1>4, MappedOne
  <2> HIDE DEF b
  <2>2. Mapped(u, Joined(y, b)) = Joined(Mapped(u, y), Mapped(u, b))
    BY <1>2, <2>1, MappedJoined
  <2>3. Mapped(u, y) \in Seq(STRING)
    BY <1>3, MappedType
  <2>4. Mapped(u, y) \o << >> = Mapped(u, y)
    BY <2>3, ConcatEmptySeq
  <2> QED  BY <1>1, <2>1, <2>2, <2>4, Zenon DEF Joined, b
<1> QED  BY <1>1, <1>5, <1>6, TextsPutTogether DEF V, u

\* With its end or without, a stream is what is made of its body, and [DONE].
LEMMA RelayedWhole ==
  ASSUME NEW s \in Translators, NEW a \in Answers[s], NEW x \in Streams(s, a)
  PROVE  LET said == Relayed(s, a.id, x)
             c == Relayed(s, a.id, Body(s, a))
         IN IF said # << >> /\ Last(said) = DONE THEN said = Append(c, DONE) ELSE said = c
<1> DEFINE i == a.id
           b == Body(s, a)
           e == End(s)
           E == Events(s, i)
           V == Chunks(i)
           c == Relayed(s, i, b)
           said == Relayed(s, i, x)
<1>1. i \in STRING /\ b \in Seq(Speech(s, i)) /\ (x = b \/ x = Append(b, e))
  BY BodyType
<1>2. c \in Seq(V) /\ DONE \notin V
  <2>1. c \in Seq(V)
    BY <1>1, SpeechYields, RelayedType
  <2>2. DONE \notin V
    BY DEF Chunks, DONE
  <2> QED  BY <2>1, <2>2
<1>3. CASE x = b
  <2> HIDE DEF V, c
  <2>1. c # << >> => Last(c) # DONE
    BY <1>2 DEF Last
  <2> QED  BY <1>3, <2>1 DEF c
<1>4. CASE x = Append(b, e)
  <2>1. b \in Seq(E) /\ e \in E
    <3>1. Speech(s, i) \subseteq E /\ e \in E
      BY DEF Events
    <3> HIDE DEF E, b, e
    <3> QED  BY <1>1, <3>1, SeqMonotonic, Zenon
  <2>2. Relays(s, i, E, Written(i)) /\ Yields(s, i, e) = <<DONE>>
    BY <1>1, <2>1, YieldsAre, YieldsWhat
  <2> DEFINE f == <<e>>
             d == <<DONE>>
  <2> HIDE DEF E, b, e, i
  <2>3. f \in Seq(E) /\ x = Joined(b, f)
    BY <1>4, <2>1 DEF Joined
  <2>4. Relayed(s, i, f) = d
    <3>1. d \in Seq(Written(i))
      BY DEF Written
    <3>2. Relayed(s, i, <<e>>) = Yields(s, i, e)
      BY <2>2, <3>1, RelayedOne
    <3> QED  BY <2>2, <3>2
  <2> HIDE DEF f, d
  <2>5. said = Joined(c, d)
    BY <2>1, <2>2, <2>3, <2>4, RelayedJoined
  <2> HIDE DEF c, V, said
  <2>6. said = Append(c, DONE) /\ said # << >> /\ Last(said) = DONE
    BY <1>2, <2>5 DEF Joined, d, Last
  <2> QED  BY <2>6 DEF said, c, b, i
<1> QED  BY <1>1, <1>3, <1>4
=============================================================================
