---------------------------- MODULE ModelStream ----------------------------
(***************************************************************************)
(* An answer of a model on its way to the user: the lines a provider sends, *)
(* the chunks that the client of pkg/llm makes of them, and agentLoop, which *)
(* holds back the text that may begin a flow-state block.  Text is a         *)
(* sequence of bytes; a line holds whole characters, Lead and Cont being one *)
(* of two bytes, and lines cut the text between any two of them.             *)
(***************************************************************************)
EXTENDS Integers, Sequences, FiniteSets

CONSTANTS
  Letters,    \* of the text; "?" and "." are what a question is cut by
  Lead, Cont, \* the bytes of a character that takes two
  Marker,     \* "---FLOW_STATE---"
  Indexes,    \* of tool calls
  MaxText,    \* bound: letters and fragments of arguments
  MaxLine     \* bound: letters of a line

ASSUME ModelStreamAssumption ==
  /\ Marker \in Seq(Letters \ {Lead, Cont}) /\ Marker # <<>>
  /\ Lead \in Letters /\ Cont \in Letters /\ Lead # Cont
  /\ {"?", "."} \intersect {Lead, Cont} = {}             \* UTF-8
  /\ IsFiniteSet(Indexes) /\ MaxText \in Nat /\ MaxLine \in Nat

VARIABLES
  client,     \* which of the clients it is
  mode,       \* of the loop: no sanitizer, one, or one of a flow that collects
  sent,       \* the text of the lines so far
  fragments,      \* the arguments of each tool call so far, in fragments
  body,       \* "open", "over" after the last line, "cut" if none came
  acc,        \* accumulated
  queue,      \* chunks of the line being worked on
  reader,     \* Stream: "ask" or "again", and its goroutine: "scan", or
              \* "closed" with its channel
  cancelled,  \* ctx
  buffer, blocked, streamedUp,   \* flowStateSanitizer
  toolCalls,  \* of agentLoop
  shown,      \* the text it has passed on
  received,   \* what a browser has made of it
  visible,    \* visibleContent
  stage       \* where it is: "read", "flush", "end", or "gone"

lineVars == <<sent, fragments, body, acc>>
sanitizer == <<buffer, blocked, streamedUp>>
loopVars == <<sanitizer, toolCalls, shown, received, visible, stage>>
modelStreamVars ==
  <<client, mode, lineVars, queue, reader, cancelled, loopVars>>

Clients == {"openai", "kimi", "gemini", "ollama"}
Modes == {"plain", "flow", "collecting"}

-----------------------------------------------------------------------------
(* Text *)

WholeCharacters(s) ==
  \A i \in DOMAIN s :
    /\ s[i] = Lead => i < Len(s) /\ s[i + 1] = Cont
    /\ s[i] = Cont => i > 1 /\ s[i - 1] = Lead

Texts ==
  {s \in UNION {[1..n -> Letters] : n \in 0..MaxLine} : WholeCharacters(s)}

MarkedAt(s) ==
  {i \in 1..Len(s) - Len(Marker) + 1 :
     SubSeq(s, i, i + Len(Marker) - 1) = Marker}

(* full[:strings.Index(full, flowStateMarker)], or all of it. *)
Before(s) ==
  IF MarkedAt(s) = {} THEN s
  ELSE LET first == CHOOSE i \in MarkedAt(s) : \A j \in MarkedAt(s) : i <= j
       IN  SubSeq(s, 1, first - 1)

(* Up to the end of the last sentence before the second question mark, or to
   the first question mark. *)
EnforceSingleQuestion(s) ==
  LET marks == {i \in DOMAIN s : s[i] = "?"}
      first == CHOOSE i \in marks : \A j \in marks : i <= j
      others == marks \ {first}
      second == CHOOSE i \in others : \A j \in others : i <= j
      ends == {i \in first + 1 .. second - 1 : s[i] = "."} \union {first}
  IN  IF Cardinality(marks) <= 1 THEN s
      ELSE SubSeq(s, 1, CHOOSE i \in ends : \A j \in ends : j <= i)

From(s, n) == SubSeq(s, n + 1, Len(s))

-----------------------------------------------------------------------------
(* The clients *)

Content(text) == [content |-> text, call |-> {}, done |-> FALSE]
Call(i, args) ==
  [content |-> <<>>, call |-> {[index |-> i, args |-> args]}, done |-> FALSE]
Done == [content |-> <<>>, call |-> {}, done |-> TRUE]

Size ==
  Len(sent)
    + Cardinality(UNION {{i} \X DOMAIN fragments[i] : i \in Indexes})

(* The answer to a request: 200, or an error. *)
Answered ==
  \/ reader' = "scan" /\ UNCHANGED stage
  \/ reader' = "closed" /\ stage' = "gone"

KimiStream == client = "kimi" /\ Answered
GeminiStream == client = "gemini" /\ Answered
OllamaStream == client = "ollama" /\ Answered

(* Asks once more, without stream_options, when a 400 complains of them. *)
OpenAIStream ==
  /\ client = "openai"
  /\ \/ Answered
     \/ reader = "ask" /\ reader' = "again" /\ UNCHANGED stage

Stream ==
  /\ reader \in {"ask", "again"}
  /\ OpenAIStream \/ KimiStream \/ GeminiStream \/ OllamaStream
  /\ UNCHANGED <<client, mode, lineVars, queue, cancelled, sanitizer,
                 toolCalls, shown, received, visible>>

(* The next fragment of some calls. *)
Longer(args, of) ==
  [i \in Indexes |->
     IF i \in of THEN Append(args[i], Len(fragments[i]) + 1) ELSE args[i]]

(* The provider sends a line, which the client is waiting for. *)
Line(text, of, last) ==
  /\ reader = "scan" /\ queue = <<>> /\ body = "open"
  /\ Size + Len(text) + Cardinality(of) <= MaxText
  /\ sent' = sent \o text
  /\ fragments' = Longer(fragments, of)
  /\ body' = IF last THEN "over" ELSE "open"
  /\ UNCHANGED <<client, mode, reader, cancelled, loopVars>>

(* The fragments of a call are found by its index. *)
Accumulate(of) == acc' = Longer(acc, of)

(* The calls come out in the order of a Go map. *)
Orders(S) == {s \in [1..Cardinality(S) -> S] : {s[i] : i \in DOMAIN s} = S}
emitFinal(order, args) ==
  [k \in 1..Len(order) + 1 |->
     IF k <= Len(order) THEN Call(order[k], args[order[k]]) ELSE Done]

(* last: finish_reason is "stop" or "tool_calls", or the line is [DONE]. *)
OpenAILine(text, of, last) ==
  /\ client = "openai"
  /\ Line(text, of, last)
  /\ Accumulate(of)
  /\ \E order \in Orders({i \in Indexes : acc'[i] # <<>>}) :
       queue' = (IF text = <<>> THEN <<>> ELSE <<Content(text)>>)
                  \o IF last THEN emitFinal(order, acc') ELSE <<>>

(* content_block_delta or message_stop. *)
KimiLine(text, last) ==
  /\ client = "kimi"
  /\ last => text = <<>>
  /\ Line(text, {}, last)
  /\ queue' = IF last THEN <<Done>>
              ELSE IF text = <<>> THEN <<>> ELSE <<Content(text)>>
  /\ UNCHANGED acc

(* A line is one chunk, the last one too. *)
WholeLine(text, last) ==
  /\ Line(text, {}, last)
  /\ queue' = <<[Content(text) EXCEPT !.done = last]>>
  /\ UNCHANGED acc

GeminiLine(text, last) == client = "gemini" /\ WholeLine(text, last)
OllamaLine(text, last) == client = "ollama" /\ WholeLine(text, last)

(* The body ends without a last line: the connection is lost, or a line is
   longer than the scanner takes.  Kimi's client says Done all the same. *)
Cut ==
  /\ reader = "scan" /\ queue = <<>> /\ body = "open"
  /\ body' = "cut"
  /\ IF client = "kimi" THEN queue' = <<Done>> ELSE UNCHANGED queue
  /\ UNCHANGED <<client, mode, sent, fragments, acc, reader, cancelled,
                 loopVars>>

(* The goroutine returns. *)
Close ==
  /\ reader = "scan" /\ queue = <<>> /\ body # "open"
  /\ reader' = "closed"
  /\ UNCHANGED <<client, mode, lineVars, queue, cancelled, loopVars>>

Cancel ==
  /\ ~ cancelled /\ stage \in {"read", "flush"}
  /\ cancelled' = TRUE
  /\ UNCHANGED <<client, mode, lineVars, queue, reader, loopVars>>

(* A send that finds ctx done may be given up, with all that follows. *)
GiveUp ==
  /\ cancelled /\ queue # <<>>
  /\ queue' = <<>> /\ reader' = "closed"
  /\ UNCHANGED <<client, mode, lineVars, cancelled, loopVars>>

-----------------------------------------------------------------------------
(* agentLoop *)

(* Mutant: no tail is held back. *)
SafeLenWhole(full) == Len(full)

SafeLen(full) ==
  IF Len(full) < Len(Marker) - 1 THEN 0 ELSE Len(full) - (Len(Marker) - 1)

(* A chunk becomes an event: %q writes half a character as \xNN, which is not
   JSON, and the browser skips an event that does not parse. *)
writeSSEAgentLoop(text) ==
  /\ shown' = shown \o text
  /\ received' = IF WholeCharacters(text) THEN received \o text ELSE received

(* What is passed on of a chunk. *)
Process(text) ==
  LET full == buffer \o text
      upTo == IF MarkedAt(full) # {} THEN Len(Before(full)) ELSE SafeLen(full)
  IN  IF mode = "plain" THEN /\ writeSSEAgentLoop(text)
                             /\ buffer' = full
                             /\ UNCHANGED <<blocked, streamedUp>>
      ELSE IF blocked THEN UNCHANGED <<shown, received, sanitizer>>
      ELSE IF mode = "collecting"
      THEN buffer' = full /\ UNCHANGED <<shown, received, blocked, streamedUp>>
      ELSE /\ buffer' = full
           /\ blocked' = (MarkedAt(full) # {})
           /\ streamedUp' = IF upTo > streamedUp THEN upTo ELSE streamedUp
           /\ writeSSEAgentLoop(From(SubSeq(full, 1, upTo), streamedUp))

VisibleContent ==
  IF mode = "plain" THEN buffer
  ELSE IF mode = "flow" THEN Before(buffer)
  ELSE EnforceSingleQuestion(Before(buffer))

(* The rest of the text, if it was not blocked by a marker. *)
Flush ==
  /\ stage = "flush"
  /\ stage' = "end"
  /\ visible' = VisibleContent
  /\ writeSSEAgentLoop(IF mode = "plain" \/ blocked THEN <<>>
                       ELSE From(VisibleContent, streamedUp))
  /\ UNCHANGED <<client, mode, lineVars, queue, reader, cancelled, sanitizer,
                 toolCalls>>

(* for chunk := range llmCh *)
ReadChunk ==
  /\ stage = "read" /\ queue # <<>>
  /\ LET chunk == Head(queue) IN
       /\ IF chunk.content = <<>> THEN UNCHANGED <<shown, received, sanitizer>>
                                  ELSE Process(chunk.content)
       /\ toolCalls' = toolCalls \union chunk.call
       /\ stage' = IF chunk.done THEN "flush" ELSE "read"
  /\ queue' = Tail(queue)
  /\ UNCHANGED <<client, mode, lineVars, reader, cancelled, visible>>

ReadClosed ==
  /\ stage = "read" /\ queue = <<>> /\ reader = "closed"
  /\ stage' = "flush"
  /\ UNCHANGED <<client, mode, lineVars, queue, reader, cancelled, sanitizer,
                 toolCalls, shown, received, visible>>

(* A send to outCh finds ctx done. *)
Return ==
  /\ cancelled /\ reader \in {"scan", "closed"}
  /\ stage \in {"read", "flush"}
  /\ stage' = "gone"
  /\ UNCHANGED <<client, mode, lineVars, queue, reader, cancelled, sanitizer,
                 toolCalls, shown, received, visible>>

-----------------------------------------------------------------------------
ModelStreamInit ==
  /\ client \in Clients /\ mode \in Modes
  /\ sent = <<>> /\ fragments = [i \in Indexes |-> <<>>]
  /\ body = "open" /\ acc = [i \in Indexes |-> <<>>]
  /\ queue = <<>> /\ reader = "ask" /\ cancelled = FALSE
  /\ buffer = <<>> /\ blocked = FALSE /\ streamedUp = 0
  /\ toolCalls = {} /\ stage = "read"
  /\ shown = <<>> /\ received = <<>> /\ visible = <<>>

ClientStep ==
  \/ \E text \in Texts, last \in BOOLEAN :
       \/ \E of \in SUBSET Indexes : OpenAILine(text, of, last)
       \/ KimiLine(text, last)
       \/ GeminiLine(text, last)
       \/ OllamaLine(text, last)
  \/ Stream \/ Cut \/ Close \/ GiveUp

LoopStep == ReadChunk \/ ReadClosed \/ Flush \/ Return

ModelStreamNext == ClientStep \/ LoopStep \/ Cancel

ModelStreamSpec == ModelStreamInit /\ [][ModelStreamNext]_modelStreamVars

-----------------------------------------------------------------------------
(* However the text is cut into lines, and wherever the connection is lost,
   the user is shown what comes before the flow-state block, no letter of the
   marker and no letter twice, and the answer is stored as it was shown
   (agent_loop.go:30-112, 170-220). *)
IsPrefixOf(s, t) == Len(s) <= Len(t) /\ SubSeq(t, 1, Len(s)) = s
Expected ==
  IF mode = "plain" THEN sent
  ELSE IF mode = "flow" THEN Before(sent)
  ELSE EnforceSingleQuestion(Before(sent))
TextIsWhole ==
  /\ mode # "collecting" /\ (stage = "read" \/ ~ cancelled) =>
       IsPrefixOf(shown, Expected)
  /\ stage = "end" => visible = shown /\ (cancelled \/ shown = Expected)

(* A browser has the text it was shown.  Only the sanitizer of a flow that does
   not collect counts bytes and may cut a character in two, and then the events
   with its halves are skipped (agent_loop.go:57-62, stream.go:145-150). *)
TextIsReceived ==
  stage = "end" => \/ received = shown
                   \/ mode = "flow" /\ \E i \in DOMAIN shown : shown[i] = Lead

(* A tool is never called with a part of its arguments, and none of the calls
   is missed: a stream that is cut leaves no call
   (openai_compatible.go:125-236). *)
CallsAreWhole ==
  /\ \A call \in toolCalls : body = "over" /\ call.args = fragments[call.index]
  /\ stage = "end" /\ body = "over" /\ ~ cancelled =>
       {call.index : call \in toolCalls}
         = {i \in Indexes : fragments[i] # <<>>}

(* What a provider sent is what the turn goes on with and the user reads. *)
ResponseIsWhole == TextIsWhole /\ TextIsReceived /\ CallsAreWhole
=============================================================================
