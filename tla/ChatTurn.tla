------------------------------ MODULE ChatTurn -------------------------------
(***************************************************************************)
(* What the goroutines of one chat turn of agent-service share:            *)
(*  - the HTTP handler (handler/stream.go, handler/chat.go), which calls    *)
(*    Orchestrator.Chat and then reads the channel it returned;             *)
(*  - the goroutine behind that channel, agentLoop or websiteAgentLoop;     *)
(*  - the goroutine of the provider client behind llmCh;                    *)
(*  - the goroutine of ExtractMemory;                                       *)
(*  - the client, which may leave (so does the gateway, after 300 seconds). *)
(* All of them work under the context of the request, which net/http        *)
(* cancels when the client leaves and when the handler returns.             *)
(*                                                                         *)
(* outCh is unbuffered: a send and the receive that meets it are one step,  *)
(* and so is the event the handler writes for it.                           *)
(***************************************************************************)
EXTENDS Integers

CONSTANTS
  MaxAgentIterations,       \* 10 in agent_loop.go
  MaxToolCalls,             \* bound: tool calls in one answer of the model
  MaxWebsiteAttempts,       \* 1 + maxWebsiteContinuations: 5
  MaxWebsiteRepairAttempts  \* 2

ASSUME ConstantsAssumption ==
  /\ MaxAgentIterations \in Nat \ {0}
  /\ MaxToolCalls \in Nat \ {0}
  /\ MaxWebsiteAttempts \in Nat \ {0}
  /\ MaxWebsiteRepairAttempts \in Nat

VARIABLES
  via,      \* "sse" (stream.go) or "json" (handleChatMessage)
  mode,     \* what Chat chose: "none", "chat", "website", "temporal"
  client,   \* "connected" or "left"
  handler,  \* where the handler goroutine is
  at,       \* where Chat, and then the goroutine behind outCh, is
  out,      \* outCh: "none", "open", "closed"
  llm,      \* llmCh and the provider goroutine: "none", "open", "closed"
  wire,     \* the events a connected client was sent
  reply,    \* handleChatMessage: the message it answers with
  memory,   \* the goroutine of ExtractMemory
  rows,     \* what the turn has in the database
  faulted   \* a statement failed although the context was live

turnVars == <<via, mode, client, handler, at, out, llm, wire, reply, memory,
              rows, faulted>>

(* The request's context. *)
Cancelled == client = "left" \/ handler = "returned"

(* A statement under the request's context; a cancelled context fails it. *)
Execute(new) ==
  \/ ~Cancelled /\ rows' = new /\ UNCHANGED faulted
  \/ ~Cancelled /\ faulted' = TRUE /\ UNCHANGED rows
  \/ Cancelled /\ UNCHANGED <<rows, faulted>>

Succeeded(new) == rows' = new /\ rows # new

-----------------------------------------------------------------------------
(* writeSSEAgentLoop, handleChatMessage: a chunk meets the handler; Done ends
   the loop. *)
AfterStream == IF via = "sse" THEN "remembering" ELSE "loading"

Told(event) ==
  IF client = "connected" /\ via = "sse"
  THEN [last |-> event, seen |-> wire.seen \union {event}]
  ELSE wire

Deliver(event, done) ==
  /\ handler = "receiving"
  /\ handler' = IF done THEN AfterStream ELSE "receiving"
  /\ wire' = Told(event)

(* select { case outCh <- chunk: ... case <-ctx.Done(): ... } *)
Offer(event, done, next, otherwise) ==
  \/ Deliver(event, done) /\ at' = next
  \/ Cancelled /\ at' = otherwise /\ UNCHANGED <<handler, wire>>

(* Mutant: the channel is left open. *)
CloseOutForgotten ==
  /\ at = "close"
  /\ at' = "closed"
  /\ UNCHANGED <<via, mode, client, handler, out, llm, wire, reply, memory,
                 rows, faulted>>

(* defer close(outCh) *)
CloseOut ==
  /\ at = "close"
  /\ at' = "closed"
  /\ out' = "closed"
  /\ UNCHANGED <<via, mode, client, handler, llm, wire, reply, memory, rows,
                 faulted>>

-----------------------------------------------------------------------------
(* The handler finds the channel closed without having seen a Done. *)
StreamClosed ==
  /\ handler = "receiving"
  /\ out = "closed"
  /\ handler' = AfterStream
  /\ UNCHANGED <<via, mode, client, at, out, llm, wire, reply, memory, rows,
                 faulted>>

(* ExtractMemory, called by the handler of a stream: the history is loaded and
   the extractor is started in a goroutine. *)
Remember ==
  /\ handler = "remembering"
  /\ handler' = "returning"
  /\ \/ ~Cancelled /\ memory' = "extracting" /\ UNCHANGED faulted
     \/ ~Cancelled /\ faulted' = TRUE /\ UNCHANGED memory
     \/ Cancelled /\ UNCHANGED <<memory, faulted>>
  /\ UNCHANGED <<via, mode, client, at, out, llm, wire, reply, rows>>

(* The last assistant message of the conversation: of this turn, or an
   earlier one if the turn has stored none. *)
LastAssistantMessage ==
  IF rows.answer # "none" THEN "answer"
  ELSE IF rows.calls > 0 THEN "tool calls" ELSE "earlier"

(* handleChatMessage reads the conversation back and answers with its last
   assistant message; ExtractMemory as a whole is a goroutine here. *)
Answer ==
  /\ handler = "loading"
  /\ handler' = "returning"
  /\ \/ ~Cancelled /\ reply' = LastAssistantMessage /\ memory' = "loading"
        /\ UNCHANGED faulted
     \/ ~Cancelled /\ faulted' = TRUE /\ UNCHANGED <<reply, memory>>
     \/ Cancelled /\ UNCHANGED <<reply, memory, faulted>>
  /\ UNCHANGED <<via, mode, client, at, out, llm, wire, rows>>

(* net/http cancels the context of a request whose handler has returned. *)
Return ==
  /\ handler = "returning"
  /\ handler' = "returned"
  /\ UNCHANGED <<via, mode, client, at, out, llm, wire, reply, memory, rows,
                 faulted>>

(* The goroutine of ExtractMemory and ExtractAndSave: a cancelled context
   fails the queries and the model call it makes. *)
Extract ==
  /\ memory \in {"loading", "extracting"}
  /\ IF Cancelled THEN memory' = "lost"
     ELSE memory' = IF memory = "loading" THEN "extracting" ELSE "saved"
  /\ UNCHANGED <<via, mode, client, handler, at, out, llm, wire, reply, rows,
                 faulted>>

-----------------------------------------------------------------------------
(* The client goes away, or the gateway's timeout cancels the request. *)
ClientLeaves ==
  /\ client = "connected"
  /\ handler # "returned"
  /\ client' = "left"
  /\ UNCHANGED <<via, mode, handler, at, out, llm, wire, reply, memory, rows,
                 faulted>>

(* The provider's stream breaks off, or the context is cancelled: the client
   goroutine closes llmCh without a Done chunk. *)
StreamBreaks ==
  /\ llm = "open"
  /\ llm' = "closed"
  /\ UNCHANGED <<via, mode, client, handler, at, out, wire, reply, memory,
                 rows, faulted>>

(* usage.Tracker.Record: the log row, then the daily rollup. *)
LogUsage(otherwise) ==
  /\ at = "logUsage"
  /\ LET new == [rows EXCEPT !.log = TRUE] IN
       /\ Execute(new)
       /\ at' = IF Succeeded(new) THEN "rollup" ELSE otherwise
  /\ UNCHANGED <<via, mode, client, handler, out, llm, wire, reply, memory>>

IncrementDailyUsage(next) ==
  /\ at = "rollup"
  /\ Execute([rows EXCEPT !.rollup = TRUE])
  /\ at' = next
  /\ UNCHANGED <<via, mode, client, handler, out, llm, wire, reply, memory>>
=============================================================================
