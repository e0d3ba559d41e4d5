------------------------------ MODULE AgentTurn ------------------------------
(***************************************************************************)
(* One chat turn of agent-service, from the request to the last goroutine   *)
(* it leaves behind: Orchestrator.Chat, the loop it starts, the handler     *)
(* that reads the loop's events, and the extraction of memories.            *)
(***************************************************************************)
EXTENDS AgentLoop, WebsiteLoop

vars == <<turnVars, round, history, site>>

NoRows == [conv |-> FALSE, user |-> FALSE, calls |-> 0, tools |-> 0,
           answer |-> "none", state |-> FALSE, artifact |-> FALSE,
           files |-> FALSE, log |-> FALSE, rollup |-> FALSE]

(* A request for an existing conversation, or for a new one. *)
Init ==
  /\ via \in {"sse", "json"}
  /\ mode = "none"
  /\ client = "connected"
  /\ handler = "calling"
  /\ at = "load"
  /\ out = "none"
  /\ llm = "none"
  /\ wire = [last |-> "none", seen |-> {}]
  /\ reply = "none"
  /\ memory = "off"
  /\ rows \in {NoRows, [NoRows EXCEPT !.conv = TRUE]}
  /\ faulted = FALSE
  /\ round = NoRound
  /\ history = [calls |-> 0, tools |-> 0]
  /\ site = NoSite

-----------------------------------------------------------------------------
(* Chat returns an error: an SSE event, or a JSON error. *)
Refuse ==
  /\ at' = "refused"
  /\ handler' = "returning"
  /\ wire' = Told("error")

Proceed(next) == at' = next /\ UNCHANGED <<handler, wire>>

(* The conversation is loaded and its owner checked, or created. *)
LoadConversation ==
  /\ at = "load"
  /\ \/ /\ rows.conv
        /\ (~Cancelled /\ Proceed("saveUser")) \/ Refuse
        /\ UNCHANGED <<rows, faulted>>
     \/ /\ ~rows.conv
        /\ LET new == [rows EXCEPT !.conv = TRUE] IN
             /\ Execute(new)
             /\ IF Succeeded(new) THEN Proceed("saveUser") ELSE Refuse
  /\ UNCHANGED <<via, mode, client, out, llm, reply, memory>>

SaveUserMessage ==
  /\ at = "saveUser"
  /\ LET new == [rows EXCEPT !.user = TRUE] IN
       /\ Execute(new)
       /\ IF Succeeded(new) THEN Proceed("route") ELSE Refuse
  /\ UNCHANGED <<via, mode, client, out, llm, reply, memory>>

(* No history, no agent, or a model that cannot make websites. *)
CannotRoute ==
  /\ at = "route"
  /\ Refuse
  /\ UNCHANGED <<via, mode, client, out, llm, reply, memory, rows, faulted>>

(* DetectTemporalQuery: answered without a model.  That the answer could not
   be stored is only logged. *)
RespondTemporal ==
  /\ at = "route"
  /\ mode' = "temporal"
  /\ Execute([rows EXCEPT !.answer = "text"])
  /\ at' = "temporal"
  /\ UNCHANGED <<via, client, handler, out, llm, wire, reply, memory>>

(* Chat returns a channel. *)
Opened(next) ==
  /\ out' = "open"
  /\ handler' = "receiving"
  /\ at' = next

ReturnTemporal ==
  /\ at = "temporal"
  /\ Opened("temporalText")
  /\ UNCHANGED <<via, mode, client, llm, wire, reply, memory, rows, faulted>>

(* Two chunks in a buffered channel that is closed behind them. *)
DeliverTemporal ==
  /\ \/ at = "temporalText" /\ Deliver("content", FALSE)
        /\ at' = "temporalDone" /\ UNCHANGED out
     \/ at = "temporalDone" /\ Deliver("finished", TRUE)
        /\ at' = "closed" /\ out' = "closed"
  /\ UNCHANGED <<via, mode, client, llm, reply, memory, rows, faulted>>

(* The history is read, and one of the loops started. *)
StartWebsiteLoop ==
  /\ at = "route"
  /\ ~Cancelled
  /\ mode' = "website"
  /\ Opened("begin")
  /\ UNCHANGED <<via, client, llm, wire, reply, memory, rows, faulted>>

StartAgentLoop ==
  /\ at = "route"
  /\ ~Cancelled
  /\ mode' = "chat"
  /\ Opened("ask")
  /\ \E flow \in BOOLEAN : round' = [round EXCEPT !.flow = flow]
  /\ UNCHANGED <<via, client, llm, wire, reply, memory, rows, faulted>>

-----------------------------------------------------------------------------
Chat ==
  \/ /\ \/ LoadConversation \/ SaveUserMessage \/ CannotRoute
        \/ RespondTemporal \/ ReturnTemporal \/ DeliverTemporal
        \/ StartWebsiteLoop
     /\ UNCHANGED <<round, history, site>>
  \/ StartAgentLoop /\ UNCHANGED <<history, site>>

Loop ==
  \/ mode = "chat" /\ AgentLoopStep /\ UNCHANGED site
  \/ mode = "website" /\ WebsiteLoopStep /\ UNCHANGED <<round, history>>

Handler == StreamClosed \/ Remember \/ Answer \/ Return

HandlerStep == Handler /\ UNCHANGED <<round, history, site>>
ExtractStep == Extract /\ UNCHANGED <<round, history, site>>
ClientStep == ClientLeaves /\ UNCHANGED <<round, history, site>>
ProviderStep == StreamBreaks /\ UNCHANGED <<round, history, site>>

Next ==
  Chat \/ Loop \/ HandlerStep \/ ExtractStep \/ ClientStep \/ ProviderStep

Spec == Init /\ [][Next]_vars

(* Goroutines are scheduled; database and model calls return, the latter when
   their context is cancelled; the gateway cancels a request after 300 s, which
   is a client that leaves. *)
Fairness ==
  /\ WF_vars(Chat)
  /\ WF_vars(Loop)
  /\ WF_vars(HandlerStep)
  /\ WF_vars(ExtractStep)
  /\ WF_vars(ClientStep)
  /\ WF_vars(Cancelled /\ ProviderStep)

FairSpec == Spec /\ Fairness

-----------------------------------------------------------------------------
Events == {"content", "progress", "tool_start", "tool_result", "artifact",
           "error", "finished"}

ChatPlaces == {"load", "saveUser", "route", "refused", "temporal",
               "temporalText", "temporalDone"}
LoopPlaces == {"ask", "read", "emit", "flush", "decide", "announce",
               "toolStart", "toolResult", "saveCalls", "saveTool",
               "saveAnswer", "saveState", "logUsage", "rollup", "finish",
               "fail", "close", "closed"}
SitePlaces == {"begin", "attempt", "siteRead", "siteEmit", "siteFail",
               "check", "continue", "extract", "parse", "repair",
               "apologise", "sorry", "saveArtifact", "saveFiles",
               "saveSummary", "show", "siteDone"}

Rows == [conv : BOOLEAN, user : BOOLEAN, calls : Nat, tools : Nat,
         answer : {"none", "text", "summary", "artifact", "apology"},
         state : BOOLEAN, artifact : BOOLEAN, files : BOOLEAN,
         log : BOOLEAN, rollup : BOOLEAN]

Rounds == [iter : 0..MaxAgentIterations, calls : 0..MaxToolCalls,
           next : 0..MaxToolCalls, flow : BOOLEAN, retried : BOOLEAN,
           exhausted : BOOLEAN]

Sites == [attempt : 0..MaxWebsiteAttempts, got : BOOLEAN,
          files : {"none", "invalid", "valid"}, html : BOOLEAN,
          repairs : 0..MaxWebsiteRepairAttempts, artifact : BOOLEAN]

Handlers == {"calling", "receiving", "remembering", "loading", "returning",
             "returned"}
Places == ChatPlaces \union LoopPlaces \union SitePlaces
Wires == [last : Events \union {"none"}, seen : SUBSET Events]

TurnTypeOK ==
  /\ via \in {"sse", "json"}
  /\ mode \in {"none", "chat", "website", "temporal"}
  /\ client \in {"connected", "left"}
  /\ handler \in Handlers
  /\ at \in Places
  /\ out \in {"none", "open", "closed"}
  /\ llm \in {"none", "open", "closed"}
  /\ wire \in Wires
  /\ reply \in {"none", "answer", "tool calls", "earlier"}
  /\ memory \in {"off", "loading", "extracting", "saved", "lost"}
  /\ rows \in Rows
  /\ faulted \in BOOLEAN

(* Every variable has its type; in particular the loop stays within its
   iterations and the website's loop within its attempts and repairs. *)
TypeOK ==
  /\ TurnTypeOK
  /\ round \in Rounds
  /\ history \in [calls : Nat, tools : Nat]
  /\ site \in Sites

(* A stream that told its client it was finished, short of the last iteration
   and without a database error, has its answer stored; one that had a model
   behind it, and more to say than an apology, has been counted too, in the log
   and in the daily rollup (agent_loop.go stores, records, and only then sends
   Done). *)
FinishedTurnIsRecorded ==
  "finished" \in wire.seen /\ ~round.exhausted /\ ~faulted =>
    /\ rows.answer # "none"
    /\ mode # "temporal" /\ rows.answer # "apology" => rows.log /\ rows.rollup

(* What a turn leaves in the database when it is cancelled, wherever that is,
   is the beginning of what it would have left: no rollup without its log, no
   usage or flow state without the answer, no answer without the tool calls and
   the results it rests on, nor without the files it presents. *)
NoHoles ==
  ~faulted =>
    /\ rows.rollup => rows.log
    /\ rows.log \/ rows.state => rows.answer # "none"
    /\ mode = "chat" /\ rows.answer # "none" =>
         rows.calls = history.calls /\ rows.tools = history.tools
    /\ mode = "website" /\ rows.answer # "none" =>
         /\ site.html \/ site.files = "valid" => rows.artifact
         /\ site.files = "valid" => rows.files

(* An artifact that is announced, or that the stored answer refers to, is in
   the database with every file of it, and passed the validation of
   websiteAgentLoop: whatever failed on the way, or was cancelled. *)
ArtifactShownIsWhole ==
  "artifact" \in wire.seen \/ rows.answer = "artifact" =>
    /\ rows.artifact
    /\ site.files # "invalid"
    /\ site.files = "valid" => rows.files

(* A client that is still there when the handler stops reading has been told
   that the turn is finished or that it failed: writeSSEAgentLoop relies on the
   loop for it and adds nothing of its own. *)
StreamTellsItsEnd ==
  via = "sse" /\ client = "connected"
    /\ handler \in {"remembering", "returning", "returned"} =>
      {"finished", "error"} \intersect wire.seen # {}

(* Short of the last iteration, a turn has written all it will write when the
   handler stops reading: what came later would race the cancellation of the
   request's context, and the answer that handleChatMessage reads back. *)
NothingWritesLate ==
  handler \notin {"calling", "receiving"} /\ ~round.exhausted => UNCHANGED rows
WritesPrecedeTheEnd == [][NothingWritesLate]_vars

(* A client is told that a turn is over when it is: all that the turn records
   was recorded before, and nothing is written after. *)
TheEndComesLast == [][FinishedTurnIsRecorded' /\ NothingWritesLate]_vars

(* The events a client sees and the answer that is stored follow the protocol
   of a turn. *)
Phase ==
  IF client = "left" \/ at = "refused" \/ handler = "returned" THEN "over"
  ELSE IF handler = "calling" THEN "pending"
  ELSE CASE wire.last = "tool_start" -> "tool"
         [] wire.last = "tool_result" -> "result"
         [] wire.last = "finished" -> "finished"
         [] OTHER -> "open"

Protocol == INSTANCE TurnProtocol WITH
              phase <- Phase, stored <- rows.answer # "none"
TurnFollowsProtocol == Protocol!Spec

(* Every turn ends whatever its client, its model and its database do: the
   handler returns, and neither the loop, nor the provider's goroutine, nor the
   extraction of memories is left behind. *)
TurnEnds ==
  <>(/\ handler = "returned"
     /\ at \in {"closed", "refused"}
     /\ llm # "open"
     /\ memory \notin {"loading", "extracting"})

-----------------------------------------------------------------------------
(* docs/swagger-testing-guide-es.md:42: "Todo se guarda como mensajes en la
   conversacion".  A turn that finished without a database error and whose client
   stayed has its answer in the conversation when all of it is over. *)
EverythingIsStored ==
  "finished" \in wire.seen /\ client = "connected" /\ ~faulted
    /\ handler = "returned" /\ at = "closed" => rows.answer # "none"
=============================================================================
