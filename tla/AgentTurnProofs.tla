--------------------------- MODULE AgentTurnProofs ---------------------------
(***************************************************************************)
(* The safety properties of AgentTurn, and that it implements TurnProtocol, *)
(* for any number of iterations, tool calls, attempts and repairs.         *)
(*                                                                         *)
(* StoredInv is inductive: the rows a place comes with while the context   *)
(* lives (LiveInv), where a turn can be when it has them (PlaceInv), and   *)
(* what is left of that when the context has died (NoHoles).  The order of *)
(* events needs EndInv, ToldInv, FinishInv and LastInv beside it.  That a  *)
(* turn runs down is a variant: four numbers are left of it (WorkOK), and  *)
(* every step but the reading of a stream lowers them in lexical order.    *)
(***************************************************************************)
EXTENDS AgentTurn, FiniteSetTheorems, WellFoundedInduction, TLAPS

(* What no step of a loop changes, but for the end of it. *)
turnOthers == <<via, mode, client, out, reply, memory>>

-----------------------------------------------------------------------------
(* The events by name. *)
LEMMA EventsOK ==
  /\ "content" \in Events /\ "progress" \in Events /\ "tool_start" \in Events
  /\ "tool_result" \in Events /\ "artifact" \in Events
  /\ "error" \in Events /\ "finished" \in Events
BY DEF Events

(* The sets of TurnTypeOK by name. *)
Vias == {"sse", "json"}
Modes == {"none", "chat", "website", "temporal"}
Ends == {"connected", "left"}
Streams == {"none", "open", "closed"}
Replies == {"none", "answer", "tool calls", "earlier"}
Memories == {"off", "loading", "extracting", "saved", "lost"}
Typed ==
  /\ via \in Vias /\ mode \in Modes /\ client \in Ends
  /\ handler \in Handlers /\ at \in Places
  /\ out \in Streams /\ llm \in Streams /\ wire \in Wires
  /\ reply \in Replies /\ memory \in Memories
  /\ rows \in Rows /\ faulted \in BOOLEAN

(* It is the same with the names, before a step and after. *)
LEMMA TypedIs == (TurnTypeOK <=> Typed) /\ (TurnTypeOK' <=> Typed')
BY DEF TurnTypeOK, Typed, Vias, Modes, Ends, Streams, Replies, Memories

(* What the actions assign is in these sets. *)
LEMMA TypeNames ==
  /\ "open" \in Streams /\ "closed" \in Streams
  /\ "chat" \in Modes /\ "website" \in Modes /\ "temporal" \in Modes
  /\ "left" \in Ends /\ LastAssistantMessage \in Replies
  /\ "loading" \in Memories /\ "extracting" \in Memories
  /\ "saved" \in Memories /\ "lost" \in Memories
  /\ "receiving" \in Handlers /\ AfterStream \in Handlers
  /\ "returning" \in Handlers /\ "returned" \in Handlers
BY DEF Streams, Modes, Ends, Replies, Memories, Handlers, AfterStream,
       LastAssistantMessage

(* Types: first what the shared operators do to them. *)

(* A step of the goroutine that only moves. *)
LEMMA MoveKeepsTypes ==
  ASSUME TurnTypeOK, at' \in Places, UNCHANGED turnOthers,
         UNCHANGED <<handler, wire, llm, rows, faulted>>
  PROVE  TurnTypeOK'
<1>1. /\ handler' \in Handlers /\ wire' \in Wires
      /\ rows' \in Rows /\ faulted' \in BOOLEAN
  BY DEF TurnTypeOK
<1> QED
  BY <1>1, TypedIs DEF turnOthers, Typed

(* The rows a statement may leave are rows. *)
LEMMA RowsAreRows ==
  ASSUME rows \in Rows
  PROVE  /\ [rows EXCEPT !.calls = @ + 1] \in Rows
         /\ [rows EXCEPT !.tools = @ + 1] \in Rows
         /\ \A answer \in {"text", "summary", "artifact", "apology"} :
              [rows EXCEPT !.answer = answer] \in Rows
         /\ [rows EXCEPT !.conv = TRUE] \in Rows
         /\ [rows EXCEPT !.user = TRUE] \in Rows
         /\ [rows EXCEPT !.state = TRUE] \in Rows
         /\ [rows EXCEPT !.artifact = TRUE] \in Rows
         /\ [rows EXCEPT !.files = TRUE] \in Rows
         /\ [rows EXCEPT !.log = TRUE] \in Rows
         /\ [rows EXCEPT !.rollup = TRUE] \in Rows
<1>1. /\ [rows EXCEPT !.calls = @ + 1] \in Rows
      /\ [rows EXCEPT !.tools = @ + 1] \in Rows
  BY DEF Rows
<1>2. \A answer \in {"text", "summary", "artifact", "apology"} :
         [rows EXCEPT !.answer = answer] \in Rows
  BY DEF Rows
<1>3. /\ [rows EXCEPT !.conv = TRUE] \in Rows
      /\ [rows EXCEPT !.user = TRUE] \in Rows
      /\ [rows EXCEPT !.state = TRUE] \in Rows
      /\ [rows EXCEPT !.artifact = TRUE] \in Rows
  BY DEF Rows
<1>4. /\ [rows EXCEPT !.files = TRUE] \in Rows
      /\ [rows EXCEPT !.log = TRUE] \in Rows
      /\ [rows EXCEPT !.rollup = TRUE] \in Rows
  BY DEF Rows
<1> QED
  BY <1>1, <1>2, <1>3, <1>4

(* A step that executes a statement. *)
LEMMA ExecuteKeepsTypes ==
  ASSUME TurnTypeOK, NEW new \in Rows, Execute(new), at' \in Places,
         UNCHANGED turnOthers, UNCHANGED <<handler, wire, llm>>
  PROVE  TurnTypeOK'
<1>1. rows' \in Rows /\ faulted' \in BOOLEAN
  BY DEF Execute, TurnTypeOK
<1> QED
  BY <1>1, TypedIs DEF turnOthers, Typed

(* A step that offers an event. *)
LEMMA ToldType ==
  ASSUME TurnTypeOK, NEW event \in Events
  PROVE  Told(event) \in Wires
BY DEF Told, TurnTypeOK, Wires

(* A step that offers an event, whichever branch of the select it takes. *)
LEMMA OfferKeepsTypes ==
  ASSUME TurnTypeOK, NEW event \in Events, NEW done \in BOOLEAN,
         NEW next \in Places, NEW otherwise \in Places,
         Offer(event, done, next, otherwise),
         UNCHANGED turnOthers, UNCHANGED <<llm, rows, faulted>>
  PROVE  TurnTypeOK'
<1>1. CASE Deliver(event, done) /\ at' = next
  <2>1. handler' \in Handlers
    BY <1>1 DEF Deliver, AfterStream, Handlers
  <2>2. wire' \in Wires
    BY <1>1, ToldType DEF Deliver
  <2> QED
    BY <1>1, <2>1, <2>2, TypedIs DEF turnOthers, Typed
<1>2. CASE Cancelled /\ at' = otherwise /\ UNCHANGED <<handler, wire>>
  BY <1>2, MoveKeepsTypes
<1> QED
  BY <1>1, <1>2 DEF Offer

(* The places of agentLoop by name. *)
LEMMA LoopPlacesOK ==
  /\ "ask" \in Places
  /\ "read" \in Places
  /\ "emit" \in Places
  /\ "flush" \in Places
  /\ "decide" \in Places
  /\ "announce" \in Places
  /\ "toolStart" \in Places
  /\ "toolResult" \in Places
  /\ "saveCalls" \in Places
  /\ "saveTool" \in Places
  /\ "saveAnswer" \in Places
  /\ "saveState" \in Places
  /\ "logUsage" \in Places
  /\ "rollup" \in Places
  /\ "finish" \in Places
  /\ "fail" \in Places
  /\ "close" \in Places
  /\ "closed" \in Places
BY DEF Places, LoopPlaces

(* The places of websiteAgentLoop by name. *)
LEMMA SitePlacesOK ==
  /\ "begin" \in Places
  /\ "attempt" \in Places
  /\ "siteRead" \in Places
  /\ "siteEmit" \in Places
  /\ "siteFail" \in Places
  /\ "check" \in Places
  /\ "continue" \in Places
  /\ "extract" \in Places
  /\ "parse" \in Places
  /\ "repair" \in Places
  /\ "apologise" \in Places
  /\ "sorry" \in Places
  /\ "saveArtifact" \in Places
  /\ "saveFiles" \in Places
  /\ "saveSummary" \in Places
  /\ "show" \in Places
  /\ "siteDone" \in Places
  /\ "logUsage" \in Places
  /\ "rollup" \in Places
  /\ "close" \in Places
  /\ "closed" \in Places
BY DEF Places, SitePlaces, LoopPlaces

(* The places of Chat by name, and those it starts a loop at. *)
LEMMA ChatPlacesOK ==
  /\ "load" \in Places
  /\ "saveUser" \in Places
  /\ "route" \in Places
  /\ "refused" \in Places
  /\ "temporal" \in Places
  /\ "temporalText" \in Places
  /\ "temporalDone" \in Places
  /\ "closed" \in Places
  /\ "begin" \in Places
  /\ "ask" \in Places
BY DEF Places, ChatPlaces, LoopPlaces, SitePlaces

(* A step that keeps the types of what it may change keeps all of them. *)
LEMMA AgentLoopTurn ==
  ASSUME TurnTypeOK, AgentLoopStep
  PROVE  TurnTypeOK'
<1> USE LoopPlacesOK, EventsOK DEF turnOthers
<1>1. CASE AskModel
  BY <1>1, TypedIs, TypeNames DEF AskModel, Typed
<1>2. CASE ReadContent
  BY <1>2, TypedIs DEF ReadContent, Typed
<1>3. CASE EmitContent
  BY <1>3, OfferKeepsTypes DEF EmitContent
<1>4. CASE ReadToolCall
  BY <1>4, TypedIs DEF ReadToolCall, turnVars, Typed
<1>5. CASE ReadDone
  BY <1>5, TypedIs, TypeNames DEF ReadDone, Typed
<1>6. CASE ReadClosed
  BY <1>6, TypedIs DEF ReadClosed, Typed
<1>7. CASE Flush
  BY <1>7, OfferKeepsTypes, MoveKeepsTypes DEF Flush
<1>8. CASE Decide
  BY <1>8, TypedIs, TypeNames DEF Decide, Typed
<1>9. CASE AnnounceRetry
  BY <1>9, OfferKeepsTypes DEF AnnounceRetry
<1>10. CASE StartTool
  BY <1>10, OfferKeepsTypes DEF StartTool
<1>11. CASE ReportTool
  BY <1>11, OfferKeepsTypes DEF ReportTool
<1>12. CASE SaveCalls
  BY <1>12, RowsAreRows, ExecuteKeepsTypes DEF SaveCalls, TurnTypeOK
<1>13. CASE SaveTool
  BY <1>13, RowsAreRows, ExecuteKeepsTypes DEF SaveTool, TurnTypeOK
<1>14. CASE Exhaust
  BY <1>14, OfferKeepsTypes DEF Exhaust
<1>15. CASE SaveAnswer
  BY <1>15, RowsAreRows, ExecuteKeepsTypes DEF SaveAnswer, TurnTypeOK
<1>16. CASE SaveState
  BY <1>16, RowsAreRows, ExecuteKeepsTypes DEF SaveState, TurnTypeOK
<1>17. CASE Finish
  BY <1>17, OfferKeepsTypes, MoveKeepsTypes DEF Finish
<1>18. CASE Fail
  BY <1>18, OfferKeepsTypes DEF Fail
<1>19. CASE RecordUsage
  BY <1>19, RowsAreRows, ExecuteKeepsTypes DEF RecordUsage, TurnTypeOK,
     LogUsage, IncrementDailyUsage
<1>20. CASE CloseOut
  BY <1>20, TypedIs, TypeNames DEF CloseOut, Typed
<1> QED
  BY <1>1, <1>2, <1>3, <1>4, <1>5, <1>6, <1>7, <1>8, <1>9, <1>10, <1>11,
     <1>12, <1>13, <1>14, <1>15, <1>16, <1>17, <1>18, <1>19,
     <1>20 DEF AgentLoopStep

(* The same of websiteAgentLoop. *)
LEMMA WebsiteLoopTurn ==
  ASSUME TurnTypeOK, WebsiteLoopStep
  PROVE  TurnTypeOK'
<1> USE SitePlacesOK, EventsOK DEF turnOthers, elsewhere
<1>1. CASE Begin
  BY <1>1, OfferKeepsTypes DEF Begin
<1>2. CASE Attempt
  BY <1>2, TypedIs, TypeNames DEF Attempt, Typed
<1>3. CASE SiteChunk
  BY <1>3, TypedIs DEF SiteChunk, Typed
<1>4. CASE SiteEmit
  BY <1>4, OfferKeepsTypes DEF SiteEmit
<1>5. CASE SiteClosed
  BY <1>5, TypedIs DEF SiteClosed, Typed
<1>6. CASE SiteFail
  BY <1>6, OfferKeepsTypes DEF SiteFail
<1>7. CASE Check
  BY <1>7, MoveKeepsTypes DEF Check
<1>8. CASE Continue
  BY <1>8, OfferKeepsTypes DEF Continue
<1>9. CASE AnnounceExtraction
  BY <1>9, OfferKeepsTypes DEF AnnounceExtraction
<1>10. CASE Parse
  BY <1>10, MoveKeepsTypes DEF Parse
<1>11. CASE Repair
  BY <1>11, OfferKeepsTypes, MoveKeepsTypes DEF Repair
<1>12. CASE Apologise
  BY <1>12, RowsAreRows, ExecuteKeepsTypes DEF Apologise, TurnTypeOK
<1>13. CASE Sorry
  BY <1>13, OfferKeepsTypes DEF Sorry
<1>14. CASE SaveArtifact
  BY <1>14, RowsAreRows, ExecuteKeepsTypes DEF SaveArtifact, TurnTypeOK
<1>15. CASE SaveFiles
  BY <1>15, RowsAreRows, ExecuteKeepsTypes DEF SaveFiles, TurnTypeOK
<1>16. CASE SaveSummary
  BY <1>16, RowsAreRows, ExecuteKeepsTypes DEF SaveSummary, TurnTypeOK
<1>17. CASE RecordSiteUsage
  BY <1>17, RowsAreRows, ExecuteKeepsTypes DEF RecordSiteUsage, TurnTypeOK,
     LogUsage,
          IncrementDailyUsage
<1>18. CASE Show
  BY <1>18, OfferKeepsTypes DEF Show
<1>19. CASE SiteDone
  BY <1>19, OfferKeepsTypes DEF SiteDone
<1>20. CASE CloseOut
  BY <1>20, TypedIs, TypeNames DEF CloseOut, Typed
<1> QED
  BY <1>1, <1>2, <1>3, <1>4, <1>5, <1>6, <1>7, <1>8, <1>9, <1>10, <1>11,
     <1>12, <1>13, <1>14, <1>15, <1>16, <1>17, <1>18, <1>19, <1>20
  DEF WebsiteLoopStep

(* Chat returns an error. *)
LEMMA RefuseKeepsTypes ==
  ASSUME TurnTypeOK, Refuse, rows' \in Rows, faulted' \in BOOLEAN,
         UNCHANGED turnOthers, UNCHANGED llm
  PROVE  TurnTypeOK'
<1>1. wire' \in Wires
  BY ToldType, EventsOK DEF Refuse
<1> QED
  BY <1>1, ChatPlacesOK, TypedIs, TypeNames DEF Refuse, turnOthers, Typed

(* A statement leaves rows. *)
LEMMA ExecuteRows ==
  ASSUME TurnTypeOK, NEW new \in Rows, Execute(new)
  PROVE  rows' \in Rows /\ faulted' \in BOOLEAN
BY DEF Execute, TurnTypeOK

(* The same of Chat. *)
LEMMA ChatTurnTypes ==
  ASSUME TurnTypeOK, Chat
  PROVE  TurnTypeOK'
<1> USE ChatPlacesOK
<1>1. CASE LoadConversation
  <2>1. [rows EXCEPT !.conv = TRUE] \in Rows
    BY RowsAreRows DEF TurnTypeOK
  <2>2. rows' \in Rows /\ faulted' \in BOOLEAN
    BY <1>1, <2>1, ExecuteRows DEF LoadConversation, TurnTypeOK
  <2>3. CASE Refuse
    BY <1>1, <2>2, <2>3, RefuseKeepsTypes DEF LoadConversation, turnOthers
  <2>4. CASE Proceed("saveUser")
    BY <1>1, <2>2, <2>4, TypedIs DEF LoadConversation, Proceed, Typed
  <2> QED
    BY <1>1, <2>3, <2>4 DEF LoadConversation
<1>2. CASE SaveUserMessage
  <2>1. [rows EXCEPT !.user = TRUE] \in Rows
    BY RowsAreRows DEF TurnTypeOK
  <2>2. rows' \in Rows /\ faulted' \in BOOLEAN
    BY <1>2, <2>1, ExecuteRows DEF SaveUserMessage
  <2>3. CASE Refuse
    BY <1>2, <2>2, <2>3, RefuseKeepsTypes DEF SaveUserMessage, turnOthers
  <2>4. CASE Proceed("route")
    BY <1>2, <2>2, <2>4, TypedIs DEF SaveUserMessage, Proceed, Typed
  <2> QED
    BY <1>2, <2>3, <2>4 DEF SaveUserMessage
<1>3. CASE CannotRoute
  BY <1>3, RefuseKeepsTypes DEF CannotRoute, turnOthers, TurnTypeOK
<1>4. CASE RespondTemporal
  <2>1. [rows EXCEPT !.answer = "text"] \in Rows
    BY RowsAreRows DEF TurnTypeOK
  <2>2. rows' \in Rows /\ faulted' \in BOOLEAN
    BY <1>4, <2>1, ExecuteRows DEF RespondTemporal
  <2> QED
    BY <1>4, <2>2, TypedIs, TypeNames DEF RespondTemporal, Typed
<1>5. CASE ReturnTemporal
  BY <1>5, TypedIs, TypeNames DEF ReturnTemporal, Opened, Typed
<1>6. CASE DeliverTemporal
  <2>1. handler' \in Handlers
    BY <1>6 DEF DeliverTemporal, Deliver, AfterStream, Handlers
  <2>2. wire' \in Wires
    BY <1>6, ToldType, EventsOK DEF DeliverTemporal, Deliver
  <2> QED
    BY <1>6, <2>1, <2>2, TypedIs, TypeNames DEF DeliverTemporal, Typed
<1>7. CASE StartWebsiteLoop
  BY <1>7, TypedIs, TypeNames DEF StartWebsiteLoop, Opened, Typed
<1>8. CASE StartAgentLoop
  BY <1>8, TypedIs, TypeNames DEF StartAgentLoop, Opened, Typed
<1> QED
  BY <1>1, <1>2, <1>3, <1>4, <1>5, <1>6, <1>7, <1>8 DEF Chat

(* The same of the handler, the extraction, the client and the provider. *)
LEMMA OthersTurn ==
  ASSUME TurnTypeOK, HandlerStep \/ ExtractStep \/ ClientStep \/ ProviderStep
  PROVE  TurnTypeOK'
<1> USE TypedIs DEF Typed
<1>1. CASE StreamClosed
  BY <1>1, TypeNames DEF StreamClosed, AfterStream
<1>2. CASE Remember
  BY <1>2, TypeNames DEF Remember
<1>3. CASE Answer
  BY <1>3, TypeNames DEF Answer, LastAssistantMessage
<1>4. CASE Return
  BY <1>4, TypeNames DEF Return
<1>5. CASE ExtractStep
  BY <1>5, TypeNames DEF ExtractStep, Extract
<1>6. CASE ClientStep
  BY <1>6, TypeNames DEF ClientStep, ClientLeaves
<1>7. CASE ProviderStep
  BY <1>7, TypeNames DEF ProviderStep, StreamBreaks
<1> QED
  BY <1>1, <1>2, <1>3, <1>4, <1>5, <1>6, <1>7 DEF HandlerStep, Handler

-----------------------------------------------------------------------------
(* The loops stay within their bounds because of where they may go on: an
   iteration has asked the model before the last one was used up, the call at
   hand is one of this answer, and an attempt is made only while there are
   some left. *)
Iterating == {"read", "emit", "flush", "decide", "announce", "toolStart",
              "toolResult", "saveCalls", "saveTool"}

CountInv ==
  /\ at \in Iterating => round.iter < MaxAgentIterations
  /\ at \in {"toolStart", "toolResult"} =>
       1 =< round.next /\ round.next =< round.calls
  /\ at = "saveCalls" => round.next = 0 /\ round.calls > 0
  /\ at = "saveTool" => round.next < round.calls
  /\ at \in {"begin", "continue", "attempt"} =>
       site.attempt < MaxWebsiteAttempts
  /\ at \in ChatPlaces \ {"refused"} => round = NoRound /\ site = NoSite

(* The next iteration, as long as there is one. *)
LEMMA IterateType ==
  ASSUME NEW r \in Rounds, r.iter < MaxAgentIterations
  PROVE  Iterate(r) \in Rounds
BY ConstantsAssumption DEF Iterate, Rounds

(* The helpers of websiteAgentLoop return local variables of it. *)
LEMMA SiteHelpersType ==
  ASSUME NEW s \in Sites
  PROVE  /\ Silent(s) \in Sites
         /\ \A files \in {"none", "invalid", "valid"} :
              WithFiles(s, files) \in Sites
BY DEF Silent, WithFiles, Sites

(* agentLoop's local variables: an iteration is counted only where CountInv
   leaves room for it, and a call only where one is left. *)
LEMMA NextRound ==
  ASSUME TypeOK, CountInv, AgentLoopStep
  PROVE  round' \in Rounds /\ history' \in [calls : Nat, tools : Nat]
<1> USE ConstantsAssumption
<1>1. CASE AskModel
  BY <1>1 DEF AskModel, TypeOK, Rounds
<1>2. CASE SaveTool
  <2>1. CASE round.next + 1 = round.calls
    <3>1. /\ [round EXCEPT !.next = 0] \in Rounds
          /\ [round EXCEPT !.next = 0].iter = round.iter
      BY DEF TypeOK, Rounds
    <3>2. round.iter < MaxAgentIterations
      BY <1>2 DEF SaveTool, CountInv, Iterating
    <3> QED
      BY <1>2, <2>1, <3>1, <3>2, IterateType DEF SaveTool, TypeOK
  <2>2. CASE round.next + 1 # round.calls
    BY <1>2, <2>2 DEF SaveTool, TypeOK, Rounds, CountInv
  <2> QED
    BY <2>1, <2>2
<1>3. CASE ReportTool
  <2>1. CASE round.next = round.calls
    BY <1>3, <2>1 DEF ReportTool, TypeOK, Rounds, CountInv
  <2>2. CASE round.next # round.calls
    BY <1>3, <2>2 DEF ReportTool, TypeOK, Rounds, CountInv
  <2> QED
    BY <2>1, <2>2
<1>4. CASE AnnounceRetry
  <2>1. /\ [round EXCEPT !.retried = TRUE] \in Rounds
        /\ [round EXCEPT !.retried = TRUE].iter = round.iter
    BY DEF TypeOK, Rounds
  <2>2. round.iter < MaxAgentIterations
    BY <1>4 DEF AnnounceRetry, CountInv, Iterating
  <2> QED
    BY <1>4, <2>1, <2>2, IterateType DEF AnnounceRetry, TypeOK
<1>5. CASE ReadToolCall
  BY <1>5 DEF ReadToolCall, TypeOK, Rounds
<1>6. CASE Decide
  BY <1>6 DEF Decide, TypeOK, Rounds
<1>7. CASE Exhaust
  BY <1>7 DEF Exhaust, TypeOK, Rounds
<1>8. CASE UNCHANGED <<round, history>>
  BY <1>8 DEF TypeOK
<1> QED
  BY <1>1, <1>2, <1>3, <1>4, <1>5, <1>6, <1>7, <1>8
  DEF AgentLoopStep, ReadContent, EmitContent, ReadDone, ReadClosed, Flush,
      StartTool, SaveCalls, SaveAnswer, SaveState, Finish, Fail, RecordUsage

(* websiteAgentLoop's local variables. *)
LEMMA NextSite ==
  ASSUME TypeOK, CountInv, WebsiteLoopStep
  PROVE  site' \in Sites
<1> USE ConstantsAssumption
<1>1. CASE Attempt
  <2>1. [site EXCEPT !.attempt = @ + 1] \in Sites
    BY <1>1 DEF Attempt, TypeOK, Sites, CountInv
  <2> QED
    BY <1>1, <2>1, SiteHelpersType DEF Attempt
<1>2. CASE SiteChunk
  BY <1>2 DEF SiteChunk, TypeOK, Sites
<1>3. CASE Parse
  BY <1>3 DEF Parse, WithFiles, TypeOK, Sites
<1>4. CASE Repair
  <2>1. CASE site.repairs < MaxWebsiteRepairAttempts
    <3>1. [site EXCEPT !.repairs = @ + 1] \in Sites
      BY <2>1 DEF TypeOK, Sites
    <3> QED
      BY <1>4, <2>1, <3>1, SiteHelpersType DEF Repair
  <2>2. CASE ~(site.repairs < MaxWebsiteRepairAttempts)
    BY <1>4, <2>2 DEF Repair, TypeOK
  <2> QED
    BY <2>1, <2>2
<1>5. CASE SaveArtifact
  BY <1>5 DEF SaveArtifact, TypeOK, Sites
<1>6. CASE SaveFiles
  BY <1>6 DEF SaveFiles, Succeeded, TypeOK, Sites
<1>7. CASE UNCHANGED site
  BY <1>7 DEF TypeOK
<1> QED
  BY <1>1, <1>2, <1>3, <1>4, <1>5, <1>6, <1>7
  DEF WebsiteLoopStep, Begin, SiteEmit, SiteClosed, SiteFail, Check, Continue,
      AnnounceExtraction, Apologise, Sorry, SaveSummary, RecordSiteUsage,
      Show, SiteDone

(* agentLoop keeps its counters within the bounds. *)
LEMMA NextCountsAgent ==
  ASSUME TypeOK, CountInv, AgentLoopStep, UNCHANGED site
  PROVE  CountInv'
<1> USE ConstantsAssumption DEF CountInv, Iterating, ChatPlaces
<1>1. CASE AskModel
  BY <1>1 DEF AskModel, TypeOK, Rounds
<1>2. CASE ReadContent
  BY <1>2 DEF ReadContent, TypeOK, Rounds
<1>3. CASE EmitContent
  BY <1>3 DEF EmitContent, TypeOK, Rounds, Offer
<1>4. CASE ReadToolCall
  BY <1>4 DEF ReadToolCall, TypeOK, Rounds, turnVars
<1>5. CASE ReadDone
  BY <1>5 DEF ReadDone, TypeOK, Rounds
<1>6. CASE ReadClosed
  BY <1>6 DEF ReadClosed, TypeOK, Rounds
<1>7. CASE Flush
  BY <1>7 DEF Flush, TypeOK, Rounds, Offer
<1>8. CASE Decide
  BY <1>8 DEF Decide, TypeOK, Rounds
<1>9. CASE AnnounceRetry
  BY <1>9 DEF AnnounceRetry, Offer
<1>10. CASE StartTool
  BY <1>10 DEF StartTool, TypeOK, Rounds, Offer
<1>11. CASE ReportTool
  <2>1. CASE round.next = round.calls
    <3>1. /\ round' = [round EXCEPT !.next = 0]
          /\ at' \in {"saveCalls", "close"}
      BY <1>11, <2>1 DEF ReportTool, Offer
    <3>2. /\ round'.next = 0
          /\ round'.calls = round.calls
          /\ round'.iter = round.iter
      BY <3>1 DEF TypeOK, Rounds
    <3>3. /\ round.calls \in Nat /\ round.calls > 0
          /\ round.iter < MaxAgentIterations
      BY <1>11, <2>1 DEF ReportTool, TypeOK, Rounds
    <3> QED
      BY <3>1, <3>2, <3>3
  <2>2. CASE round.next # round.calls
    <3>1. /\ round' = [round EXCEPT !.next = @ + 1]
          /\ at' \in {"toolStart", "close"}
      BY <1>11, <2>2 DEF ReportTool, Offer
    <3>2. /\ round'.next = round.next + 1
          /\ round'.calls = round.calls
          /\ round'.iter = round.iter
      BY <3>1 DEF TypeOK, Rounds
    <3>3. /\ round.next \in Nat /\ round.calls \in Nat
          /\ round.next =< round.calls
          /\ round.iter < MaxAgentIterations
      BY <1>11 DEF ReportTool, TypeOK, Rounds
    <3> QED
      BY <2>2, <3>1, <3>2, <3>3
  <2> QED
    BY <2>1, <2>2
<1>12. CASE SaveCalls
  BY <1>12 DEF SaveCalls, TypeOK, Rounds
<1>13. CASE SaveTool
  <2>1. CASE round.next + 1 = round.calls
    BY <1>13, <2>1 DEF SaveTool
  <2>2. CASE round.next + 1 # round.calls
    BY <1>13, <2>2 DEF SaveTool, TypeOK, Rounds
  <2> QED
    BY <2>1, <2>2
<1>14. CASE Exhaust
  BY <1>14 DEF Exhaust, TypeOK, Rounds, Offer
<1>15. CASE SaveAnswer
  BY <1>15 DEF SaveAnswer, TypeOK, Rounds
<1>16. CASE SaveState
  BY <1>16 DEF SaveState, TypeOK, Rounds
<1>17. CASE Finish
  BY <1>17 DEF Finish, TypeOK, Rounds, Offer
<1>18. CASE Fail
  BY <1>18 DEF Fail, TypeOK, Rounds, Offer
<1>19. CASE RecordUsage
  BY <1>19 DEF RecordUsage, TypeOK, Rounds, LogUsage, IncrementDailyUsage
<1>20. CASE CloseOut
  BY <1>20 DEF CloseOut, TypeOK, Rounds
<1> QED
  BY <1>1, <1>2, <1>3, <1>4, <1>5, <1>6, <1>7, <1>8, <1>9, <1>10, <1>11,
     <1>12, <1>13, <1>14, <1>15, <1>16, <1>17, <1>18, <1>19, <1>20
  DEF AgentLoopStep

(* websiteAgentLoop does. *)
LEMMA NextCountsWebsite ==
  ASSUME TypeOK, CountInv, WebsiteLoopStep, UNCHANGED <<round, history>>
  PROVE  CountInv'
<1> USE ConstantsAssumption DEF CountInv, Iterating, ChatPlaces
<1>1. CASE Begin
  BY <1>1 DEF Begin, Offer
<1>2. CASE Attempt
  BY <1>2 DEF Attempt
<1>3. CASE SiteChunk
  BY <1>3 DEF SiteChunk
<1>4. CASE SiteEmit
  BY <1>4 DEF SiteEmit, Offer
<1>5. CASE SiteClosed
  BY <1>5 DEF SiteClosed
<1>6. CASE SiteFail
  BY <1>6 DEF SiteFail, Offer
<1>7. CASE Check
  BY <1>7 DEF Check
<1>8. CASE Continue
  BY <1>8 DEF Continue, Offer
<1>9. CASE AnnounceExtraction
  BY <1>9 DEF AnnounceExtraction, Offer
<1>10. CASE Parse
  BY <1>10 DEF Parse
<1>11. CASE Repair
  BY <1>11 DEF Repair, Offer
<1>12. CASE Apologise
  BY <1>12 DEF Apologise
<1>13. CASE Sorry
  BY <1>13 DEF Sorry, Offer
<1>14. CASE SaveArtifact
  BY <1>14 DEF SaveArtifact
<1>15. CASE SaveFiles
  BY <1>15 DEF SaveFiles
<1>16. CASE SaveSummary
  BY <1>16 DEF SaveSummary
<1>17. CASE RecordSiteUsage
  BY <1>17 DEF RecordSiteUsage, LogUsage, IncrementDailyUsage
<1>18. CASE Show
  BY <1>18 DEF Show, Offer
<1>19. CASE SiteDone
  BY <1>19 DEF SiteDone, Offer
<1>20. CASE CloseOut
  BY <1>20 DEF CloseOut
<1> QED
  BY <1>1, <1>2, <1>3, <1>4, <1>5, <1>6, <1>7, <1>8, <1>9, <1>10, <1>11,
     <1>12, <1>13, <1>14, <1>15, <1>16, <1>17, <1>18, <1>19, <1>20
  DEF WebsiteLoopStep

(* Chat starts either of them with its counters at 0. *)
LEMMA NextCountsChat ==
  ASSUME TypeOK, CountInv, Chat
  PROVE  CountInv'
<1> USE ConstantsAssumption DEF CountInv, Iterating, ChatPlaces, Refuse,
   Proceed
<1>1. CASE LoadConversation /\ UNCHANGED <<round, history, site>>
  BY <1>1 DEF LoadConversation
<1>2. CASE SaveUserMessage /\ UNCHANGED <<round, history, site>>
  BY <1>2 DEF SaveUserMessage
<1>3. CASE CannotRoute /\ UNCHANGED <<round, history, site>>
  BY <1>3 DEF CannotRoute
<1>4. CASE RespondTemporal /\ UNCHANGED <<round, history, site>>
  BY <1>4 DEF RespondTemporal
<1>5. CASE ReturnTemporal /\ UNCHANGED <<round, history, site>>
  BY <1>5 DEF ReturnTemporal, Opened
<1>6. CASE DeliverTemporal /\ UNCHANGED <<round, history, site>>
  BY <1>6 DEF DeliverTemporal
<1>7. CASE StartWebsiteLoop /\ UNCHANGED <<round, history, site>>
  BY <1>7 DEF StartWebsiteLoop, Opened, NoSite
<1>8. CASE StartAgentLoop /\ UNCHANGED <<history, site>>
  BY <1>8 DEF StartAgentLoop, Opened
<1> QED
  BY <1>1, <1>2, <1>3, <1>4, <1>5, <1>6, <1>7, <1>8 DEF Chat

(* Nobody else touches a counter. *)
LEMMA NextCountsOthers ==
  ASSUME TypeOK, CountInv,
         HandlerStep \/ ExtractStep \/ ClientStep \/ ProviderStep
  PROVE  CountInv'
<1>1. UNCHANGED <<at, round, history, site>>
  BY DEF HandlerStep, Handler, StreamClosed, Remember, Answer, Return,
         ExtractStep, Extract, ClientStep, ClientLeaves, ProviderStep,
         StreamBreaks
<1> QED
  BY <1>1 DEF CountInv

-----------------------------------------------------------------------------
(* A request that arrives. *)
LEMMA InitTypes == Init => TypeOK /\ CountInv
<1> SUFFICES ASSUME Init PROVE TypeOK /\ CountInv
  OBVIOUS
<1> USE ConstantsAssumption DEF Init
<1>1. TurnTypeOK
  <2>1. NoRows \in Rows /\ [NoRows EXCEPT !.conv = TRUE] \in Rows
    BY DEF NoRows, Rows
  <2>2. wire \in Wires
    BY DEF Wires
  <2> QED
    BY <2>1, <2>2, ChatPlacesOK DEF TurnTypeOK, Handlers
<1>2. round \in Rounds /\ history \in [calls : Nat, tools : Nat]
  BY DEF NoRound, Rounds
<1>3. site \in Sites
  BY DEF NoSite, Sites
<1>4. CountInv
  BY DEF CountInv, Iterating
<1> QED
  BY <1>1, <1>2, <1>3, <1>4 DEF TypeOK

(* Every step. *)
LEMMA NextTypes == TypeOK /\ CountInv /\ [Next]_vars => (TypeOK /\ CountInv)'
<1> SUFFICES ASSUME TypeOK, CountInv, [Next]_vars PROVE (TypeOK /\ CountInv)'
  OBVIOUS
<1>1. TurnTypeOK /\ round \in Rounds /\ site \in Sites
      /\ history \in [calls : Nat, tools : Nat]
  BY DEF TypeOK
<1>2. CASE Chat
  <2>1. round' \in Rounds
    BY <1>1, <1>2 DEF Chat, StartAgentLoop, Rounds
  <2> QED
    BY <1>1, <1>2, <2>1, ChatTurnTypes, NextCountsChat DEF Chat, TypeOK
<1>3. CASE mode = "chat" /\ AgentLoopStep /\ UNCHANGED site
  BY <1>1, <1>3, AgentLoopTurn, NextRound, NextCountsAgent DEF TypeOK
<1>4. CASE mode = "website" /\ WebsiteLoopStep /\ UNCHANGED <<round, history>>
  BY <1>1, <1>4, WebsiteLoopTurn, NextSite, NextCountsWebsite DEF TypeOK
<1>5. CASE HandlerStep \/ ExtractStep \/ ClientStep \/ ProviderStep
  <2>1. UNCHANGED <<round, history, site>>
    BY <1>5 DEF HandlerStep, ExtractStep, ClientStep, ProviderStep
  <2> QED
    BY <1>1, <1>5, <2>1, OthersTurn, NextCountsOthers DEF TypeOK
<1>6. CASE UNCHANGED vars
  <2>1. TurnTypeOK'
    BY <1>1, <1>6, MoveKeepsTypes DEF vars, turnVars, turnOthers, TurnTypeOK
  <2>2. UNCHANGED <<at, round, history, site>>
    BY <1>6 DEF vars, turnVars
  <2>3. TypeOK'
    BY <1>1, <2>1, <2>2 DEF TypeOK
  <2> QED
    BY <2>2, <2>3 DEF CountInv
<1> QED
  BY <1>2, <1>3, <1>4, <1>5, <1>6 DEF Next, Loop

(* Every variable has its type, and the loops stay within their bounds: the
   iterations of agentLoop, the attempts and repairs of websiteAgentLoop. *)
THEOREM TurnIsTyped == Spec => [](TypeOK /\ CountInv)
BY InitTypes, NextTypes, PTL DEF Spec

-----------------------------------------------------------------------------
(* An artifact is whole from the moment its identifier is known, and neither
   the stored answer nor an event refers to it before. *)
ArtifactPlaces == {"saveSummary", "logUsage", "rollup", "show", "siteDone",
                   "close", "closed"}

ArtifactInv ==
  /\ site.artifact =>
       /\ mode = "website"
       /\ at \in ArtifactPlaces
       /\ rows.artifact
       /\ site.files # "invalid"
       /\ site.files = "valid" => rows.files
  /\ "artifact" \in wire.seen \/ rows.answer = "artifact" => site.artifact
  /\ at = "saveArtifact" => site.files # "invalid"
  /\ at = "saveFiles" => site.files = "valid" /\ rows.artifact

(* An event is seen when it is offered, and no other. *)
LEMMA OfferSeen ==
  ASSUME wire \in Wires, NEW event, NEW done, NEW next, NEW otherwise,
         Offer(event, done, next, otherwise), NEW e, e # event
  PROVE  e \in wire'.seen => e \in wire.seen
<1>1. e \in Told(event).seen => e \in wire.seen
  BY DEF Told, Wires
<1> QED
  BY <1>1 DEF Offer, Deliver

(* OfferSeen for the event of an artifact. *)
LEMMA OfferNoArtifact ==
  ASSUME wire \in Wires, NEW event, NEW done, NEW next, NEW otherwise,
         Offer(event, done, next, otherwise), event # "artifact"
  PROVE  "artifact" \in wire'.seen => "artifact" \in wire.seen
BY OfferSeen

(* An event that is not of an artifact, offered away from the statements that
   store one. *)
LEMMA OfferKeepsArtifact ==
  ASSUME wire \in Wires, ArtifactInv,
         NEW event, NEW done, NEW next, NEW otherwise,
         Offer(event, done, next, otherwise), event # "artifact",
         UNCHANGED <<mode, rows, site>>,
         {next, otherwise} \intersect {"saveArtifact", "saveFiles"} = {},
         site.artifact => {next, otherwise} \subseteq ArtifactPlaces
  PROVE  ArtifactInv'
<1>1. at' \in {next, otherwise}
  BY DEF Offer
<1>2. "artifact" \in wire'.seen => "artifact" \in wire.seen
  BY OfferNoArtifact
<1> QED
  BY <1>1, <1>2 DEF ArtifactInv, ArtifactPlaces

(* websiteAgentLoop knows an artifact only when its rows are written. *)
LEMMA ArtifactWebsite ==
  ASSUME TypeOK, ArtifactInv, mode = "website", WebsiteLoopStep
  PROVE  ArtifactInv'
<1>1. wire \in Wires /\ rows \in Rows /\ site \in Sites
  BY DEF TypeOK, TurnTypeOK
<1> USE <1>1, EventsOK DEF ArtifactInv, ArtifactPlaces, elsewhere
<1>2. CASE Begin
  BY <1>2, OfferKeepsArtifact DEF Begin
<1>3. CASE Attempt
  BY <1>3 DEF Attempt, Silent, Sites
<1>4. CASE SiteChunk
  BY <1>4 DEF SiteChunk, Sites
<1>5. CASE SiteEmit
  BY <1>5, OfferKeepsArtifact DEF SiteEmit
<1>6. CASE SiteClosed
  BY <1>6 DEF SiteClosed
<1>7. CASE SiteFail
  BY <1>7, OfferKeepsArtifact DEF SiteFail
<1>8. CASE Check
  BY <1>8 DEF Check
<1>9. CASE Continue
  BY <1>9, OfferKeepsArtifact DEF Continue
<1>10. CASE AnnounceExtraction
  BY <1>10, OfferKeepsArtifact DEF AnnounceExtraction
<1>11. CASE Parse
  BY <1>11 DEF Parse, WithFiles, Sites
<1>12. CASE Repair
  <2>1. at = "repair" /\ ~site.artifact /\ "artifact" \notin wire.seen
        /\ rows.answer # "artifact" /\ UNCHANGED <<mode, rows>>
    BY <1>12 DEF Repair
  <2>2. CASE site.repairs < MaxWebsiteRepairAttempts
    <3>1. PICK files \in {"invalid", "valid"} :
            /\ Offer("progress", FALSE,
                     IF files = "valid" THEN "saveArtifact" ELSE "repair",
                     "close")
            /\ site' = WithFiles([site EXCEPT !.repairs = @ + 1], files)
      BY <1>12, <2>2 DEF Repair
    <3>2. ~site'.artifact /\ site'.files = files
      BY <2>1, <3>1 DEF WithFiles, Sites
    <3>3. at' \in {IF files = "valid" THEN "saveArtifact" ELSE "repair",
       "close"}
      BY <3>1 DEF Offer
    <3>4. "artifact" \notin wire'.seen
      BY <1>1, <2>1, <3>1, OfferNoArtifact
    <3> QED
      BY <2>1, <3>2, <3>3, <3>4
  <2>3. CASE ~(site.repairs < MaxWebsiteRepairAttempts)
    BY <1>12, <2>3 DEF Repair
  <2> QED
    BY <2>2, <2>3
<1>13. CASE Apologise
  BY <1>13 DEF Apologise, Execute, Succeeded, Rows
<1>14. CASE Sorry
  BY <1>14, OfferKeepsArtifact DEF Sorry
<1>15. CASE SaveArtifact
  BY <1>15 DEF SaveArtifact, Execute, Succeeded, Rows, Sites
<1>16. CASE SaveFiles
  BY <1>16 DEF SaveFiles, Execute, Succeeded, Rows, Sites
<1>17. CASE SaveSummary
  BY <1>17 DEF SaveSummary, Execute, Succeeded, Rows
<1>18. CASE RecordSiteUsage
  BY <1>18 DEF RecordSiteUsage, Execute, Succeeded, Rows, LogUsage,
          IncrementDailyUsage
<1>19. CASE Show
  <2>1. CASE site.artifact
    <3>1. at' \in {"siteDone", "close"}
      BY <1>19 DEF Show, Offer
    <3> QED
      BY <1>19, <2>1, <3>1 DEF Show
  <2>2. CASE ~site.artifact
    BY <1>19, <2>2, OfferKeepsArtifact DEF Show
  <2> QED
    BY <2>1, <2>2
<1>20. CASE SiteDone
  BY <1>20, OfferKeepsArtifact DEF SiteDone
<1>21. CASE CloseOut /\ UNCHANGED site
  BY <1>21 DEF CloseOut
<1> QED
  BY <1>2, <1>3, <1>4, <1>5, <1>6, <1>7, <1>8, <1>9, <1>10, <1>11, <1>12,
     <1>13, <1>14, <1>15, <1>16, <1>17, <1>18, <1>19, <1>20, <1>21
  DEF WebsiteLoopStep

(* agentLoop neither stores nor tells an artifact. *)
LEMMA ArtifactAgent ==
  ASSUME TypeOK, ArtifactInv, mode = "chat", AgentLoopStep, UNCHANGED site
  PROVE  ArtifactInv'
<1>1. wire \in Wires /\ rows \in Rows
  BY DEF TypeOK, TurnTypeOK
<1>2. mode' = "chat"
  BY DEF AgentLoopStep, AskModel, ReadContent, EmitContent, ReadToolCall,
     ReadDone,
         ReadClosed, Flush, Decide, AnnounceRetry, StartTool, ReportTool,
         SaveCalls, SaveTool, Exhaust, SaveAnswer, SaveState, Finish, Fail,
         RecordUsage, LogUsage, IncrementDailyUsage, CloseOut, turnVars
<1>3. at' \notin {"saveArtifact", "saveFiles"}
  BY DEF AgentLoopStep, AskModel, ReadContent, EmitContent, ReadToolCall,
     ReadDone,
         ReadClosed, Flush, Decide, AnnounceRetry, StartTool, ReportTool,
         SaveCalls, SaveTool, Exhaust, SaveAnswer, SaveState, Finish, Fail,
         RecordUsage, LogUsage, IncrementDailyUsage, CloseOut, turnVars, Offer
<1>4. rows'.answer # "artifact"
  BY <1>1 DEF ArtifactInv, Rows, Execute,
         AgentLoopStep, AskModel, ReadContent, EmitContent, ReadToolCall,
            ReadDone,
         ReadClosed, Flush, Decide, AnnounceRetry, StartTool, ReportTool,
         SaveCalls, SaveTool, Exhaust, SaveAnswer, SaveState, Finish, Fail,
         RecordUsage, LogUsage, IncrementDailyUsage, CloseOut, turnVars
<1>5. "artifact" \notin wire'.seen
  BY <1>1, OfferNoArtifact DEF ArtifactInv,
         AgentLoopStep, AskModel, ReadContent, EmitContent, ReadToolCall,
            ReadDone,
         ReadClosed, Flush, Decide, AnnounceRetry, StartTool, ReportTool,
         SaveCalls, SaveTool, Exhaust, SaveAnswer, SaveState, Finish, Fail,
         RecordUsage, LogUsage, IncrementDailyUsage, CloseOut, turnVars
<1> QED
  BY <1>2, <1>3, <1>4, <1>5 DEF ArtifactInv

(* Nor does Chat. *)
LEMMA ArtifactChat ==
  ASSUME TypeOK, ArtifactInv, Chat
  PROVE  ArtifactInv'
<1>1. wire \in Wires /\ rows \in Rows
  BY DEF TypeOK, TurnTypeOK
<1>2. ~site.artifact /\ UNCHANGED site
  BY DEF ArtifactInv, ArtifactPlaces, Chat, LoadConversation, SaveUserMessage,
         CannotRoute, RespondTemporal, ReturnTemporal, DeliverTemporal,
         StartWebsiteLoop, StartAgentLoop
<1>3. at' \notin {"saveArtifact", "saveFiles"}
  BY DEF Chat, LoadConversation, SaveUserMessage, CannotRoute,
     RespondTemporal,
         ReturnTemporal, DeliverTemporal, StartWebsiteLoop, StartAgentLoop,
         Refuse, Proceed, Opened
<1>4. rows'.answer # "artifact"
  BY <1>1, <1>2 DEF ArtifactInv, Rows, Execute, Chat, LoadConversation,
         SaveUserMessage, CannotRoute, RespondTemporal, ReturnTemporal,
         DeliverTemporal, StartWebsiteLoop, StartAgentLoop
<1>5. \A event : event # "artifact" /\ wire' = Told(event) =>
        "artifact" \notin wire'.seen
  BY <1>1, <1>2 DEF Told, Wires, ArtifactInv
<1>6. "artifact" \notin wire'.seen
  BY <1>2, <1>5 DEF ArtifactInv, Chat, LoadConversation,
         SaveUserMessage, CannotRoute, RespondTemporal, ReturnTemporal,
         DeliverTemporal, StartWebsiteLoop, StartAgentLoop, Refuse, Proceed,
         Deliver
<1> QED
  BY <1>2, <1>3, <1>4, <1>6 DEF ArtifactInv

(* Every step. *)
LEMMA NextArtifact ==
  ASSUME TypeOK, ArtifactInv, [Next]_vars
  PROVE  ArtifactInv'
<1>1. CASE Chat
  BY <1>1, ArtifactChat
<1>2. CASE mode = "chat" /\ AgentLoopStep /\ UNCHANGED site
  BY <1>2, ArtifactAgent
<1>3. CASE mode = "website" /\ WebsiteLoopStep
  BY <1>3, ArtifactWebsite
<1>4. CASE HandlerStep \/ ExtractStep \/ ClientStep \/ ProviderStep
  <2>1. UNCHANGED <<mode, at, wire, rows, site>>
    BY <1>4 DEF HandlerStep, Handler, StreamClosed, Remember, Answer, Return,
           ExtractStep, Extract, ClientStep, ClientLeaves, ProviderStep,
           StreamBreaks
  <2> QED
    BY <2>1 DEF ArtifactInv
<1>5. CASE UNCHANGED vars
  BY <1>5 DEF vars, turnVars, ArtifactInv
<1> QED
  BY <1>1, <1>2, <1>3, <1>4, <1>5 DEF Next, Loop

(* What a client is shown as an artifact, and what the stored answer refers
   to, is in the database with all of its files and passed the validation. *)
THEOREM ArtifactsAreWhole == Spec => []ArtifactShownIsWhole
<1>1. Init => ArtifactInv
  BY DEF Init, ArtifactInv, NoRows, NoSite
<1>2. TypeOK /\ ArtifactInv /\ [Next]_vars => ArtifactInv'
  BY NextArtifact
<1>3. ArtifactInv => ArtifactShownIsWhole
  BY DEF ArtifactInv, ArtifactShownIsWhole
<1> QED
  BY <1>1, <1>2, <1>3, TurnIsTyped, PTL DEF Spec

-----------------------------------------------------------------------------
(* The end of a turn.  The handler stops reading when the loop has nothing
   left to do but close its channel, unless the iterations have run out. *)
EndInv ==
  /\ out = "closed" => at = "closed"
  /\ handler \notin {"calling", "receiving"} /\ ~round.exhausted =>
       at \in {"refused", "close", "closed"}

(* A client that listens has been told the end by then. *)
Ended == "finished" \in wire.seen \/ "error" \in wire.seen

ToldInv ==
  /\ via = "sse" /\ client = "connected"
  /\ \/ handler \notin {"calling", "receiving"}
     \/ at \in {"close", "closed"}
     \/ round.exhausted
  => Ended

(* An end that is told is told for good. *)
LEMMA ToldEnded ==
  ASSUME wire \in Wires, NEW event, wire' = Told(event)
  PROVE  /\ Ended => Ended'
         /\ via = "sse" /\ client = "connected" /\ event \in {"finished",
            "error"}
              => Ended'
BY DEF Told, Wires, Ended

(* An event that does not lead to the end without telling it. *)
LEMMA OfferKeepsTold ==
  ASSUME wire \in Wires, ToldInv, NEW event, NEW done, NEW next,
     NEW otherwise,
         Offer(event, done, next, otherwise), UNCHANGED <<via, client>>,
         \/ event \in {"finished", "error"}
         \/ ~done /\ next \notin {"close", "closed"}
              /\ (round'.exhausted => round.exhausted)
  PROVE  ToldInv'
<1>1. CASE Deliver(event, done) /\ at' = next
  <2>1. wire' = Told(event) /\ handler = "receiving"
    BY <1>1 DEF Deliver
  <2>2. ~done => handler' = "receiving"
    BY <1>1 DEF Deliver
  <2> QED
    BY <1>1, <2>1, <2>2, ToldEnded DEF ToldInv
<1>2. CASE Cancelled /\ UNCHANGED <<handler, wire>>
  BY <1>2 DEF Cancelled, ToldInv, Ended
<1> QED
  BY <1>1, <1>2 DEF Offer

(* Every way agentLoop ends has told the end. *)
LEMMA EndAgent ==
  ASSUME TypeOK, EndInv, ToldInv, AgentLoopStep, UNCHANGED site
  PROVE  EndInv' /\ ToldInv'
<1>1. wire \in Wires /\ round \in Rounds
  BY DEF TypeOK, TurnTypeOK
<1> USE <1>1 DEF EndInv
<1>2. CASE AskModel
  BY <1>2 DEF AskModel, Rounds, ToldInv, Ended
<1>3. CASE ReadContent
  BY <1>3 DEF ReadContent, ToldInv, Ended
<1>4. CASE EmitContent
  <2>1. EndInv'
    BY <1>4 DEF EmitContent, Offer, Deliver
  <2>2. ToldInv'
    BY <1>4, OfferKeepsTold DEF EmitContent
  <2> QED
    BY <2>1, <2>2
<1>5. CASE ReadToolCall
  BY <1>5 DEF ReadToolCall, Rounds, turnVars, ToldInv, Ended
<1>6. CASE ReadDone
  BY <1>6 DEF ReadDone, ToldInv, Ended
<1>7. CASE ReadClosed
  BY <1>7 DEF ReadClosed, ToldInv, Ended
<1>8. CASE Flush
  <2>1. EndInv'
    BY <1>8 DEF Flush, Offer, Deliver
  <2>2. ToldInv'
    BY <1>8, OfferKeepsTold DEF Flush, ToldInv, Ended
  <2> QED
    BY <2>1, <2>2
<1>9. CASE Decide
  BY <1>9 DEF Decide, Rounds, ToldInv, Ended
<1>10. CASE AnnounceRetry
  <2>1. EndInv'
    BY <1>10 DEF AnnounceRetry, Rounds, Iterate, Offer, Deliver
  <2>2. ToldInv'
    BY <1>10, OfferKeepsTold DEF AnnounceRetry, Rounds, Iterate
  <2> QED
    BY <2>1, <2>2
<1>11. CASE StartTool
  <2>1. EndInv'
    BY <1>11 DEF StartTool, Offer, Deliver
  <2>2. ToldInv'
    BY <1>11, OfferKeepsTold DEF StartTool
  <2> QED
    BY <2>1, <2>2
<1>12. CASE ReportTool
  <2>1. EndInv'
    BY <1>12 DEF ReportTool, Rounds, Offer, Deliver
  <2>2. ToldInv'
    BY <1>12, OfferKeepsTold DEF ReportTool, Rounds
  <2> QED
    BY <2>1, <2>2
<1>13. CASE SaveCalls
  BY <1>13 DEF SaveCalls, ToldInv, Ended
<1>14. CASE SaveTool
  BY <1>14 DEF SaveTool, Rounds, Iterate, ToldInv, Ended
<1>15. CASE Exhaust
  <2>1. EndInv'
    BY <1>15 DEF Exhaust, Rounds, Offer, Deliver
  <2>2. ToldInv'
    BY <1>15, OfferKeepsTold DEF Exhaust, Rounds
  <2> QED
    BY <2>1, <2>2
<1>16. CASE SaveAnswer
  BY <1>16 DEF SaveAnswer, ToldInv, Ended
<1>17. CASE SaveState
  BY <1>17 DEF SaveState, ToldInv, Ended
<1>18. CASE Finish
  <2>1. EndInv'
    BY <1>18 DEF Finish, Offer, Deliver
  <2>2. ToldInv'
    BY <1>18, OfferKeepsTold DEF Finish, ToldInv, Ended
  <2> QED
    BY <2>1, <2>2
<1>19. CASE Fail
  <2>1. EndInv'
    BY <1>19 DEF Fail, Offer, Deliver
  <2>2. ToldInv'
    BY <1>19, OfferKeepsTold DEF Fail
  <2> QED
    BY <2>1, <2>2
<1>20. CASE RecordUsage
  BY <1>20 DEF RecordUsage, LogUsage, IncrementDailyUsage, ToldInv, Ended
<1>21. CASE CloseOut /\ UNCHANGED <<round, history>>
  BY <1>21 DEF CloseOut, ToldInv, Ended
<1> QED
  BY <1>2, <1>3, <1>4, <1>5, <1>6, <1>7, <1>8, <1>9, <1>10, <1>11, <1>12,
     <1>13, <1>14, <1>15, <1>16, <1>17, <1>18, <1>19, <1>20, <1>21
  DEF AgentLoopStep

(* And every way websiteAgentLoop does. *)
LEMMA EndWebsite ==
  ASSUME TypeOK, EndInv, ToldInv, WebsiteLoopStep, UNCHANGED <<round,
     history>>
  PROVE  EndInv' /\ ToldInv'
<1>1. wire \in Wires
  BY DEF TypeOK, TurnTypeOK
<1> USE <1>1 DEF EndInv, elsewhere
<1>2. CASE Begin
  <2>1. EndInv'
    BY <1>2 DEF Begin, Offer, Deliver
  <2>2. ToldInv'
    BY <1>2, OfferKeepsTold DEF Begin
  <2> QED
    BY <2>1, <2>2
<1>3. CASE Attempt
  BY <1>3 DEF Attempt, ToldInv, Ended
<1>4. CASE SiteChunk
  BY <1>4 DEF SiteChunk, ToldInv, Ended
<1>5. CASE SiteEmit
  <2>1. EndInv'
    BY <1>5 DEF SiteEmit, Offer, Deliver
  <2>2. ToldInv'
    BY <1>5, OfferKeepsTold DEF SiteEmit
  <2> QED
    BY <2>1, <2>2
<1>6. CASE SiteClosed
  BY <1>6 DEF SiteClosed, ToldInv, Ended
<1>7. CASE SiteFail
  <2>1. EndInv'
    BY <1>7 DEF SiteFail, Offer, Deliver
  <2>2. ToldInv'
    BY <1>7, OfferKeepsTold DEF SiteFail
  <2> QED
    BY <2>1, <2>2
<1>8. CASE Check
  BY <1>8 DEF Check, ToldInv, Ended
<1>9. CASE Continue
  <2>1. EndInv'
    BY <1>9 DEF Continue, Offer, Deliver
  <2>2. ToldInv'
    BY <1>9, OfferKeepsTold DEF Continue
  <2> QED
    BY <2>1, <2>2
<1>10. CASE AnnounceExtraction
  <2>1. EndInv'
    BY <1>10 DEF AnnounceExtraction, Offer, Deliver
  <2>2. ToldInv'
    BY <1>10, OfferKeepsTold DEF AnnounceExtraction
  <2> QED
    BY <2>1, <2>2
<1>11. CASE Parse
  BY <1>11 DEF Parse, ToldInv, Ended
<1>12. CASE Repair
  <2>1. EndInv'
    BY <1>12 DEF Repair, Offer, Deliver
  <2>2. ToldInv'
    BY <1>12, OfferKeepsTold DEF Repair, ToldInv, Ended
  <2> QED
    BY <2>1, <2>2
<1>13. CASE Apologise
  BY <1>13 DEF Apologise, ToldInv, Ended
<1>14. CASE Sorry
  <2>1. EndInv'
    BY <1>14 DEF Sorry, Offer, Deliver
  <2>2. ToldInv'
    BY <1>14, OfferKeepsTold DEF Sorry
  <2> QED
    BY <2>1, <2>2
<1>15. CASE SaveArtifact
  BY <1>15 DEF SaveArtifact, ToldInv, Ended
<1>16. CASE SaveFiles
  BY <1>16 DEF SaveFiles, ToldInv, Ended
<1>17. CASE SaveSummary
  BY <1>17 DEF SaveSummary, ToldInv, Ended
<1>18. CASE RecordSiteUsage
  BY <1>18 DEF RecordSiteUsage, LogUsage, IncrementDailyUsage, ToldInv, Ended
<1>19. CASE Show
  <2>1. EndInv'
    BY <1>19 DEF Show, Offer, Deliver
  <2>2. ToldInv'
    BY <1>19, OfferKeepsTold DEF Show
  <2> QED
    BY <2>1, <2>2
<1>20. CASE SiteDone
  <2>1. EndInv'
    BY <1>20 DEF SiteDone, Offer, Deliver
  <2>2. ToldInv'
    BY <1>20, OfferKeepsTold DEF SiteDone
  <2> QED
    BY <2>1, <2>2
<1>21. CASE CloseOut
  BY <1>21 DEF CloseOut, ToldInv, Ended
<1> QED
  BY <1>2, <1>3, <1>4, <1>5, <1>6, <1>7, <1>8, <1>9, <1>10, <1>11, <1>12,
     <1>13, <1>14, <1>15, <1>16, <1>17, <1>18, <1>19, <1>20, <1>21
  DEF WebsiteLoopStep

(* So has a refusal, and an answer without a model. *)
LEMMA EndChat ==
  ASSUME TypeOK, EndInv, ToldInv, Chat
  PROVE  EndInv' /\ ToldInv'
<1>1. wire \in Wires /\ round \in Rounds
  BY DEF TypeOK, TurnTypeOK
<1>2. Refuse => /\ at' = "refused" /\ handler' = "returning"
                /\ via = "sse" /\ client = "connected" => Ended'
  BY <1>1, ToldEnded DEF Refuse
<1> USE <1>1, <1>2 DEF EndInv, ToldInv, Proceed
<1>3. CASE LoadConversation /\ UNCHANGED <<round, history, site>>
  BY <1>3 DEF LoadConversation, Ended
<1>4. CASE SaveUserMessage /\ UNCHANGED <<round, history, site>>
  BY <1>4 DEF SaveUserMessage, Ended
<1>5. CASE CannotRoute /\ UNCHANGED <<round, history, site>>
  BY <1>5 DEF CannotRoute
<1>6. CASE RespondTemporal /\ UNCHANGED <<round, history, site>>
  BY <1>6 DEF RespondTemporal, Ended
<1>7. CASE ReturnTemporal /\ UNCHANGED <<round, history, site>>
  BY <1>7 DEF ReturnTemporal, Opened, Ended
<1>8. CASE DeliverTemporal /\ UNCHANGED <<round, history, site>>
  <2>1. CASE at = "temporalText" /\ Deliver("content", FALSE)
    BY <1>8, <2>1, ToldEnded DEF DeliverTemporal, Deliver
  <2>2. CASE at = "temporalDone" /\ Deliver("finished", TRUE)
    BY <1>8, <2>2, ToldEnded DEF DeliverTemporal, Deliver
  <2> QED
    BY <1>8, <2>1, <2>2 DEF DeliverTemporal
<1>9. CASE StartWebsiteLoop /\ UNCHANGED <<round, history, site>>
  BY <1>9 DEF StartWebsiteLoop, Opened, Ended
<1>10. CASE StartAgentLoop
  BY <1>10 DEF StartAgentLoop, Opened, Rounds, Ended
<1> QED
  BY <1>3, <1>4, <1>5, <1>6, <1>7, <1>8, <1>9, <1>10 DEF Chat

(* The handler stops at a Done chunk or at a closed channel. *)
LEMMA EndOthers ==
  ASSUME TypeOK, EndInv, ToldInv,
         HandlerStep \/ ExtractStep \/ ClientStep \/ ProviderStep
  PROVE  EndInv' /\ ToldInv'
<1> USE DEF EndInv, ToldInv, Ended
<1>1. CASE HandlerStep
  BY <1>1 DEF HandlerStep, Handler, StreamClosed, AfterStream, Remember,
     Answer,
              Return
<1>2. CASE ExtractStep
  BY <1>2 DEF ExtractStep, Extract
<1>3. CASE ClientStep
  BY <1>3 DEF ClientStep, ClientLeaves
<1>4. CASE ProviderStep
  BY <1>4 DEF ProviderStep, StreamBreaks
<1> QED
  BY <1>1, <1>2, <1>3, <1>4

(* Every step. *)
LEMMA NextEnd ==
  ASSUME TypeOK, EndInv, ToldInv, [Next]_vars
  PROVE  EndInv' /\ ToldInv'
<1>1. CASE UNCHANGED vars
  BY <1>1 DEF vars, turnVars, EndInv, ToldInv, Ended
<1> QED
  BY <1>1, EndChat, EndAgent, EndWebsite, EndOthers DEF Next, Loop

(* The handler stops reading when the end has been told and the writes are
   done. *)
THEOREM TurnEndsInOrder == Spec => [](EndInv /\ ToldInv)
<1>1. Init => EndInv /\ ToldInv
  BY DEF Init, EndInv, ToldInv, NoRound
<1>2. TypeOK /\ EndInv /\ ToldInv /\ [Next]_vars => EndInv' /\ ToldInv'
  BY NextEnd
<1> QED
  BY <1>1, <1>2, TurnIsTyped, PTL DEF Spec

(* A client that is still there when the handler stops reading has been told
   that the turn is finished or that it failed. *)
THEOREM EndIsTold == Spec => []StreamTellsItsEnd
<1>1. EndInv /\ ToldInv => StreamTellsItsEnd
  BY DEF ToldInv, Ended, StreamTellsItsEnd
<1> QED
  BY <1>1, TurnEndsInOrder, PTL

(* Short of the last iteration, nothing is written after the handler has
   stopped reading. *)
THEOREM WritesAreDone == Spec => WritesPrecedeTheEnd
<1>1. EndInv /\ [Next]_vars => [NothingWritesLate]_vars
  <2> SUFFICES ASSUME EndInv, Next, handler \notin {"calling", "receiving"},
                      ~round.exhausted
               PROVE  UNCHANGED rows
    BY DEF NothingWritesLate
  <2>1. at \in {"refused", "close", "closed"}
    BY DEF EndInv
  <2>2. CASE Chat
    BY <2>1, <2>2 DEF Chat, LoadConversation, SaveUserMessage, CannotRoute,
       RespondTemporal, ReturnTemporal, DeliverTemporal, StartWebsiteLoop,
       StartAgentLoop
  <2>3. CASE AgentLoopStep
    BY <2>1, <2>3 DEF AgentLoopStep, AskModel, ReadContent, EmitContent,
       ReadToolCall, ReadDone, ReadClosed, Flush, Decide, AnnounceRetry,
       StartTool, ReportTool, SaveCalls, SaveTool, Exhaust, SaveAnswer,
       SaveState, Finish, Fail, RecordUsage, LogUsage, IncrementDailyUsage,
       CloseOut
  <2>4. CASE WebsiteLoopStep
    BY <2>1, <2>4 DEF WebsiteLoopStep, Begin, Attempt, SiteChunk, SiteEmit,
       SiteClosed, SiteFail, Check, Continue, AnnounceExtraction, Parse,
          Repair,
       Apologise, Sorry, SaveArtifact, SaveFiles, SaveSummary,
          RecordSiteUsage,
       LogUsage, IncrementDailyUsage, Show, SiteDone, CloseOut
  <2>5. CASE HandlerStep \/ ExtractStep \/ ClientStep \/ ProviderStep
    BY <2>5 DEF HandlerStep, Handler, StreamClosed, Remember, Answer, Return,
       ExtractStep, Extract, ClientStep, ClientLeaves, ProviderStep,
       StreamBreaks
  <2> QED
    BY <2>2, <2>3, <2>4, <2>5 DEF Next, Loop
<1> QED
  BY <1>1, TurnEndsInOrder, PTL DEF Spec, WritesPrecedeTheEnd

-----------------------------------------------------------------------------
(* What is in the database, and where the turn can be then. *)
Temporal == {"temporal", "temporalText", "temporalDone"}
Written == Temporal \union {"saveState", "logUsage", "rollup", "finish",
                            "sorry", "show", "siteDone"}

PlaceInv ==
  /\ rows.answer # "none" => at \in Written \union {"close", "closed"}
  /\ rows.log => at \in {"rollup", "finish", "show", "siteDone", "close",
                         "closed"}
  /\ rows.artifact =>
       /\ mode = "website"
       /\ at \in ArtifactPlaces \union {"saveFiles"}
  /\ at \in Temporal => mode = "temporal"
  /\ at \in {"load", "saveUser", "route", "temporal"} => handler = "calling"
  /\ site.files # "none" => ~site.html
  /\ at \in {"repair", "apologise"} => site.files = "invalid"

(* agentLoop writes its answer once, its usage after it. *)
LEMMA PlaceAgent ==
  ASSUME TypeOK, PlaceInv, mode = "chat", AgentLoopStep, UNCHANGED site
  PROVE  PlaceInv'
<1>1. rows \in Rows
  BY DEF TypeOK, TurnTypeOK
<1> USE <1>1 DEF PlaceInv, Written, Temporal, ArtifactPlaces
<1>2. CASE AskModel
  BY <1>2 DEF AskModel
<1>3. CASE ReadContent
  BY <1>3 DEF ReadContent
<1>4. CASE EmitContent
  BY <1>4 DEF EmitContent, Offer
<1>5. CASE ReadToolCall
  BY <1>5 DEF ReadToolCall, turnVars
<1>6. CASE ReadDone
  BY <1>6 DEF ReadDone
<1>7. CASE ReadClosed
  BY <1>7 DEF ReadClosed
<1>8. CASE Flush
  BY <1>8 DEF Flush, Offer
<1>9. CASE Decide
  BY <1>9 DEF Decide
<1>10. CASE AnnounceRetry
  BY <1>10 DEF AnnounceRetry, Offer
<1>11. CASE StartTool
  BY <1>11 DEF StartTool, Offer
<1>12. CASE ReportTool
  BY <1>12 DEF ReportTool, Offer
<1>13. CASE SaveCalls
  BY <1>13 DEF SaveCalls, Execute, Rows
<1>14. CASE SaveTool
  BY <1>14 DEF SaveTool, Execute, Rows
<1>15. CASE Exhaust
  BY <1>15 DEF Exhaust, Offer
<1>16. CASE SaveAnswer
  BY <1>16 DEF SaveAnswer, Execute, Rows
<1>17. CASE SaveState
  BY <1>17 DEF SaveState, Execute, Rows
<1>18. CASE Finish
  BY <1>18 DEF Finish, Offer
<1>19. CASE Fail
  BY <1>19 DEF Fail, Offer
<1>20. CASE RecordUsage
  BY <1>20 DEF RecordUsage, Execute, Rows, Succeeded, LogUsage,
          IncrementDailyUsage
<1>21. CASE CloseOut
  BY <1>21 DEF CloseOut
<1> QED
  BY <1>2, <1>3, <1>4, <1>5, <1>6, <1>7, <1>8, <1>9, <1>10, <1>11, <1>12,
     <1>13, <1>14, <1>15, <1>16, <1>17, <1>18, <1>19, <1>20, <1>21
  DEF AgentLoopStep

(* websiteAgentLoop writes the artifact, the answer, the usage. *)
LEMMA PlaceWebsite ==
  ASSUME TypeOK, PlaceInv, mode = "website", WebsiteLoopStep
  PROVE  PlaceInv'
<1>1. rows \in Rows /\ site \in Sites
  BY DEF TypeOK, TurnTypeOK
<1> USE <1>1 DEF PlaceInv, Written, Temporal, ArtifactPlaces, elsewhere
<1>2. CASE Begin
  BY <1>2 DEF Begin, Offer
<1>3. CASE Attempt
  BY <1>3 DEF Attempt, Silent, Sites
<1>4. CASE SiteChunk
  BY <1>4 DEF SiteChunk, Sites
<1>5. CASE SiteEmit
  BY <1>5 DEF SiteEmit, Offer
<1>6. CASE SiteClosed
  BY <1>6 DEF SiteClosed
<1>7. CASE SiteFail
  BY <1>7 DEF SiteFail, Offer
<1>8. CASE Check
  BY <1>8 DEF Check
<1>9. CASE Continue
  BY <1>9 DEF Continue, Offer
<1>10. CASE AnnounceExtraction
  BY <1>10 DEF AnnounceExtraction, Offer
<1>11. CASE Parse
  BY <1>11 DEF Parse, WithFiles, Sites
<1>12. CASE Repair
  BY <1>12 DEF Repair, Offer, WithFiles, Sites
<1>13. CASE Apologise
  BY <1>13 DEF Apologise, Execute, Succeeded, Rows
<1>14. CASE Sorry
  BY <1>14 DEF Sorry, Offer
<1>15. CASE SaveArtifact
  BY <1>15 DEF SaveArtifact, Execute, Succeeded, Rows, Sites
<1>16. CASE SaveFiles
  BY <1>16 DEF SaveFiles, Execute, Succeeded, Rows, Sites
<1>17. CASE SaveSummary
  BY <1>17 DEF SaveSummary, Execute, Succeeded, Rows
<1>18. CASE RecordSiteUsage
  BY <1>18 DEF RecordSiteUsage, Execute, Succeeded, Rows, LogUsage,
          IncrementDailyUsage
<1>19. CASE Show
  BY <1>19 DEF Show, Offer
<1>20. CASE SiteDone
  BY <1>20 DEF SiteDone, Offer
<1>21. CASE CloseOut /\ UNCHANGED site
  BY <1>21 DEF CloseOut
<1> QED
  BY <1>2, <1>3, <1>4, <1>5, <1>6, <1>7, <1>8, <1>9, <1>10, <1>11, <1>12,
     <1>13, <1>14, <1>15, <1>16, <1>17, <1>18, <1>19, <1>20, <1>21
  DEF WebsiteLoopStep

(* Chat writes none of them but the answer of a temporal query. *)
LEMMA PlaceChat ==
  ASSUME TypeOK, PlaceInv, Chat
  PROVE  PlaceInv'
<1>1. rows \in Rows /\ UNCHANGED site
  BY DEF TypeOK, TurnTypeOK, Chat
<1> USE <1>1 DEF PlaceInv, Written, Temporal, ArtifactPlaces, Proceed, Refuse
<1>2. CASE LoadConversation
  BY <1>2 DEF LoadConversation, Execute, Succeeded, Rows
<1>3. CASE SaveUserMessage
  BY <1>3 DEF SaveUserMessage, Execute, Succeeded, Rows
<1>4. CASE CannotRoute
  BY <1>4 DEF CannotRoute
<1>5. CASE RespondTemporal
  BY <1>5 DEF RespondTemporal, Execute, Succeeded, Rows
<1>6. CASE ReturnTemporal
  BY <1>6 DEF ReturnTemporal, Opened
<1>7. CASE DeliverTemporal
  BY <1>7 DEF DeliverTemporal
<1>8. CASE StartWebsiteLoop
  BY <1>8 DEF StartWebsiteLoop, Opened
<1>9. CASE StartAgentLoop
  BY <1>9 DEF StartAgentLoop, Opened
<1> QED
  BY <1>2, <1>3, <1>4, <1>5, <1>6, <1>7, <1>8, <1>9 DEF Chat

(* Every step. *)
LEMMA NextPlace ==
  ASSUME TypeOK, PlaceInv, [Next]_vars
  PROVE  PlaceInv'
<1>1. CASE HandlerStep \/ ExtractStep \/ ClientStep \/ ProviderStep
  <2>1. /\ UNCHANGED <<mode, at, rows, site>>
        /\ handler = "calling" => handler' = "calling"
    BY <1>1 DEF HandlerStep, Handler, StreamClosed, Remember, Answer, Return,
           ExtractStep, Extract, ClientStep, ClientLeaves, ProviderStep,
           StreamBreaks
  <2> QED
    BY <2>1 DEF PlaceInv
<1>2. CASE UNCHANGED vars
  BY <1>2 DEF vars, turnVars, PlaceInv
<1> QED
  BY <1>1, <1>2, PlaceChat, PlaceAgent, PlaceWebsite DEF Next, Loop

(* As long as no statement has failed and the context is live, every place
   comes with the rows of the steps before it. *)
Counting == {"load", "saveUser", "route", "ask", "read", "emit", "flush",
   "decide",
             "announce", "toolStart", "toolResult", "saveAnswer"}

Recorded == rows.log /\ rows.rollup

LiveInv ==
  ~faulted /\ ~Cancelled =>
    /\ at \in Counting =>
         rows.calls = history.calls /\ rows.tools = history.tools
    /\ at = "saveCalls" => /\ rows.calls + 1 = history.calls
                           /\ rows.tools + round.calls = history.tools
    /\ at = "saveTool" =>
         /\ rows.calls = history.calls
         /\ rows.tools + (round.calls - round.next) = history.tools
    /\ at \in Written => rows.answer # "none"
    /\ at = "rollup" => rows.log
    /\ at \in {"finish", "show"} => Recorded
    /\ at = "sorry" => rows.answer = "apology"
    /\ at = "siteDone" /\ rows.answer # "apology" => Recorded
    /\ at = "saveSummary" =>
         /\ site.html \/ site.files = "valid" => rows.artifact
         /\ site.files = "valid" => rows.files

(* A statement under a live context that did not fail was executed; under a
   dead one it did nothing. *)
LEMMA ExecuteLive ==
  ASSUME NEW new, Execute(new), UNCHANGED <<client, handler>>
  PROVE  /\ ~faulted' /\ ~Cancelled' => ~faulted /\ ~Cancelled /\ rows' = new
         /\ ~faulted' => ~faulted
         /\ ~faulted' => rows' = rows \/ (rows' = new /\ ~Cancelled)
BY DEF Execute, Cancelled

(* Under a live context an event was delivered. *)
LEMMA OfferLive ==
  ASSUME NEW event, NEW done, NEW next, NEW otherwise,
         Offer(event, done, next, otherwise), UNCHANGED client
  PROVE  ~Cancelled' => ~Cancelled /\ at' = next
BY DEF Offer, Deliver, Cancelled

(* agentLoop moves on with its rows written. *)
LEMMA LiveAgent ==
  ASSUME TypeOK, CountInv, PlaceInv, LiveInv, AgentLoopStep, UNCHANGED site
  PROVE  LiveInv'
<1>1. /\ rows \in Rows /\ round \in Rounds
      /\ history \in [calls : Nat, tools : Nat]
  BY DEF TypeOK, TurnTypeOK
<1> USE <1>1 DEF LiveInv, Counting, Written, Temporal, Recorded
<1>2. CASE AskModel
  BY <1>2 DEF AskModel, Cancelled, Rounds
<1>3. CASE ReadContent
  BY <1>3 DEF ReadContent, Cancelled
<1>4. CASE EmitContent
  <2>1. ~Cancelled' => ~Cancelled /\ at' = "read"
    BY <1>4, OfferLive DEF EmitContent
  <2> QED
    BY <1>4, <2>1 DEF EmitContent
<1>5. CASE ReadToolCall
  BY <1>5 DEF ReadToolCall, Cancelled, Rounds, turnVars
<1>6. CASE ReadDone
  BY <1>6 DEF ReadDone, Cancelled
<1>7. CASE ReadClosed
  BY <1>7 DEF ReadClosed, Cancelled
<1>8. CASE Flush
  <2>1. ~Cancelled' => ~Cancelled /\ at' = "decide"
    BY <1>8, OfferLive DEF Flush, Cancelled
  <2> QED
    BY <1>8, <2>1 DEF Flush
<1>9. CASE Decide
  BY <1>9 DEF Decide, Cancelled, Rounds
<1>10. CASE AnnounceRetry
  <2>1. ~Cancelled' => ~Cancelled /\ at' = "ask"
    BY <1>10, OfferLive DEF AnnounceRetry
  <2> QED
    BY <1>10, <2>1 DEF AnnounceRetry, Rounds
<1>11. CASE StartTool
  <2>1. ~Cancelled' => ~Cancelled /\ at' = "toolResult"
    BY <1>11, OfferLive DEF StartTool
  <2> QED
    BY <1>11, <2>1 DEF StartTool
<1>12. CASE ReportTool
  <2> DEFINE goal == IF round.next = round.calls THEN "saveCalls"
                     ELSE "toolStart"
  <2>0. Offer("tool_result", FALSE, goal, "close") /\ UNCHANGED client
    BY <1>12 DEF ReportTool
  <2>1. ~Cancelled' => ~Cancelled /\ at' = goal
    <3> HIDE DEF goal
    <3> QED
      BY <2>0, OfferLive
  <2> QED
    BY <1>12, <2>1 DEF ReportTool, Rounds, CountInv
<1>13. CASE SaveCalls
  <2>1. ~faulted' /\ ~Cancelled' =>
          /\ ~faulted /\ ~Cancelled
          /\ rows' = [rows EXCEPT !.calls = @ + 1]
    BY <1>13, ExecuteLive DEF SaveCalls
  <2> QED
    BY <1>13, <2>1 DEF SaveCalls, Rows, Rounds, CountInv
<1>14. CASE SaveTool
  <2>1. ~faulted' /\ ~Cancelled' =>
          /\ ~faulted /\ ~Cancelled
          /\ rows' = [rows EXCEPT !.tools = @ + 1]
    BY <1>14, ExecuteLive DEF SaveTool
  <2> QED
    BY <1>14, <2>1 DEF SaveTool, Rows, Rounds, Iterate, CountInv
<1>15. CASE Exhaust
  <2>1. ~Cancelled' => ~Cancelled /\ at' = "saveAnswer"
    BY <1>15, OfferLive DEF Exhaust
  <2> QED
    BY <1>15, <2>1 DEF Exhaust, Rounds
<1>16. CASE SaveAnswer
  <2>1. ~faulted' /\ ~Cancelled' =>
          /\ ~faulted /\ ~Cancelled
          /\ rows' = [rows EXCEPT !.answer = "text"]
    BY <1>16, ExecuteLive DEF SaveAnswer
  <2> QED
    BY <1>16, <2>1 DEF SaveAnswer, Rows
<1>17. CASE SaveState
  <2>1. ~faulted' /\ ~Cancelled' =>
          /\ ~faulted /\ ~Cancelled
          /\ rows' = [rows EXCEPT !.state = TRUE]
    BY <1>17, ExecuteLive DEF SaveState
  <2> QED
    BY <1>17, <2>1 DEF SaveState, Rows
<1>18. CASE Finish
  <2>1. ~Cancelled' => ~Cancelled /\ at' = "close"
    BY <1>18, OfferLive DEF Finish, Cancelled
  <2> QED
    BY <1>18, <2>1 DEF Finish
<1>19. CASE Fail
  <2>1. ~Cancelled' => ~Cancelled /\ at' = "close"
    BY <1>19, OfferLive DEF Fail
  <2> QED
    BY <1>19, <2>1 DEF Fail
<1>20. CASE LogUsage("finish") /\ UNCHANGED <<round, history>>
  <2>1. ~faulted' /\ ~Cancelled' =>
          /\ ~faulted /\ ~Cancelled
          /\ rows' = [rows EXCEPT !.log = TRUE]
    BY <1>20, ExecuteLive DEF LogUsage
  <2>2. ~rows.log
    BY <1>20 DEF LogUsage, PlaceInv
  <2> QED
    BY <1>20, <2>1, <2>2 DEF LogUsage, Succeeded, Rows
<1>21. CASE IncrementDailyUsage("finish") /\ UNCHANGED <<round, history>>
  <2>1. ~faulted' /\ ~Cancelled' =>
          /\ ~faulted /\ ~Cancelled
          /\ rows' = [rows EXCEPT !.rollup = TRUE]
    BY <1>21, ExecuteLive DEF IncrementDailyUsage
  <2> QED
    BY <1>21, <2>1 DEF IncrementDailyUsage, Rows
<1>22. CASE CloseOut
  BY <1>22 DEF CloseOut, Cancelled
<1> QED
  BY <1>2, <1>3, <1>4, <1>5, <1>6, <1>7, <1>8, <1>9, <1>10, <1>11, <1>12,
     <1>13, <1>14, <1>15, <1>16, <1>17, <1>18, <1>19, <1>20, <1>21, <1>22
  DEF AgentLoopStep, RecordUsage

(* websiteAgentLoop does. *)
LEMMA LiveWebsite ==
  ASSUME TypeOK, ArtifactInv, PlaceInv, LiveInv, WebsiteLoopStep,
         UNCHANGED <<round, history>>
  PROVE  LiveInv'
<1>1. rows \in Rows /\ site \in Sites
  BY DEF TypeOK, TurnTypeOK
<1> USE <1>1 DEF LiveInv, Counting, Written, Temporal, Recorded, elsewhere
<1>2. CASE Begin
  <2>1. ~Cancelled' => ~Cancelled /\ at' = "attempt"
    BY <1>2, OfferLive DEF Begin
  <2> QED
    BY <1>2, <2>1 DEF Begin
<1>3. CASE Attempt
  BY <1>3 DEF Attempt, Cancelled
<1>4. CASE SiteChunk
  BY <1>4 DEF SiteChunk, Cancelled, Sites
<1>5. CASE SiteEmit
  <2>1. ~Cancelled' => ~Cancelled /\ at' = "siteRead"
    BY <1>5, OfferLive DEF SiteEmit
  <2> QED
    BY <1>5, <2>1 DEF SiteEmit
<1>6. CASE SiteClosed
  BY <1>6 DEF SiteClosed, Cancelled
<1>7. CASE SiteFail
  <2>1. ~Cancelled' => ~Cancelled /\ at' = "close"
    BY <1>7, OfferLive DEF SiteFail
  <2> QED
    BY <1>7, <2>1 DEF SiteFail
<1>8. CASE Check
  BY <1>8 DEF Check, Cancelled
<1>9. CASE Continue
  <2>1. ~Cancelled' => ~Cancelled /\ at' = "attempt"
    BY <1>9, OfferLive DEF Continue
  <2> QED
    BY <1>9, <2>1 DEF Continue
<1>10. CASE AnnounceExtraction
  <2>1. ~Cancelled' => ~Cancelled /\ at' = "parse"
    BY <1>10, OfferLive DEF AnnounceExtraction
  <2> QED
    BY <1>10, <2>1 DEF AnnounceExtraction
<1>11. CASE Parse
  BY <1>11 DEF Parse, Cancelled, WithFiles, Sites
<1>12. CASE Repair
  <2>1. /\ ~Cancelled' => ~Cancelled
        /\ at' \in {"saveArtifact", "repair", "close", "apologise"}
    BY <1>12 DEF Repair, Offer, Deliver, Cancelled
  <2> QED
    BY <1>12, <2>1 DEF Repair
<1>13. CASE Apologise
  <2>1. ~faulted' /\ ~Cancelled' =>
          /\ ~faulted /\ ~Cancelled
          /\ rows' = [rows EXCEPT !.answer = "apology"]
    BY <1>13, ExecuteLive DEF Apologise
  <2> QED
    BY <1>13, <2>1 DEF Apologise, Rows
<1>14. CASE Sorry
  <2>1. ~Cancelled' => ~Cancelled /\ at' = "siteDone"
    BY <1>14, OfferLive DEF Sorry
  <2> QED
    BY <1>14, <2>1 DEF Sorry
<1>15. CASE SaveArtifact
  <2>1. ~faulted' /\ ~Cancelled' =>
          /\ ~faulted /\ ~Cancelled
          /\ rows' = [rows EXCEPT !.artifact = TRUE]
    BY <1>15, ExecuteLive DEF SaveArtifact
  <2> QED
    BY <1>15, <2>1 DEF SaveArtifact, Rows, Sites, Succeeded, PlaceInv,
       ArtifactPlaces
<1>16. CASE SaveFiles
  <2>1. ~faulted' /\ ~Cancelled' =>
          /\ ~faulted /\ ~Cancelled
          /\ rows' = [rows EXCEPT !.files = TRUE]
    BY <1>16, ExecuteLive DEF SaveFiles
  <2> QED
    BY <1>16, <2>1 DEF SaveFiles, Rows, Sites, Succeeded, ArtifactInv
<1>17. CASE SaveSummary
  <2>1. ~faulted' /\ ~Cancelled' =>
          /\ ~faulted /\ ~Cancelled
          /\ rows' = [rows EXCEPT !.answer =
                      IF site.artifact THEN "artifact" ELSE "summary"]
    BY <1>17, ExecuteLive DEF SaveSummary
  <2> QED
    BY <1>17, <2>1 DEF SaveSummary, Rows
<1>18. CASE LogUsage("show") /\ UNCHANGED site
  <2>1. ~faulted' /\ ~Cancelled' =>
          /\ ~faulted /\ ~Cancelled
          /\ rows' = [rows EXCEPT !.log = TRUE]
    BY <1>18, ExecuteLive DEF LogUsage
  <2>2. ~rows.log
    BY <1>18 DEF LogUsage, PlaceInv
  <2> QED
    BY <1>18, <2>1, <2>2 DEF LogUsage, Succeeded, Rows
<1>19. CASE IncrementDailyUsage("show") /\ UNCHANGED site
  <2>1. ~faulted' /\ ~Cancelled' =>
          /\ ~faulted /\ ~Cancelled
          /\ rows' = [rows EXCEPT !.rollup = TRUE]
    BY <1>19, ExecuteLive DEF IncrementDailyUsage
  <2> QED
    BY <1>19, <2>1 DEF IncrementDailyUsage, Rows
<1>20. CASE Show
  <2>1. ~Cancelled' => ~Cancelled /\ at' = "siteDone"
    BY <1>20, OfferLive DEF Show
  <2> QED
    BY <1>20, <2>1 DEF Show
<1>21. CASE SiteDone
  <2>1. ~Cancelled' => ~Cancelled /\ at' = "close"
    BY <1>21, OfferLive DEF SiteDone
  <2> QED
    BY <1>21, <2>1 DEF SiteDone
<1>22. CASE CloseOut
  BY <1>22 DEF CloseOut, Cancelled
<1> QED
  BY <1>2, <1>3, <1>4, <1>5, <1>6, <1>7, <1>8, <1>9, <1>10, <1>11, <1>12,
     <1>13, <1>14, <1>15, <1>16, <1>17, <1>18, <1>19, <1>20, <1>21, <1>22
  DEF WebsiteLoopStep, RecordSiteUsage

(* And Chat. *)
LEMMA LiveChat ==
  ASSUME TypeOK, PlaceInv, LiveInv, Chat
  PROVE  LiveInv'
<1>1. rows \in Rows
  BY DEF TypeOK, TurnTypeOK
<1> USE <1>1 DEF LiveInv, Counting, Written, Temporal, Recorded, Proceed,
   Refuse,
             Cancelled
<1>2. CASE LoadConversation /\ UNCHANGED <<round, history, site>>
  BY <1>2 DEF LoadConversation, Execute, Succeeded, Rows
<1>3. CASE SaveUserMessage /\ UNCHANGED <<round, history, site>>
  BY <1>3 DEF SaveUserMessage, Execute, Succeeded, Rows
<1>4. CASE CannotRoute /\ UNCHANGED <<round, history, site>>
  BY <1>4 DEF CannotRoute
<1>5. CASE RespondTemporal /\ UNCHANGED <<round, history, site>>
  BY <1>5 DEF RespondTemporal, Execute, Rows
<1>6. CASE ReturnTemporal /\ UNCHANGED <<round, history, site>>
  BY <1>6 DEF ReturnTemporal, Opened, PlaceInv
<1>7. CASE DeliverTemporal /\ UNCHANGED <<round, history, site>>
  BY <1>7 DEF DeliverTemporal, Deliver, AfterStream
<1>8. CASE StartWebsiteLoop /\ UNCHANGED <<round, history, site>>
  BY <1>8 DEF StartWebsiteLoop, Opened
<1>9. CASE StartAgentLoop /\ UNCHANGED <<history, site>>
  BY <1>9 DEF StartAgentLoop, Opened
<1> QED
  BY <1>2, <1>3, <1>4, <1>5, <1>6, <1>7, <1>8, <1>9 DEF Chat

(* Every step; nobody revives a context. *)
LEMMA NextLive ==
  ASSUME TypeOK, CountInv, ArtifactInv, PlaceInv, LiveInv, [Next]_vars
  PROVE  LiveInv'
<1>1. CASE HandlerStep \/ ExtractStep \/ ClientStep \/ ProviderStep
  <2>1. UNCHANGED <<at, rows, round, history, site>>
    BY <1>1 DEF HandlerStep, Handler, StreamClosed, Remember, Answer, Return,
           ExtractStep, Extract, ClientStep, ClientLeaves, ProviderStep,
           StreamBreaks
  <2>2. ~faulted' /\ ~Cancelled' => ~faulted /\ ~Cancelled
    BY <1>1 DEF HandlerStep, Handler, StreamClosed, Remember, Answer, Return,
           ExtractStep, Extract, ClientStep, ClientLeaves, ProviderStep,
           StreamBreaks, Cancelled
  <2> QED
    BY <2>1, <2>2 DEF LiveInv, Recorded
<1>2. CASE UNCHANGED vars
  BY <1>2 DEF vars, turnVars, LiveInv, Recorded, Cancelled
<1> QED
  BY <1>1, <1>2, LiveChat, LiveAgent, LiveWebsite DEF Next, Loop

(* What agentLoop writes rests on what it wrote before. *)
LEMMA HolesAgent ==
  ASSUME TypeOK, PlaceInv, LiveInv, NoHoles, mode = "chat", AgentLoopStep,
         UNCHANGED site
  PROVE  NoHoles'
<1>1. rows \in Rows
  BY DEF TypeOK, TurnTypeOK
<1> USE <1>1 DEF NoHoles
<1>2. mode' = mode
  BY DEF AgentLoopStep, AskModel, ReadContent, EmitContent, ReadToolCall,
     ReadDone,
         ReadClosed, Flush, Decide, AnnounceRetry, StartTool, ReportTool,
         SaveCalls, SaveTool, Exhaust, SaveAnswer, SaveState, Finish, Fail,
         RecordUsage, LogUsage, IncrementDailyUsage, CloseOut, turnVars
<1>3. CASE UNCHANGED <<rows, history, faulted>>
  BY <1>2, <1>3
<1>4. CASE ReportTool
  BY <1>2, <1>4 DEF ReportTool, PlaceInv, Written, Temporal
<1>5. CASE SaveCalls
  BY <1>5, ExecuteLive DEF SaveCalls, PlaceInv, Written, Temporal, Rows
<1>6. CASE SaveTool
  BY <1>6, ExecuteLive DEF SaveTool, PlaceInv, Written, Temporal, Rows
<1>7. CASE SaveAnswer
  BY <1>7, ExecuteLive DEF SaveAnswer, LiveInv, Counting, Rows
<1>8. CASE SaveState
  BY <1>8, ExecuteLive DEF SaveState, LiveInv, Written, Temporal, Rows
<1>9. CASE LogUsage("finish") /\ UNCHANGED <<round, history>>
  BY <1>9, ExecuteLive DEF LogUsage, LiveInv, Written, Temporal, Rows
<1>10. CASE IncrementDailyUsage("finish") /\ UNCHANGED <<round, history>>
  BY <1>10, ExecuteLive DEF IncrementDailyUsage, LiveInv, Rows
<1> QED
  BY <1>3, <1>4, <1>5, <1>6, <1>7, <1>8, <1>9, <1>10
  DEF AgentLoopStep, AskModel, ReadContent, EmitContent, ReadToolCall,
     ReadDone,
      ReadClosed, Flush, Decide, AnnounceRetry, StartTool, Exhaust, Finish,
      Fail, RecordUsage, CloseOut, turnVars

(* And so for websiteAgentLoop. *)
LEMMA HolesWebsite ==
  ASSUME TypeOK, PlaceInv, LiveInv, NoHoles, mode = "website",
     WebsiteLoopStep,
         UNCHANGED <<round, history>>
  PROVE  NoHoles'
<1>1. rows \in Rows /\ site \in Sites
  BY DEF TypeOK, TurnTypeOK
<1> USE <1>1 DEF NoHoles, elsewhere
<1>2. CASE UNCHANGED <<rows, site, mode, faulted>>
  BY <1>2
<1>3. CASE Attempt
  BY <1>3 DEF Attempt, PlaceInv, Written, Temporal
<1>4. CASE SiteChunk
  BY <1>4 DEF SiteChunk, PlaceInv, Written, Temporal
<1>5. CASE Parse
  BY <1>5 DEF Parse, PlaceInv, Written, Temporal
<1>6. CASE Repair
  BY <1>6 DEF Repair, PlaceInv, Written, Temporal
<1>7. CASE Apologise
  BY <1>7, ExecuteLive DEF Apologise, PlaceInv, Rows
<1>8. CASE SaveArtifact
  BY <1>8, ExecuteLive DEF SaveArtifact, PlaceInv, Written, Temporal, Rows,
     Sites
<1>9. CASE SaveFiles
  BY <1>9, ExecuteLive DEF SaveFiles, PlaceInv, Written, Temporal, Rows, Sites
<1>10. CASE SaveSummary
  BY <1>10, ExecuteLive DEF SaveSummary, LiveInv, Rows
<1>11. CASE LogUsage("show") /\ UNCHANGED site
  BY <1>11, ExecuteLive DEF LogUsage, LiveInv, Written, Temporal, Rows
<1>12. CASE IncrementDailyUsage("show") /\ UNCHANGED site
  BY <1>12, ExecuteLive DEF IncrementDailyUsage, LiveInv, Rows
<1> QED
  BY <1>2, <1>3, <1>4, <1>5, <1>6, <1>7, <1>8, <1>9, <1>10, <1>11, <1>12
  DEF WebsiteLoopStep, Begin, SiteEmit, SiteClosed, SiteFail, Check, Continue,
      AnnounceExtraction, Sorry, Show, SiteDone, RecordSiteUsage, CloseOut

(* Every step. *)
LEMMA NextHoles ==
  ASSUME TypeOK, PlaceInv, LiveInv, NoHoles, [Next]_vars
  PROVE  NoHoles'
<1>1. rows \in Rows
  BY DEF TypeOK, TurnTypeOK
<1>2. CASE Chat
  <2>1. rows.answer = "none" => (~rows.log /\ ~rows.state) \/ faulted
    BY DEF NoHoles
  <2>2. ~faulted' => ~faulted
    BY <1>2 DEF Chat, LoadConversation, SaveUserMessage, CannotRoute, Execute,
       RespondTemporal, ReturnTemporal, DeliverTemporal, StartWebsiteLoop,
       StartAgentLoop
  <2>3. CASE at = "route"
    <3>1. rows.answer = "none"
      BY <2>3 DEF PlaceInv, Written, Temporal
    <3>2. \/ UNCHANGED rows
          \/ mode' = "temporal" /\ rows' = [rows EXCEPT !.answer = "text"]
      BY <1>2, <2>3 DEF Chat, LoadConversation, SaveUserMessage, CannotRoute,
         Execute, RespondTemporal, ReturnTemporal, DeliverTemporal,
         StartWebsiteLoop, StartAgentLoop
    <3> QED
      BY <1>1, <2>1, <2>2, <3>1, <3>2 DEF NoHoles, Rows
  <2>4. CASE at # "route"
    <3>1. /\ UNCHANGED <<mode, history, site>>
          /\ \/ UNCHANGED rows
             \/ rows' = [rows EXCEPT !.conv = TRUE]
             \/ rows' = [rows EXCEPT !.user = TRUE]
      BY <1>2, <2>4 DEF Chat, LoadConversation, SaveUserMessage, CannotRoute,
         Execute, RespondTemporal, ReturnTemporal, DeliverTemporal,
         StartWebsiteLoop, StartAgentLoop
    <3> QED
      BY <1>1, <2>2, <3>1 DEF NoHoles, Rows
  <2> QED
    BY <2>3, <2>4
<1>3. CASE HandlerStep \/ ExtractStep \/ ClientStep \/ ProviderStep
  BY <1>3 DEF HandlerStep, Handler, StreamClosed, Remember, Answer, Return,
     ExtractStep, Extract, ClientStep, ClientLeaves, ProviderStep,
     StreamBreaks, NoHoles
<1>4. CASE UNCHANGED vars
  BY <1>4 DEF vars, turnVars, NoHoles
<1> QED
  BY <1>2, <1>3, <1>4, HolesAgent, HolesWebsite DEF Next, Loop

(* The four together are inductive. *)
StoredInv == TypeOK /\ CountInv /\ ArtifactInv /\ PlaceInv /\ LiveInv /\ NoHoles

(* The inductive invariant holds in every state of a turn. *)
THEOREM TurnIsStored == Spec => []StoredInv
<1>1. Init => StoredInv
  <2> SUFFICES ASSUME Init PROVE StoredInv
    OBVIOUS
  <2>1. ArtifactInv /\ PlaceInv
    BY DEF Init, ArtifactInv, PlaceInv, NoRows, NoSite, Temporal
  <2>2. LiveInv /\ NoHoles
    BY DEF Init, LiveInv, NoHoles, NoRows, NoSite, Counting, Written, Temporal
  <2> QED
    BY <2>1, <2>2, InitTypes DEF StoredInv
<1>2. StoredInv /\ [Next]_vars => StoredInv'
  BY NextTypes, NextArtifact, NextPlace, NextLive, NextHoles DEF StoredInv
<1> QED
  BY <1>1, <1>2, PTL DEF Spec

(* A turn that is cut off leaves the beginning of what it would have written. *)
THEOREM NothingIsMissing == Spec => []NoHoles
<1>1. StoredInv => NoHoles
  BY DEF StoredInv
<1> QED
  BY <1>1, TurnIsStored, PTL

-----------------------------------------------------------------------------
(* The end that is told is the end: short of the last iteration nothing but
   the channel is left to close. *)
FinishInv ==
  /\ "finished" \in wire.seen /\ ~round.exhausted => at \in {"close",
     "closed"}
  /\ FinishedTurnIsRecorded

(* Only "finished" is told as "finished", and to a client that listens. *)
LEMMA ToldFinishes ==
  ASSUME wire \in Wires, NEW event, wire' = Told(event),
         "finished" \in wire'.seen, "finished" \notin wire.seen
  PROVE  event = "finished" /\ client = "connected"
BY DEF Told, Wires

(* It is told under a live context. *)
LEMMA OfferFinishes ==
  ASSUME wire \in Wires, NEW event, NEW done, NEW next, NEW otherwise,
         Offer(event, done, next, otherwise),
         "finished" \in wire'.seen, "finished" \notin wire.seen
  PROVE  event = "finished" /\ ~Cancelled /\ at' = next
<1>1. Deliver(event, done) /\ at' = next
  BY DEF Offer
<1> QED
  BY <1>1, ToldFinishes DEF Deliver, Cancelled

(* OfferSeen for "finished". *)
LEMMA OfferNoFinish ==
  ASSUME wire \in Wires, NEW event, NEW done, NEW next, NEW otherwise,
         Offer(event, done, next, otherwise), event # "finished"
  PROVE  "finished" \in wire'.seen => "finished" \in wire.seen
BY OfferSeen

(* agentLoop finishes with everything recorded, or having used its iterations
   up. *)
LEMMA FinishAgent ==
  ASSUME TypeOK, PlaceInv, LiveInv, FinishInv, AgentLoopStep
  PROVE  FinishInv'
<1>1. wire \in Wires /\ round \in Rounds
  BY DEF TypeOK, TurnTypeOK
<1>2. round.exhausted => round'.exhausted
  BY <1>1 DEF Rounds, Iterate, AgentLoopStep, AskModel, ReadContent,
     EmitContent, ReadToolCall, ReadDone,
     ReadClosed, Flush, Decide, AnnounceRetry, StartTool, ReportTool,
     SaveCalls, SaveTool, Exhaust, SaveAnswer, SaveState, Finish, Fail,
     RecordUsage, LogUsage, IncrementDailyUsage, CloseOut, turnVars
<1>3. at \in {"close", "closed"} =>
        at' \in {"close", "closed"} /\ UNCHANGED <<rows, wire, mode, faulted>>
  BY DEF AgentLoopStep, AskModel, ReadContent, EmitContent, ReadToolCall,
     ReadDone,
     ReadClosed, Flush, Decide, AnnounceRetry, StartTool, ReportTool,
     SaveCalls, SaveTool, Exhaust, SaveAnswer, SaveState, Finish, Fail,
     RecordUsage, LogUsage, IncrementDailyUsage, CloseOut, turnVars
<1>4. CASE "finished" \in wire'.seen /\ "finished" \notin wire.seen
  <2>1. CASE Exhaust
    BY <1>1, <2>1 DEF Exhaust, FinishInv, FinishedTurnIsRecorded, Rounds
  <2>2. CASE Finish
    <3>1. ~round.exhausted =>
            Offer("finished", TRUE, "close", "close")
      BY <2>2 DEF Finish
    <3>2. ~round.exhausted => ~Cancelled /\ at' = "close"
      BY <1>1, <1>4, <3>1, OfferFinishes
    <3>3. at = "finish" /\ UNCHANGED <<round, rows, mode, faulted>>
      BY <2>2 DEF Finish
    <3> QED
      BY <3>2, <3>3
      DEF FinishInv, FinishedTurnIsRecorded, LiveInv, Written, Recorded
  <2>3. Exhaust \/ Finish
    BY <1>1, <1>4, OfferNoFinish
    DEF AgentLoopStep, AskModel, ReadContent, EmitContent, ReadToolCall,
       ReadDone,
        ReadClosed, Flush, Decide, AnnounceRetry, StartTool, ReportTool,
        SaveCalls, SaveTool, SaveAnswer, SaveState, Fail, RecordUsage,
        LogUsage, IncrementDailyUsage, CloseOut, turnVars
  <2> QED
    BY <2>1, <2>2, <2>3
<1> QED
  BY <1>2, <1>3, <1>4 DEF FinishInv, FinishedTurnIsRecorded

(* websiteAgentLoop finishes with everything recorded. *)
LEMMA FinishWebsite ==
  ASSUME TypeOK, PlaceInv, LiveInv, FinishInv, WebsiteLoopStep,
         UNCHANGED <<round, history>>
  PROVE  FinishInv'
<1>1. wire \in Wires
  BY DEF TypeOK, TurnTypeOK
<1>2. at \in {"close", "closed"} =>
        at' \in {"close", "closed"} /\ UNCHANGED <<rows, wire, mode, faulted>>
  BY DEF WebsiteLoopStep, elsewhere, Begin, Attempt, SiteChunk, SiteEmit,
     SiteClosed, SiteFail, Check, Continue, AnnounceExtraction, Parse, Repair,
     Apologise, Sorry, SaveArtifact, SaveFiles, SaveSummary, RecordSiteUsage,
     LogUsage, IncrementDailyUsage, Show, SiteDone, CloseOut
<1>3. CASE "finished" \in wire'.seen /\ "finished" \notin wire.seen
  <2>1. CASE SiteDone
    <3>1. ~Cancelled /\ at' = "close"
      BY <1>1, <1>3, <2>1, OfferFinishes DEF SiteDone
    <3>2. at = "siteDone" /\ UNCHANGED <<rows, mode, faulted>>
      BY <2>1 DEF SiteDone, elsewhere
    <3> QED
      BY <3>1, <3>2
      DEF FinishInv, FinishedTurnIsRecorded, LiveInv, Written, Recorded
  <2>2. SiteDone
    BY <1>1, <1>3, OfferNoFinish
    DEF WebsiteLoopStep, Begin, Attempt, SiteChunk, SiteEmit, SiteClosed,
        SiteFail, Check, Continue, AnnounceExtraction, Parse, Repair,
           Apologise,
        Sorry, SaveArtifact, SaveFiles, SaveSummary, RecordSiteUsage,
           LogUsage,
        IncrementDailyUsage, Show, CloseOut, elsewhere
  <2> QED
    BY <2>1, <2>2
<1> QED
  BY <1>2, <1>3 DEF FinishInv, FinishedTurnIsRecorded

(* An answer without a model is stored before it is told. *)
LEMMA FinishChat ==
  ASSUME TypeOK, CountInv, PlaceInv, LiveInv, FinishInv, Chat
  PROVE  FinishInv'
<1>1. wire \in Wires /\ round \in Rounds
  BY DEF TypeOK, TurnTypeOK
<1>2. at \in ChatPlaces \ {"refused"}
  BY DEF Chat, LoadConversation, SaveUserMessage, CannotRoute,
     RespondTemporal,
     ReturnTemporal, DeliverTemporal, StartWebsiteLoop, StartAgentLoop,
     ChatPlaces
<1>3. "finished" \notin wire.seen
  BY <1>2 DEF CountInv, NoRound, FinishInv, ChatPlaces
<1>4. CASE at = "temporalDone" /\ DeliverTemporal
        /\ UNCHANGED <<round, history, site>>
  <2>1. /\ Deliver("finished", TRUE) /\ at' = "closed"
        /\ UNCHANGED <<rows, faulted, mode>>
    BY <1>4 DEF DeliverTemporal
  <2>2. "finished" \in wire'.seen => ~Cancelled
    BY <1>1, <1>3, <2>1, ToldFinishes DEF Deliver, Cancelled
  <2>3. mode = "temporal"
    BY <1>4 DEF PlaceInv, Temporal
  <2> QED
    BY <1>4, <2>1, <2>2, <2>3
    DEF FinishInv, FinishedTurnIsRecorded, LiveInv, Written, Temporal
<1>5. CASE ~(at = "temporalDone" /\ DeliverTemporal)
  <2>1. wire' = wire \/ wire' = Told("error") \/ wire' = Told("content")
    BY <1>5 DEF Chat, LoadConversation, SaveUserMessage, CannotRoute, Refuse,
       Proceed, Deliver, RespondTemporal, ReturnTemporal, DeliverTemporal,
       StartWebsiteLoop, StartAgentLoop
  <2>2. "finished" \notin wire'.seen
    BY <1>1, <1>3, <2>1, ToldFinishes
  <2> QED
    BY <2>2 DEF FinishInv, FinishedTurnIsRecorded
<1> QED
  BY <1>4, <1>5 DEF Chat, StartAgentLoop, DeliverTemporal

(* Every step. *)
LEMMA NextFinish ==
  ASSUME StoredInv, FinishInv, [Next]_vars
  PROVE  FinishInv'
<1>1. TypeOK /\ CountInv /\ PlaceInv /\ LiveInv
  BY DEF StoredInv
<1>2. CASE HandlerStep \/ ExtractStep \/ ClientStep \/ ProviderStep
  <2>1. UNCHANGED <<wire, at, rows, mode, round>> /\ (~faulted' => ~faulted)
    BY <1>2 DEF HandlerStep, Handler, StreamClosed, Remember, Answer, Return,
       ExtractStep, Extract, ClientStep, ClientLeaves, ProviderStep,
       StreamBreaks
  <2> QED
    BY <2>1 DEF FinishInv, FinishedTurnIsRecorded
<1>3. CASE UNCHANGED vars
  BY <1>3 DEF vars, turnVars, FinishInv, FinishedTurnIsRecorded
<1> QED
  BY <1>1, <1>2, <1>3, FinishChat, FinishAgent, FinishWebsite DEF Next, Loop

(* A stream that told its client it was finished, short of the last iteration
   and without a database error, has stored its answer and counted its use. *)
THEOREM FinishedIsRecorded == Spec => []FinishedTurnIsRecorded
<1>1. Init => FinishInv
  BY DEF Init, FinishInv, FinishedTurnIsRecorded
<1>2. StoredInv /\ FinishInv /\ [Next]_vars => FinishInv'
  BY NextFinish
<1>3. FinishInv => FinishedTurnIsRecorded
  BY DEF FinishInv
<1> QED
  BY <1>1, <1>2, <1>3, TurnIsStored, PTL DEF Spec

(* Except at the last iteration, the end of a turn is told after all that it
   records, and nothing is written once the handler has read it. *)
THEOREM EndComesLast == Spec => TheEndComesLast
<1> QED
  BY FinishedIsRecorded, WritesAreDone, PTL
     DEF TheEndComesLast, WritesPrecedeTheEnd

-----------------------------------------------------------------------------
(* The protocol.  The last event a listening client has seen tells whether a
   tool runs and whether the turn is over. *)
LastInv ==
  /\ handler = "calling" \/ via # "sse" => wire.last = "none"
  /\ wire.last = "finished" => handler \notin {"calling", "receiving"}
  /\ ~Cancelled /\ via = "sse" =>
       (wire.last = "tool_start" <=> at = "toolResult")

(* A tool's start, and nothing else, is told on the way to its result; the end
   is told with Done. *)
LEMMA OfferKeepsLast ==
  ASSUME TypeOK, LastInv, NEW event, NEW done, NEW next, NEW otherwise,
         Offer(event, done, next, otherwise), UNCHANGED <<via, client>>,
         event # "finished" \/ done,
         \/ event # "tool_start" /\ next # "toolResult"
         \/ event = "tool_start" /\ next = "toolResult"
  PROVE  LastInv'
<1>1. CASE Deliver(event, done) /\ at' = next
  <2>1. CASE client = "connected" /\ via = "sse"
    <3>1. wire'.last = event
      BY <1>1, <2>1 DEF Deliver, Told
    <3> QED
      BY <1>1, <2>1, <3>1 DEF LastInv, Deliver, AfterStream, Cancelled
  <2>2. CASE ~(client = "connected" /\ via = "sse")
    <3>1. wire' = wire
      BY <1>1, <2>2 DEF Deliver, Told
    <3> QED
      BY <1>1, <2>2, <3>1 DEF TypeOK, TurnTypeOK, LastInv, Deliver,
         AfterStream, Cancelled
  <2> QED
    BY <2>1, <2>2
<1>2. CASE Cancelled /\ UNCHANGED <<handler, wire>>
  BY <1>2 DEF LastInv, Cancelled
<1> QED
  BY <1>1, <1>2 DEF Offer

(* agentLoop keeps the order of events. *)
LEMMA LastAgent ==
  ASSUME TypeOK, LastInv, AgentLoopStep
  PROVE  LastInv'
<1>1. CASE AskModel
  BY <1>1 DEF AskModel, LastInv, Cancelled
<1>2. CASE ReadContent
  BY <1>2 DEF ReadContent, LastInv, Cancelled
<1>3. CASE EmitContent
  BY <1>3, OfferKeepsLast DEF EmitContent
<1>4. CASE ReadToolCall
  BY <1>4 DEF ReadToolCall, LastInv, Cancelled, turnVars
<1>5. CASE ReadDone
  BY <1>5 DEF ReadDone, LastInv, Cancelled
<1>6. CASE ReadClosed
  BY <1>6 DEF ReadClosed, LastInv, Cancelled
<1>7. CASE Flush
  BY <1>7, OfferKeepsLast DEF Flush, LastInv, Cancelled
<1>8. CASE Decide
  BY <1>8 DEF Decide, LastInv, Cancelled
<1>9. CASE AnnounceRetry
  BY <1>9, OfferKeepsLast DEF AnnounceRetry
<1>10. CASE StartTool
  BY <1>10, OfferKeepsLast DEF StartTool
<1>11. CASE ReportTool
  BY <1>11, OfferKeepsLast DEF ReportTool
<1>12. CASE SaveCalls
  BY <1>12 DEF SaveCalls, LastInv, Cancelled
<1>13. CASE SaveTool
  BY <1>13 DEF SaveTool, LastInv, Cancelled
<1>14. CASE Exhaust
  BY <1>14, OfferKeepsLast DEF Exhaust
<1>15. CASE SaveAnswer
  BY <1>15 DEF SaveAnswer, LastInv, Cancelled
<1>16. CASE SaveState
  BY <1>16 DEF SaveState, LastInv, Cancelled
<1>17. CASE Finish
  BY <1>17, OfferKeepsLast DEF Finish, LastInv, Cancelled
<1>18. CASE Fail
  BY <1>18, OfferKeepsLast DEF Fail
<1>19. CASE RecordUsage
  BY <1>19 DEF RecordUsage, LastInv, Cancelled, LogUsage, IncrementDailyUsage
<1>20. CASE CloseOut
  BY <1>20 DEF CloseOut, LastInv, Cancelled
<1> QED
  BY <1>1, <1>2, <1>3, <1>4, <1>5, <1>6, <1>7, <1>8, <1>9, <1>10, <1>11,
     <1>12, <1>13, <1>14, <1>15, <1>16, <1>17, <1>18, <1>19, <1>20
  DEF AgentLoopStep

(* websiteAgentLoop runs no tools. *)
LEMMA LastWebsite ==
  ASSUME TypeOK, LastInv, WebsiteLoopStep
  PROVE  LastInv'
<1> USE DEF elsewhere
<1>1. CASE Begin
  BY <1>1, OfferKeepsLast DEF Begin
<1>2. CASE Attempt
  BY <1>2 DEF Attempt, LastInv, Cancelled
<1>3. CASE SiteChunk
  BY <1>3 DEF SiteChunk, LastInv, Cancelled
<1>4. CASE SiteEmit
  BY <1>4, OfferKeepsLast DEF SiteEmit
<1>5. CASE SiteClosed
  BY <1>5 DEF SiteClosed, LastInv, Cancelled
<1>6. CASE SiteFail
  BY <1>6, OfferKeepsLast DEF SiteFail
<1>7. CASE Check
  BY <1>7 DEF Check, LastInv, Cancelled
<1>8. CASE Continue
  BY <1>8, OfferKeepsLast DEF Continue
<1>9. CASE AnnounceExtraction
  BY <1>9, OfferKeepsLast DEF AnnounceExtraction
<1>10. CASE Parse
  BY <1>10 DEF Parse, LastInv, Cancelled
<1>11. CASE Repair
  BY <1>11, OfferKeepsLast DEF Repair, LastInv, Cancelled
<1>12. CASE Apologise
  BY <1>12 DEF Apologise, LastInv, Cancelled
<1>13. CASE Sorry
  BY <1>13, OfferKeepsLast DEF Sorry
<1>14. CASE SaveArtifact
  BY <1>14 DEF SaveArtifact, LastInv, Cancelled
<1>15. CASE SaveFiles
  BY <1>15 DEF SaveFiles, LastInv, Cancelled
<1>16. CASE SaveSummary
  BY <1>16 DEF SaveSummary, LastInv, Cancelled
<1>17. CASE RecordSiteUsage
  BY <1>17 DEF RecordSiteUsage, LastInv, Cancelled, LogUsage,
          IncrementDailyUsage
<1>18. CASE Show
  BY <1>18, OfferKeepsLast DEF Show
<1>19. CASE SiteDone
  BY <1>19, OfferKeepsLast DEF SiteDone
<1>20. CASE CloseOut
  BY <1>20 DEF CloseOut, LastInv, Cancelled
<1> QED
  BY <1>1, <1>2, <1>3, <1>4, <1>5, <1>6, <1>7, <1>8, <1>9, <1>10, <1>11,
     <1>12, <1>13, <1>14, <1>15, <1>16, <1>17, <1>18, <1>19, <1>20
  DEF WebsiteLoopStep

(* Chat opens the stream with nothing told. *)
LEMMA LastChat ==
  ASSUME TypeOK, PlaceInv, LastInv, Chat
  PROVE  LastInv'
<1>1. wire \in Wires /\ handler \in Handlers
  BY DEF TypeOK, TurnTypeOK
<1>2. CASE Refuse
  <2>1. wire'.last \in {wire.last, "error"} /\ at' = "refused"
        /\ (via # "sse" => wire' = wire)
        /\ handler' = "returning" /\ UNCHANGED <<via, client>>
    BY <1>2 DEF Refuse, Told, Chat, LoadConversation, SaveUserMessage,
       CannotRoute, RespondTemporal,
     ReturnTemporal, DeliverTemporal, StartWebsiteLoop, StartAgentLoop
  <2>2. at \in {"load", "saveUser", "route"}
    BY <1>2 DEF Refuse, Opened, Chat, LoadConversation, SaveUserMessage,
       CannotRoute,
       RespondTemporal, ReturnTemporal, DeliverTemporal, StartWebsiteLoop,
       StartAgentLoop
  <2> QED
    BY <2>1, <2>2 DEF LastInv, Cancelled, PlaceInv
<1>3. CASE ~Refuse
  <2> USE <1>3 DEF LastInv, Cancelled, Proceed, Opened
  <2>1. CASE LoadConversation
    BY <2>1 DEF LoadConversation
  <2>2. CASE SaveUserMessage
    BY <2>2 DEF SaveUserMessage
  <2>3. CASE CannotRoute
    BY <2>3 DEF CannotRoute
  <2>4. CASE RespondTemporal
    BY <2>4 DEF RespondTemporal
  <2>5. CASE ReturnTemporal
    BY <2>5 DEF ReturnTemporal, PlaceInv
  <2>6. CASE DeliverTemporal
    <3>1. CASE client = "connected" /\ via = "sse"
      BY <2>6, <3>1 DEF DeliverTemporal, Deliver, Told, AfterStream
    <3>2. CASE ~(client = "connected" /\ via = "sse")
      BY <2>6, <3>2 DEF DeliverTemporal, Deliver, Told, AfterStream, TypeOK,
                        TurnTypeOK
    <3> QED
      BY <3>1, <3>2
  <2>7. CASE StartWebsiteLoop
    BY <2>7 DEF StartWebsiteLoop, PlaceInv
  <2>8. CASE StartAgentLoop
    BY <2>8 DEF StartAgentLoop, PlaceInv
  <2> QED
    BY <2>1, <2>2, <2>3, <2>4, <2>5, <2>6, <2>7, <2>8 DEF Chat
<1> QED
  BY <1>2, <1>3

(* Every step. *)
LEMMA NextLast ==
  ASSUME TypeOK, PlaceInv, LastInv, [Next]_vars
  PROVE  LastInv'
<1>1. CASE HandlerStep
  BY <1>1 DEF HandlerStep, Handler, StreamClosed, AfterStream, Remember,
     Answer,
     Return, LastInv, Cancelled
<1>2. CASE ExtractStep \/ ClientStep \/ ProviderStep
  BY <1>2 DEF ExtractStep, Extract, ClientStep, ClientLeaves, ProviderStep,
     StreamBreaks, LastInv, Cancelled
<1>3. CASE UNCHANGED vars
  BY <1>3 DEF vars, turnVars, LastInv, Cancelled
<1> QED
  BY <1>1, <1>2, <1>3, LastChat, LastAgent, LastWebsite DEF Next, Loop

ProtocolStep == [Protocol!Next]_(Protocol!vars)

(* A step that moves neither the phase nor the answer. *)
LEMMA SilentStep ==
  ASSUME UNCHANGED <<client, handler, wire>>,
         at = "refused" <=> at' = "refused",
         rows.answer = "none" <=> rows'.answer = "none"
  PROVE  ProtocolStep
<1>1. Phase' = Phase
  BY DEF Phase
<1>2. (rows.answer # "none")' = (rows.answer # "none")
  OBVIOUS
<1> QED
  BY <1>1, <1>2 DEF ProtocolStep, Protocol!vars

(* A statement that stores the answer. *)
LEMMA StoreStep ==
  ASSUME TypeOK, LastInv, NEW answer,
     Execute([rows EXCEPT !.answer = answer]),
         answer # "none", rows.answer = "none",
         UNCHANGED <<client, handler, wire>>,
         at \notin {"toolResult", "refused"}, at' # "refused"
  PROVE  ProtocolStep
<1>1. rows \in Rows
  BY DEF TypeOK, TurnTypeOK
<1>2. CASE rows' = rows
  BY <1>2, SilentStep
<1>3. CASE ~Cancelled /\ rows' = [rows EXCEPT !.answer = answer]
  <2>1. rows'.answer = answer
    BY <1>1, <1>3 DEF Rows
  <2>2. Phase' = Phase
    BY DEF Phase
  <2>3. Phase # "tool"
    BY <1>3 DEF Phase, LastInv, Cancelled
  <2>4. Protocol!Store
    BY <2>1, <2>2, <2>3 DEF Protocol!Store
  <2> QED
    BY <2>4 DEF ProtocolStep, Protocol!Next
<1> QED
  BY <1>2, <1>3 DEF Execute

(* A step that offers an event: between "tool_start" and "tool_result" nothing,
   after "finished" nothing. *)
LEMMA OfferStep ==
  ASSUME TypeOK, LastInv, NEW event \in Events, NEW done, NEW next,
     NEW otherwise,
         Offer(event, done, next, otherwise), UNCHANGED <<via, client, rows>>,
         at # "refused", next # "refused", otherwise # "refused",
         \/ event # "tool_result" /\ at # "toolResult"
         \/ event = "tool_result" /\ at = "toolResult"
  PROVE  ProtocolStep
<1>1. CASE Cancelled /\ at' = otherwise /\ UNCHANGED <<handler, wire>>
  BY <1>1, SilentStep
<1>2. CASE Deliver(event, done) /\ at' = next
  <2>1. handler = "receiving" /\ handler' \notin {"calling", "returned"}
        /\ wire' = Told(event) /\ at' # "refused"
    BY <1>2 DEF Deliver, AfterStream
  <2>2. CASE client = "connected" /\ via = "sse"
    <3>1. wire'.last = event
      BY <2>1, <2>2 DEF Told
    <3>2. /\ wire.last # "finished"
          /\ wire.last = "tool_start" <=> at = "toolResult"
      BY <2>1, <2>2 DEF LastInv, Cancelled
    <3>3. /\ Phase = IF at = "toolResult" THEN "tool"
                     ELSE IF wire.last = "tool_result" THEN "result" ELSE "open"
          /\ Phase' = CASE event = "tool_start" -> "tool"
                        [] event = "tool_result" -> "result"
                        [] event = "finished" -> "finished"
                        [] OTHER -> "open"
      BY <2>1, <2>2, <3>1, <3>2 DEF Phase
    <3>4. UNCHANGED (rows.answer # "none")
      OBVIOUS
    <3> QED
      BY <3>3, <3>4
      DEF ProtocolStep, Protocol!vars, Protocol!Next, Protocol!ToolStart,
          Protocol!ToolResult, Protocol!Resume, Protocol!Finish
  <2>3. CASE ~(client = "connected" /\ via = "sse")
    <3>1. wire' = wire
      BY <2>1, <2>3 DEF Told
    <3>2. Phase' = Phase
      BY <2>1, <2>3, <3>1 DEF Phase, LastInv
    <3>3. UNCHANGED (rows.answer # "none")
      OBVIOUS
    <3> QED
      BY <3>2, <3>3 DEF ProtocolStep, Protocol!vars
  <2> QED
    BY <2>2, <2>3
<1> QED
  BY <1>1, <1>2 DEF Offer

(* Every step of agentLoop is a step of the protocol, or silent. *)
LEMMA ProtocolAgent ==
  ASSUME TypeOK, PlaceInv, LastInv, AgentLoopStep
  PROVE  ProtocolStep
<1>1. rows \in Rows
  BY DEF TypeOK, TurnTypeOK
<1> USE <1>1, EventsOK
<1>2. CASE AskModel
  BY <1>2, SilentStep DEF AskModel
<1>3. CASE ReadContent
  BY <1>3, SilentStep DEF ReadContent
<1>4. CASE EmitContent
  BY <1>4, OfferStep DEF EmitContent
<1>5. CASE ReadToolCall
  BY <1>5, SilentStep DEF ReadToolCall, turnVars
<1>6. CASE ReadDone
  BY <1>6, SilentStep DEF ReadDone
<1>7. CASE ReadClosed
  BY <1>7, SilentStep DEF ReadClosed
<1>8. CASE Flush
  BY <1>8, OfferStep, SilentStep DEF Flush
<1>9. CASE Decide
  BY <1>9, SilentStep DEF Decide
<1>10. CASE AnnounceRetry
  BY <1>10, OfferStep DEF AnnounceRetry
<1>11. CASE StartTool
  BY <1>11, OfferStep DEF StartTool
<1>12. CASE ReportTool
  BY <1>12, OfferStep DEF ReportTool
<1>13. CASE SaveCalls
  BY <1>13, SilentStep DEF SaveCalls, Execute, Rows
<1>14. CASE SaveTool
  BY <1>14, SilentStep DEF SaveTool, Execute, Rows
<1>15. CASE Exhaust
  BY <1>15, OfferStep DEF Exhaust
<1>16. CASE SaveAnswer
  BY <1>16, StoreStep DEF SaveAnswer, PlaceInv, Written, Temporal
<1>17. CASE SaveState
  BY <1>17, SilentStep DEF SaveState, Execute, Rows
<1>18. CASE Finish
  BY <1>18, OfferStep, SilentStep DEF Finish
<1>19. CASE Fail
  BY <1>19, OfferStep DEF Fail
<1>20. CASE RecordUsage
  BY <1>20, SilentStep DEF RecordUsage, Execute, Rows, LogUsage,
          IncrementDailyUsage
<1>21. CASE CloseOut
  BY <1>21, SilentStep DEF CloseOut
<1> QED
  BY <1>2, <1>3, <1>4, <1>5, <1>6, <1>7, <1>8, <1>9, <1>10, <1>11, <1>12,
     <1>13, <1>14, <1>15, <1>16, <1>17, <1>18, <1>19, <1>20, <1>21
  DEF AgentLoopStep

(* And of websiteAgentLoop. *)
LEMMA ProtocolWebsite ==
  ASSUME TypeOK, PlaceInv, LastInv, WebsiteLoopStep
  PROVE  ProtocolStep
<1>1. rows \in Rows
  BY DEF TypeOK, TurnTypeOK
<1> USE <1>1, EventsOK DEF elsewhere
<1>2. CASE Begin
  BY <1>2, OfferStep DEF Begin
<1>3. CASE Attempt
  BY <1>3, SilentStep DEF Attempt
<1>4. CASE SiteChunk
  BY <1>4, SilentStep DEF SiteChunk
<1>5. CASE SiteEmit
  BY <1>5, OfferStep DEF SiteEmit
<1>6. CASE SiteClosed
  BY <1>6, SilentStep DEF SiteClosed
<1>7. CASE SiteFail
  BY <1>7, OfferStep DEF SiteFail
<1>8. CASE Check
  BY <1>8, SilentStep DEF Check
<1>9. CASE Continue
  BY <1>9, OfferStep DEF Continue
<1>10. CASE AnnounceExtraction
  BY <1>10, OfferStep DEF AnnounceExtraction
<1>11. CASE Parse
  BY <1>11, SilentStep DEF Parse
<1>12. CASE Repair
  BY <1>12, OfferStep, SilentStep DEF Repair
<1>13. CASE Apologise
  BY <1>13, StoreStep DEF Apologise, PlaceInv, Written, Temporal
<1>14. CASE Sorry
  BY <1>14, OfferStep DEF Sorry
<1>15. CASE SaveArtifact
  BY <1>15, SilentStep DEF SaveArtifact, Execute, Rows
<1>16. CASE SaveFiles
  BY <1>16, SilentStep DEF SaveFiles, Execute, Rows
<1>17. CASE SaveSummary
  BY <1>17, StoreStep DEF SaveSummary, PlaceInv, Written, Temporal
<1>18. CASE RecordSiteUsage
  BY <1>18, SilentStep DEF RecordSiteUsage, Execute, Rows, LogUsage,
          IncrementDailyUsage
<1>19. CASE Show
  BY <1>19, OfferStep DEF Show
<1>20. CASE SiteDone
  BY <1>20, OfferStep DEF SiteDone
<1>21. CASE CloseOut
  BY <1>21, SilentStep DEF CloseOut
<1> QED
  BY <1>2, <1>3, <1>4, <1>5, <1>6, <1>7, <1>8, <1>9, <1>10, <1>11, <1>12,
     <1>13, <1>14, <1>15, <1>16, <1>17, <1>18, <1>19, <1>20, <1>21
  DEF WebsiteLoopStep

(* The request is accepted. *)
LEMMA OpenStep ==
  ASSUME LastInv, handler = "calling", handler' = "receiving",
         UNCHANGED <<client, wire, rows>>, at # "refused", at' # "refused"
  PROVE  ProtocolStep
<1>1. UNCHANGED (rows.answer # "none")
  OBVIOUS
<1>2. CASE client = "left"
  <2>1. Phase' = Phase
    BY <1>2 DEF Phase
  <2> QED
    BY <1>1, <2>1 DEF ProtocolStep, Protocol!vars
<1>3. CASE client # "left"
  <2>1. Phase = "pending" /\ Phase' = "open"
    BY <1>3 DEF Phase, LastInv
  <2> QED
    BY <1>1, <2>1 DEF ProtocolStep, Protocol!Next, Protocol!Open
<1> QED
  BY <1>2, <1>3

(* The turn is over for the client, and was not stored in the same step. *)
LEMMA OverStep ==
  ASSUME rows.answer = "none" <=> rows'.answer = "none", Phase' = "over"
  PROVE  ProtocolStep
<1>1. (rows.answer # "none")' = (rows.answer # "none")
  OBVIOUS
<1> QED
  BY <1>1 DEF ProtocolStep, Protocol!vars, Protocol!Next, Protocol!Over

(* And of Chat. *)
LEMMA ProtocolChat ==
  ASSUME TypeOK, PlaceInv, LastInv, Chat
  PROVE  ProtocolStep
<1>1. rows \in Rows
  BY DEF TypeOK, TurnTypeOK
<1> USE <1>1, EventsOK
<1>2. CASE Refuse
  <2>1. Phase' = "over"
    BY <1>2 DEF Refuse, Phase
  <2>2. CASE UNCHANGED rows
    BY <2>1, <2>2, OverStep
  <2>3. CASE rows' = [rows EXCEPT !.conv = TRUE]
    BY <2>1, <2>3, OverStep DEF Rows
  <2>4. CASE rows' = [rows EXCEPT !.user = TRUE]
    BY <2>1, <2>4, OverStep DEF Rows
  <2> QED
    BY <1>2, <2>2, <2>3, <2>4 DEF Chat, LoadConversation, SaveUserMessage,
       CannotRoute, RespondTemporal, ReturnTemporal, DeliverTemporal,
       StartWebsiteLoop, StartAgentLoop, Execute, Refuse, Opened
<1>3. CASE LoadConversation /\ ~Refuse
  BY <1>3, SilentStep DEF LoadConversation, Proceed, Execute, Rows
<1>4. CASE SaveUserMessage /\ ~Refuse
  BY <1>4, SilentStep DEF SaveUserMessage, Proceed, Execute, Rows
<1>5. CASE RespondTemporal
  BY <1>5, StoreStep DEF RespondTemporal, PlaceInv, Written, Temporal
<1>6. CASE ReturnTemporal
  BY <1>6, OpenStep DEF ReturnTemporal, Opened, PlaceInv
<1>7. CASE DeliverTemporal
  <2>1. \/ Offer("content", FALSE, "temporalDone", "closed")
        \/ Offer("finished", TRUE, "closed", "closed")
    BY <1>7 DEF DeliverTemporal, Offer
  <2>2. UNCHANGED <<via, client, rows>> /\ at \notin {"refused", "toolResult"}
    BY <1>7 DEF DeliverTemporal
  <2> QED
    BY <2>1, <2>2, OfferStep
<1>8. CASE StartWebsiteLoop
  BY <1>8, OpenStep DEF StartWebsiteLoop, Opened, PlaceInv
<1>9. CASE StartAgentLoop
  BY <1>9, OpenStep DEF StartAgentLoop, Opened, PlaceInv
<1> QED
  BY <1>2, <1>3, <1>4, <1>5, <1>6, <1>7, <1>8, <1>9 DEF Chat, CannotRoute

(* And of everybody else. *)
LEMMA ProtocolOthers ==
  ASSUME TypeOK, LastInv,
         HandlerStep \/ ExtractStep \/ ClientStep \/ ProviderStep
  PROVE  ProtocolStep
<1>1. UNCHANGED <<at, wire, rows>>
  BY DEF HandlerStep, Handler, StreamClosed, Remember, Answer, Return,
     ExtractStep, Extract, ClientStep, ClientLeaves, ProviderStep,
     StreamBreaks
<1>2. CASE Return \/ ClientStep
  <2>1. Phase' = "over"
    BY <1>2 DEF Return, ClientStep, ClientLeaves, Phase
  <2> QED
    BY <1>1, <2>1, OverStep
<1>3. CASE StreamClosed \/ Remember \/ Answer
  <2>1. UNCHANGED client /\ handler \notin {"calling", "returned"}
        /\ handler' \notin {"calling", "returned"}
    BY <1>3 DEF StreamClosed, AfterStream, Remember, Answer
  <2>2. Phase' = Phase
    BY <1>1, <2>1 DEF Phase
  <2>3. UNCHANGED (rows.answer # "none")
    BY <1>1
  <2> QED
    BY <2>2, <2>3 DEF ProtocolStep, Protocol!vars
<1>4. CASE ExtractStep \/ ProviderStep
  <2>1. UNCHANGED <<client, handler>>
    BY <1>4 DEF ExtractStep, Extract, ProviderStep, StreamBreaks
  <2> QED
    BY <1>1, <2>1, SilentStep
<1> QED
  BY <1>2, <1>3, <1>4 DEF HandlerStep, Handler

(* A turn implements the protocol: for its client events come in the order a
   reader can follow, with one end, and one answer is stored. *)
THEOREM TurnRefinesProtocol == Spec => TurnFollowsProtocol
<1>1. Init => LastInv /\ Protocol!Init
  BY DEF Init, LastInv, Cancelled, Protocol!Init, Phase, NoRows
<1>2. TypeOK /\ PlaceInv /\ LastInv /\ [Next]_vars => LastInv'
  BY NextLast
<1>3. TypeOK /\ PlaceInv /\ LastInv /\ [Next]_vars => ProtocolStep
  <2> SUFFICES ASSUME TypeOK, PlaceInv, LastInv, [Next]_vars
               PROVE  ProtocolStep
    OBVIOUS
  <2>1. CASE UNCHANGED vars
    BY <2>1, SilentStep DEF vars, turnVars
  <2> QED
    BY <2>1, ProtocolChat, ProtocolAgent, ProtocolWebsite, ProtocolOthers
    DEF Next, Loop
<1>4. StoredInv => TypeOK /\ PlaceInv
  BY DEF StoredInv
<1> QED
  BY <1>1, <1>2, <1>3, <1>4, TurnIsStored, PTL
  DEF Spec, TurnFollowsProtocol, Protocol!Spec, ProtocolStep

-----------------------------------------------------------------------------
(* A turn uses itself up.  What is left of it: laps (iterations of agentLoop,
   the one that the quality gate asks for among them, attempts and repairs of
   websiteAgentLoop), the stage of the lap, the calls of the stage, and what
   the handler, the client, the provider and the extraction have to do. *)
Laps ==
  (MaxAgentIterations - round.iter) + (MaxWebsiteAttempts - site.attempt)
    + (MaxWebsiteRepairAttempts - site.repairs)

(* Where a stream is read, chunk by chunk. *)
Streaming == {"read", "emit", "siteRead", "siteEmit"}

(* How far the places of a lap, and Chat before it, are from the end. *)
Stage(place) ==
  CASE place \in {"load"} -> 21
    [] place \in {"saveUser"} -> 20
    [] place \in {"route"} -> 19
    [] place \in {"temporal"} -> 18
    [] place \in {"temporalText"} -> 17
    [] place \in {"temporalDone"} -> 16
    [] place \in {"ask", "begin"} -> 15
    [] place \in Streaming -> 14
    [] place \in {"flush", "check"} -> 13
    [] place \in {"decide", "continue"} -> 12
    [] place \in {"announce", "toolStart", "toolResult", "attempt",
                  "extract"} -> 11
    [] place \in {"saveCalls", "parse"} -> 10
    [] place \in {"saveTool", "repair"} -> 9
    [] place \in {"apologise", "saveArtifact"} -> 8
    [] place \in {"saveAnswer", "saveFiles"} -> 7
    [] place \in {"saveState", "saveSummary"} -> 6
    [] place \in {"logUsage"} -> 5
    [] place \in {"rollup"} -> 4
    [] place \in {"finish", "show", "sorry", "fail", "siteFail"} -> 3
    [] place \in {"siteDone"} -> 2
    [] place \in {"close"} -> 1
    [] place \in {"closed", "refused"} -> 0

CallsLeft ==
  CASE at = "toolStart" -> 2 * (round.calls - round.next) + 1
    [] at = "toolResult" -> 2 * (round.calls - round.next)
    [] at = "saveTool" -> round.calls - round.next
    [] OTHER -> 0

HandlerLeft ==
  CASE handler = "calling" -> 4
    [] handler = "receiving" -> 3
    [] handler \in {"remembering", "loading"} -> 2
    [] handler = "returning" -> 1
    [] OTHER -> 0
MemoryLeft ==
  CASE memory = "off" -> 3
    [] memory = "loading" -> 2
    [] memory = "extracting" -> 1
    [] OTHER -> 0
ClientThere == IF client = "connected" THEN 1 ELSE 0
ProviderRuns == IF llm = "open" THEN 1 ELSE 0
Beside == HandlerLeft + MemoryLeft + ClientThere + ProviderRuns

Work == <<<<Laps, Stage(at)>>, <<CallsLeft, Beside>>>>

(* The lexical order of what is left. *)
NatLess == {ss \in Nat \X Nat : ss[1] < ss[2]}
LessPair == LexPairOrdering(NatLess, NatLess, Nat, Nat)
Works == (Nat \X Nat) \X (Nat \X Nat)
LessWork == LexPairOrdering(LessPair, LessPair, Nat \X Nat, Nat \X Nat)

(* A chunk of a stream is read, or passed on. *)
ReadsOn == {at, at'} \subseteq Streaming /\ UNCHANGED Work

(* Every step of the goroutines of a turn leaves less of it, but for those that
   read a stream: neither a retry of the quality gate, nor a round of tools, nor
   a continuation or a repair of a website starts the turn again. *)

LessIsLeft == <<Work', Work>> \in LessWork \/ ReadsOn
TurnRunsDown == [][LessIsLeft]_vars

-----------------------------------------------------------------------------
(* A descending sequence of numbers would be one of finite sets. *)
LEMMA NatLessWellFounded == IsWellFoundedOn(NatLess, Nat)
<1> SUFFICES ASSUME NEW f \in [Nat -> Nat],
                    \A n \in Nat : <<f[n + 1], f[n]>> \in NatLess
             PROVE  FALSE
  BY DEF IsWellFoundedOn
<1> DEFINE g == [n \in Nat |-> 1 .. f[n]]
<1>1. g \in [Nat -> FiniteSubsetsOf(Nat)]
  <2> SUFFICES ASSUME NEW n \in Nat PROVE 1 .. f[n] \in FiniteSubsetsOf(Nat)
    OBVIOUS
  <2>1. f[n] \in Nat
    OBVIOUS
  <2>2. IsFiniteSet(1 .. f[n])
    BY <2>1, FS_Interval
  <2> QED
    BY <2>1, <2>2 DEF FiniteSubsetsOf
<1>2. \A n \in Nat : <<g[n + 1], g[n]>> \in StrictSubsetOrdering(Nat)
  <2> SUFFICES ASSUME NEW n \in Nat
               PROVE  <<g[n + 1], g[n]>> \in StrictSubsetOrdering(Nat)
    OBVIOUS
  <2>1. f[n] \in Nat /\ f[n + 1] \in Nat /\ f[n + 1] < f[n]
    BY DEF NatLess
  <2>2. /\ 1 .. f[n + 1] \subseteq 1 .. f[n]
        /\ f[n] \in 1 .. f[n] /\ f[n] \notin 1 .. f[n + 1]
    BY <2>1
  <2>3. g[n] = 1 .. f[n] /\ g[n + 1] = 1 .. f[n + 1]
    OBVIOUS
  <2>4. g[n] \in SUBSET Nat /\ g[n + 1] \in SUBSET Nat
    BY <2>3
  <2> HIDE DEF g
  <2> QED
    BY <2>2, <2>3, <2>4 DEF StrictSubsetOrdering
<1>3. IsWellFoundedOn(StrictSubsetOrdering(Nat), FiniteSubsetsOf(Nat))
  BY FS_StrictSubsetOrderingWellFounded
<1> HIDE DEF g
<1> QED
  BY <1>1, <1>2, <1>3 DEF IsWellFoundedOn

LEMMA LessWorkWellFounded == IsWellFoundedOn(LessWork, Works)
<1>1. IsWellFoundedOn(LessPair, Nat \X Nat)
  BY NatLessWellFounded, WFLexPairOrdering DEF LessPair
<1> QED
  BY <1>1, WFLexPairOrdering DEF LessWork, Works

(* The order, component by component. *)
LEMMA LessWorkIs ==
  ASSUME NEW l \in Nat, NEW s \in Nat, NEW c \in Nat, NEW b \in Nat,
         NEW k \in Nat, NEW r \in Nat, NEW d \in Nat, NEW e \in Nat,
         \/ k < l
         \/ k = l /\ r < s
         \/ k = l /\ r = s /\ d < c
         \/ k = l /\ r = s /\ d = c /\ e < b
  PROVE  <<<<<<k, r>>, <<d, e>>>>, <<<<l, s>>, <<c, b>>>>>> \in LessWork
<1>1. k < l \/ (k = l /\ r < s) => <<<<k, r>>, <<l, s>>>> \in LessPair
  BY DEF LessPair, LexPairOrdering, NatLess
<1>2. d < c \/ (d = c /\ e < b) => <<<<d, e>>, <<c, b>>>> \in LessPair
  BY DEF LessPair, LexPairOrdering, NatLess
<1>3. \/ <<<<k, r>>, <<l, s>>>> \in LessPair
      \/ k = l /\ r = s /\ <<<<d, e>>, <<c, b>>>> \in LessPair
  BY <1>1, <1>2
<1> QED
  BY <1>3 DEF LessWork, LexPairOrdering

-----------------------------------------------------------------------------
(* What is left is a number, each time. *)
WorkOK ==
  /\ Laps \in Nat /\ Stage(at) \in Nat
  /\ CallsLeft \in Nat /\ Beside \in Nat

LEMMA WorkTyped == TypeOK /\ CountInv => WorkOK
<1> SUFFICES ASSUME TypeOK, CountInv PROVE WorkOK
  OBVIOUS
<1>1. Laps \in Nat
  <2>1. /\ MaxAgentIterations \in Nat /\ MaxWebsiteAttempts \in Nat
        /\ MaxWebsiteRepairAttempts \in Nat
    BY ConstantsAssumption
  <2>2. /\ round.iter \in 0 .. MaxAgentIterations
        /\ site.attempt \in 0 .. MaxWebsiteAttempts
        /\ site.repairs \in 0 .. MaxWebsiteRepairAttempts
    BY DEF TypeOK, Rounds, Sites
  <2> QED
    BY <2>1, <2>2 DEF Laps
<1>2. Stage(at) \in Nat
  <2>1. at \in Places
    BY DEF TypeOK, TurnTypeOK
  <2> QED
    BY <2>1 DEF Places, ChatPlaces, LoopPlaces, SitePlaces, Stage, Streaming
<1>3. CallsLeft \in Nat
  <2>1. round.calls \in Nat /\ round.next \in Nat
    BY ConstantsAssumption DEF TypeOK, Rounds
  <2>2. at \in {"toolStart", "toolResult", "saveTool"} =>
          round.next =< round.calls
    BY <2>1 DEF CountInv
  <2>3. at \in {"toolStart", "toolResult", "saveTool"} =>
          round.calls - round.next \in Nat
    BY <2>1, <2>2
  <2> QED
    BY <2>3 DEF CallsLeft
<1>4. Beside \in Nat
  <2>1. /\ HandlerLeft \in Nat /\ MemoryLeft \in Nat
        /\ ClientThere \in Nat /\ ProviderRuns \in Nat
    BY DEF HandlerLeft, MemoryLeft, ClientThere, ProviderRuns
  <2> QED
    BY <2>1 DEF Beside
<1> QED
  BY <1>1, <1>2, <1>3, <1>4 DEF WorkOK

(* A step of a loop stays in its lap and goes down a stage, goes on to the
   next lap, or stays at its stage with a call less. *)
SameLap ==
  /\ round'.iter = round.iter
  /\ site'.attempt = site.attempt /\ site'.repairs = site.repairs
Below(there, here) == Stage(there) < Stage(here)
Descends == SameLap /\ Below(at', at)
NextLap ==
  \/ /\ round'.iter = round.iter + 1
     /\ site'.attempt = site.attempt /\ site'.repairs = site.repairs
  \/ /\ round'.iter = round.iter
     /\ site'.attempt = site.attempt + 1 /\ site'.repairs = site.repairs
  \/ /\ round'.iter = round.iter
     /\ site'.attempt = site.attempt /\ site'.repairs = site.repairs + 1
CallLess == SameLap /\ Stage(at') = Stage(at) /\ CallsLeft' < CallsLeft
LessBeside ==
  UNCHANGED <<at, round, site>> /\ Beside' < Beside
Reads ==
  /\ SameLap
  /\ at \in Streaming /\ at' \in Streaming
  /\ UNCHANGED <<handler, memory, client, llm>>
Advances == Descends \/ NextLap \/ CallLess \/ LessBeside

LEMMA AdvancesRunDown ==
  TypeOK /\ CountInv /\ (TypeOK /\ CountInv)' /\ Advances
    => <<Work', Work>> \in LessWork
<1>1. WorkOK /\ WorkOK' /\ TypeOK /\ Advances => <<Work', Work>> \in LessWork
  <2> SUFFICES ASSUME WorkOK, WorkOK', TypeOK, Advances
               PROVE  <<Work', Work>> \in LessWork
    OBVIOUS
  <2>1. /\ Laps \in Nat /\ Stage(at) \in Nat
        /\ CallsLeft \in Nat /\ Beside \in Nat
        /\ Laps' \in Nat /\ Stage(at') \in Nat
        /\ CallsLeft' \in Nat /\ Beside' \in Nat
    BY DEF WorkOK
  <2>2. SameLap => Laps' = Laps
    BY DEF SameLap, Laps
  <2>3. NextLap => Laps' < Laps
    <3>1. /\ MaxAgentIterations \in Int /\ MaxWebsiteAttempts \in Int
          /\ MaxWebsiteRepairAttempts \in Int
      BY ConstantsAssumption
    <3>2. /\ round.iter \in Int
          /\ site.attempt \in Int
          /\ site.repairs \in Int
      BY <3>1 DEF TypeOK, Rounds, Sites
    <3> QED
      BY <3>1, <3>2 DEF NextLap, Laps
  <2>4. UNCHANGED <<at, round, site>> =>
          Laps' = Laps /\ Stage(at') = Stage(at) /\ CallsLeft' = CallsLeft
    BY DEF Laps, CallsLeft
  <2>5. \/ Laps' < Laps
        \/ Laps' = Laps /\ Stage(at') < Stage(at)
        \/ Laps' = Laps /\ Stage(at') = Stage(at) /\ CallsLeft' < CallsLeft
        \/ /\ Laps' = Laps /\ Stage(at') = Stage(at)
           /\ CallsLeft' = CallsLeft /\ Beside' < Beside
    BY <2>2, <2>3, <2>4 DEF Advances, Descends, Below, CallLess, LessBeside
  <2> HIDE DEF Laps, CallsLeft, Beside, Stage
  <2> QED
    BY <2>1, <2>5, LessWorkIs DEF Work
<1> QED
  BY <1>1, WorkTyped, PTL

(* Reading a stream leaves all of it. *)
LEMMA ReadsKeepWork ==
  ASSUME Reads
  PROVE  ReadsOn
<1>1. Laps' = Laps
  BY DEF Reads, SameLap, Laps
<1>2. Stage(at) = 14 /\ Stage(at') = 14
  BY DEF Reads, Stage, Streaming
<1>3. CallsLeft = 0 /\ CallsLeft' = 0
  BY DEF Reads, CallsLeft, Streaming
<1>4. Beside' = Beside
  BY DEF Reads, Beside, HandlerLeft, MemoryLeft, ClientThere, ProviderRuns
<1> QED
  BY <1>1, <1>2, <1>3, <1>4 DEF Reads, ReadsOn, Work

-----------------------------------------------------------------------------
(* Where the steps of Chat and of the loops go is below where they come
   from. *)
LEMMA ChatGoesDown ==
  /\ \A p \in {"saveUser", "refused"} : Below(p, "load")
  /\ \A p \in {"route", "refused"} : Below(p, "saveUser")
  /\ \A p \in {"refused", "temporal", "begin", "ask"} : Below(p, "route")
  /\ Below("temporalText", "temporal")
  /\ Below("temporalDone", "temporalText") /\ Below("closed", "temporalDone")
BY DEF Below, Stage, Streaming

LEMMA EndGoesDown ==
  /\ \A p \in {"rollup", "finish", "show"} : Below(p, "logUsage")
  /\ \A p \in {"finish", "show"} : Below(p, "rollup")
  /\ Below("closed", "close")
BY DEF Below, Stage, Streaming

LEMMA AgentGoesDown ==
  /\ \A p \in {"read", "fail", "saveAnswer"} : Below(p, "ask")
  /\ Below("flush", "read") /\ Below("close", "emit")
  /\ \A p \in {"decide", "close"} : Below(p, "flush")
  /\ \A p \in {"toolStart", "saveAnswer", "announce"} : Below(p, "decide")
  /\ Below("close", "toolStart")
  /\ \A p \in {"saveCalls", "close"} : Below(p, "toolResult")
  /\ Below("saveTool", "saveCalls")
  /\ \A p \in {"saveState", "logUsage"} : Below(p, "saveAnswer")
  /\ Below("logUsage", "saveState")
  /\ Below("close", "finish") /\ Below("close", "fail")
BY DEF Below, Stage, Streaming

LEMMA WebsiteGoesDown ==
  /\ \A p \in {"attempt", "close"} : Below(p, "begin")
  /\ \A p \in {"check", "siteFail"} : Below(p, "siteRead")
  /\ Below("siteFail", "siteEmit") /\ Below("close", "siteFail")
  /\ \A p \in {"extract", "continue"} : Below(p, "check")
  /\ \A p \in {"attempt", "close"} : Below(p, "continue")
  /\ \A p \in {"parse", "close"} : Below(p, "extract")
  /\ \A p \in {"repair", "saveArtifact", "saveSummary"} : Below(p, "parse")
  /\ Below("apologise", "repair") /\ Below("sorry", "apologise")
  /\ \A p \in {"siteDone", "close"} : Below(p, "sorry")
  /\ \A p \in {"saveFiles", "saveSummary"} : Below(p, "saveArtifact")
  /\ Below("saveSummary", "saveFiles") /\ Below("logUsage", "saveSummary")
  /\ \A p \in {"siteDone", "close"} : Below(p, "show")
  /\ Below("close", "siteDone")
BY DEF Below, Stage, Streaming

(* Chat comes to each of its places once. *)
LEMMA ChatDescends ==
  ASSUME TypeOK, Chat
  PROVE  Descends
<1> USE ChatGoesDown DEF Descends, SameLap, Refuse, Proceed, Opened
<1>1. CASE LoadConversation /\ UNCHANGED <<round, history, site>>
  BY <1>1 DEF LoadConversation
<1>2. CASE SaveUserMessage /\ UNCHANGED <<round, history, site>>
  BY <1>2 DEF SaveUserMessage
<1>3. CASE CannotRoute /\ UNCHANGED <<round, history, site>>
  BY <1>3 DEF CannotRoute
<1>4. CASE RespondTemporal /\ UNCHANGED <<round, history, site>>
  BY <1>4 DEF RespondTemporal
<1>5. CASE ReturnTemporal /\ UNCHANGED <<round, history, site>>
  BY <1>5 DEF ReturnTemporal
<1>6. CASE DeliverTemporal /\ UNCHANGED <<round, history, site>>
  BY <1>6 DEF DeliverTemporal
<1>7. CASE StartWebsiteLoop /\ UNCHANGED <<round, history, site>>
  BY <1>7 DEF StartWebsiteLoop
<1>8. CASE StartAgentLoop /\ UNCHANGED <<history, site>>
  BY <1>8 DEF StartAgentLoop, TypeOK, Rounds
<1> QED
  BY <1>1, <1>2, <1>3, <1>4, <1>5, <1>6, <1>7, <1>8 DEF Chat

(* An iteration of agentLoop goes from place to place, but for the chunks it
   reads and the calls it makes, and there is one iteration less after it. *)
LEMMA AgentAdvances ==
  ASSUME TypeOK, CountInv, AgentLoopStep, UNCHANGED site
  PROVE  Advances \/ Reads
<1> USE AgentGoesDown, EndGoesDown
    DEF Advances, Descends, SameLap, Offer, LogUsage, IncrementDailyUsage
<1>0. round \in Rounds
  BY DEF TypeOK
<1>1. CASE AskModel
  BY <1>0, <1>1 DEF AskModel, Rounds
<1>2. CASE ReadContent
  BY <1>2 DEF ReadContent, Reads, Streaming
<1>3. CASE EmitContent
  BY <1>3 DEF EmitContent, Reads, Streaming, Deliver
<1>4. CASE ReadToolCall
  BY <1>0, <1>4 DEF ReadToolCall, turnVars, Reads, Streaming, Rounds
<1>5. CASE ReadDone
  BY <1>5 DEF ReadDone
<1>6. CASE ReadClosed
  BY <1>6 DEF ReadClosed
<1>7. CASE Flush
  BY <1>7 DEF Flush
<1>8. CASE Decide
  BY <1>0, <1>8 DEF Decide, Rounds
<1>9. CASE AnnounceRetry
  BY <1>0, <1>9 DEF AnnounceRetry, NextLap, Iterate, Rounds
<1>10. CASE StartTool
  <2>1. CASE at' = "close"
    BY <1>10, <2>1 DEF StartTool
  <2>2. CASE at' = "toolResult"
    <3>1. UNCHANGED round /\ at = "toolStart"
      BY <1>10 DEF StartTool
    <3>2. Stage(at') = Stage(at)
      BY <2>2, <3>1 DEF Stage, Streaming
    <3>3. round.calls \in Int /\ round.next \in Int
      BY <1>0, ConstantsAssumption DEF Rounds
    <3>4. CallsLeft' < CallsLeft
      BY <2>2, <3>1, <3>3 DEF CallsLeft
    <3> QED
      BY <3>1, <3>2, <3>4 DEF CallLess
  <2> QED
    BY <1>10, <2>1, <2>2 DEF StartTool
<1>11. CASE ReportTool
  <2>1. CASE at' \in {"close", "saveCalls"}
    BY <1>0, <1>11, <2>1 DEF ReportTool, Rounds
  <2>2. CASE at' = "toolStart"
    <3>1. at = "toolResult" /\ round.next # round.calls
          /\ round' = [round EXCEPT !.next = @ + 1]
      BY <1>11, <2>2 DEF ReportTool
    <3>2. /\ round'.iter = round.iter /\ round'.calls = round.calls
          /\ round'.next = round.next + 1
      BY <1>0, <3>1 DEF Rounds
    <3>3. Stage(at') = Stage(at)
      BY <2>2, <3>1 DEF Stage, Streaming
    <3>4. round.calls \in Int /\ round.next \in Int
      BY <1>0, ConstantsAssumption DEF Rounds
    <3>5. CallsLeft' < CallsLeft
      BY <2>2, <3>1, <3>2, <3>4 DEF CallsLeft
    <3> QED
      BY <3>2, <3>3, <3>5 DEF CallLess
  <2> QED
    BY <1>11, <2>1, <2>2 DEF ReportTool
<1>12. CASE SaveCalls
  BY <1>12 DEF SaveCalls
<1>13. CASE SaveTool
  <2>1. CASE round.next + 1 = round.calls
    BY <1>0, <1>13, <2>1 DEF SaveTool, NextLap, Iterate, Rounds
  <2>2. CASE round.next + 1 # round.calls
    <3>1. at = "saveTool" /\ at' = "saveTool"
          /\ round' = [round EXCEPT !.next = @ + 1]
      BY <1>13, <2>2 DEF SaveTool
    <3>2. /\ round'.iter = round.iter /\ round'.calls = round.calls
          /\ round'.next = round.next + 1
      BY <1>0, <3>1 DEF Rounds
    <3>3. round.calls \in Int /\ round.next \in Int
      BY <1>0, ConstantsAssumption DEF Rounds
    <3>4. CallsLeft' < CallsLeft
      BY <3>1, <3>2, <3>3 DEF CallsLeft
    <3> QED
      BY <3>1, <3>2, <3>4 DEF CallLess
  <2> QED
    BY <2>1, <2>2
<1>14. CASE Exhaust
  BY <1>0, <1>14 DEF Exhaust, Rounds
<1>15. CASE SaveAnswer
  BY <1>15 DEF SaveAnswer
<1>16. CASE SaveState
  BY <1>16 DEF SaveState
<1>17. CASE Finish
  BY <1>17 DEF Finish
<1>18. CASE Fail
  BY <1>18 DEF Fail
<1>19. CASE RecordUsage
  BY <1>19 DEF RecordUsage
<1>20. CASE CloseOut /\ UNCHANGED <<round, history>>
  BY <1>20 DEF CloseOut
<1> QED
  BY <1>1, <1>2, <1>3, <1>4, <1>5, <1>6, <1>7, <1>8, <1>9, <1>10, <1>11,
     <1>12, <1>13, <1>14, <1>15, <1>16, <1>17, <1>18, <1>19, <1>20
  DEF AgentLoopStep

(* A lap of websiteAgentLoop is an attempt or a repair. *)
LEMMA WebsiteAdvances ==
  ASSUME TypeOK, CountInv, WebsiteLoopStep, UNCHANGED <<round, history>>
  PROVE  Advances \/ Reads
<1> USE WebsiteGoesDown, EndGoesDown
    DEF Advances, Descends, SameLap, Offer, LogUsage, IncrementDailyUsage,
        elsewhere
<1>0. site \in Sites
  BY DEF TypeOK
<1>1. CASE Begin
  BY <1>1 DEF Begin
<1>2. CASE Attempt
  BY <1>0, <1>2 DEF Attempt, NextLap, Silent, Sites
<1>3. CASE SiteChunk
  BY <1>0, <1>3 DEF SiteChunk, Reads, Streaming, Sites
<1>4. CASE SiteEmit
  BY <1>4 DEF SiteEmit, Reads, Streaming, Deliver
<1>5. CASE SiteClosed
  BY <1>5 DEF SiteClosed
<1>6. CASE SiteFail
  BY <1>6 DEF SiteFail
<1>7. CASE Check
  BY <1>7 DEF Check
<1>8. CASE Continue
  BY <1>8 DEF Continue
<1>9. CASE AnnounceExtraction
  BY <1>9 DEF AnnounceExtraction
<1>10. CASE Parse
  BY <1>0, <1>10 DEF Parse, WithFiles, Sites
<1>11. CASE Repair
  BY <1>0, <1>11 DEF Repair, NextLap, WithFiles, Sites
<1>12. CASE Apologise
  BY <1>12 DEF Apologise
<1>13. CASE Sorry
  BY <1>13 DEF Sorry
<1>14. CASE SaveArtifact
  BY <1>0, <1>14 DEF SaveArtifact, Sites
<1>15. CASE SaveFiles
  BY <1>0, <1>15 DEF SaveFiles, Sites
<1>16. CASE SaveSummary
  BY <1>16 DEF SaveSummary
<1>17. CASE RecordSiteUsage
  BY <1>17 DEF RecordSiteUsage
<1>18. CASE Show
  BY <1>18 DEF Show
<1>19. CASE SiteDone
  BY <1>19 DEF SiteDone
<1>20. CASE CloseOut /\ UNCHANGED site
  BY <1>20 DEF CloseOut
<1> QED
  BY <1>1, <1>2, <1>3, <1>4, <1>5, <1>6, <1>7, <1>8, <1>9, <1>10, <1>11,
     <1>12, <1>13, <1>14, <1>15, <1>16, <1>17, <1>18, <1>19, <1>20
  DEF WebsiteLoopStep

-----------------------------------------------------------------------------
(* Memories are extracted once, when the stream is over. *)
MemoryInv ==
  handler \in {"calling", "receiving", "remembering", "loading"} =>
    memory = "off"

(* Nobody but the handler and the extraction itself touches it. *)
LEMMA NextMemory == PlaceInv /\ MemoryInv /\ [Next]_vars => MemoryInv'
<1> SUFFICES ASSUME PlaceInv, MemoryInv, [Next]_vars PROVE MemoryInv'
  OBVIOUS
<1> USE DEF MemoryInv
<1>1. CASE Chat
  BY <1>1 DEF Chat, PlaceInv, LoadConversation, SaveUserMessage, CannotRoute,
     RespondTemporal, ReturnTemporal, DeliverTemporal, StartWebsiteLoop,
     StartAgentLoop, Refuse, Proceed, Opened, Deliver, AfterStream
<1>2. CASE AgentLoopStep
  <2>1. UNCHANGED memory
    BY <1>2 DEF AgentLoopStep, AskModel, ReadContent, EmitContent,
       ReadToolCall, ReadDone, ReadClosed, Flush, Decide, AnnounceRetry,
       StartTool, ReportTool, SaveCalls, SaveTool, Exhaust, SaveAnswer,
       SaveState, Finish, Fail, RecordUsage, LogUsage, IncrementDailyUsage,
       CloseOut, turnVars
  <2>2. UNCHANGED handler \/ handler = "receiving"
    BY <1>2 DEF AgentLoopStep, AskModel, ReadContent, EmitContent,
       ReadToolCall, ReadDone, ReadClosed, Flush, Decide, AnnounceRetry,
       StartTool, ReportTool, SaveCalls, SaveTool, Exhaust, SaveAnswer,
       SaveState, Finish, Fail, RecordUsage, LogUsage, IncrementDailyUsage,
       CloseOut, turnVars, Offer, Deliver
  <2> QED
    BY <2>1, <2>2
<1>3. CASE WebsiteLoopStep
  <2>1. UNCHANGED memory
    BY <1>3 DEF WebsiteLoopStep, Begin, Attempt, SiteChunk, SiteEmit,
       SiteClosed, SiteFail, Check, Continue, AnnounceExtraction, Parse,
       Repair, Apologise, Sorry, SaveArtifact, SaveFiles, SaveSummary,
       RecordSiteUsage, LogUsage, IncrementDailyUsage, Show, SiteDone,
       CloseOut, elsewhere
  <2>2. UNCHANGED handler \/ handler = "receiving"
    BY <1>3 DEF WebsiteLoopStep, Begin, Attempt, SiteChunk, SiteEmit,
       SiteClosed, SiteFail, Check, Continue, AnnounceExtraction, Parse,
       Repair, Apologise, Sorry, SaveArtifact, SaveFiles, SaveSummary,
       RecordSiteUsage, LogUsage, IncrementDailyUsage, Show, SiteDone,
       CloseOut, Offer, Deliver
  <2> QED
    BY <2>1, <2>2
<1>4. CASE HandlerStep
  BY <1>4 DEF HandlerStep, Handler, StreamClosed, Remember, Answer, Return,
     AfterStream
<1>5. CASE ExtractStep
  BY <1>5 DEF ExtractStep, Extract
<1>6. CASE ClientStep \/ ProviderStep
  BY <1>6 DEF ClientStep, ClientLeaves, ProviderStep, StreamBreaks
<1>7. CASE UNCHANGED vars
  BY <1>7 DEF vars, turnVars
<1> QED
  BY <1>1, <1>2, <1>3, <1>4, <1>5, <1>6, <1>7 DEF Next, Loop

(* Less of one and no more of another is less of all. *)
LEMMA SumFalls ==
  \A h, m, c, p, k, n, d, q \in Nat :
     /\ k =< h /\ n =< m /\ d =< c /\ q =< p
     /\ k < h \/ n < m \/ d < c \/ q < p
     => k + n + d + q < h + m + c + p
OBVIOUS

LEMMA BesideFalls ==
  ASSUME /\ HandlerLeft' =< HandlerLeft /\ MemoryLeft' =< MemoryLeft
         /\ ClientThere' =< ClientThere /\ ProviderRuns' =< ProviderRuns,
         \/ HandlerLeft' < HandlerLeft \/ MemoryLeft' < MemoryLeft
         \/ ClientThere' < ClientThere \/ ProviderRuns' < ProviderRuns
  PROVE  Beside' < Beside
<1>1. /\ HandlerLeft \in Nat /\ MemoryLeft \in Nat
      /\ ClientThere \in Nat /\ ProviderRuns \in Nat
      /\ HandlerLeft' \in Nat /\ MemoryLeft' \in Nat
      /\ ClientThere' \in Nat /\ ProviderRuns' \in Nat
  BY DEF HandlerLeft, MemoryLeft, ClientThere, ProviderRuns
<1>2. Beside = HandlerLeft + MemoryLeft + ClientThere + ProviderRuns
  BY DEF Beside
<1>3. Beside' = HandlerLeft' + MemoryLeft' + ClientThere' + ProviderRuns'
  BY DEF Beside
<1> QED
  BY <1>1, <1>2, <1>3, SumFalls

(* The others do what they do once, and beside the loop. *)
LEMMA OthersAdvance ==
  ASSUME MemoryInv,
         HandlerStep \/ ExtractStep \/ ClientStep \/ ProviderStep
  PROVE  Advances
<1>1. UNCHANGED <<at, round, site>>
  BY DEF HandlerStep, Handler, StreamClosed, Remember, Answer, Return,
         ExtractStep, Extract, ClientStep, ClientLeaves, ProviderStep,
         StreamBreaks
<1>2. CASE HandlerStep
  <2>1. HandlerLeft' < HandlerLeft /\ HandlerLeft' =< HandlerLeft
    BY <1>2 DEF HandlerStep, Handler, StreamClosed, Remember, Answer, Return,
       AfterStream, HandlerLeft
  <2>2. MemoryLeft' =< MemoryLeft
    BY <1>2 DEF HandlerStep, Handler, StreamClosed, Remember, Answer, Return,
       MemoryLeft, MemoryInv
  <2>3. ClientThere' =< ClientThere /\ ProviderRuns' =< ProviderRuns
    BY <1>2 DEF HandlerStep, Handler, StreamClosed, Remember, Answer, Return,
       ClientThere, ProviderRuns
  <2> QED
    BY <1>1, <2>1, <2>2, <2>3, BesideFalls DEF Advances, LessBeside
<1>3. CASE ExtractStep
  <2>1. /\ HandlerLeft' =< HandlerLeft
        /\ ClientThere' =< ClientThere /\ ProviderRuns' =< ProviderRuns
    BY <1>3 DEF ExtractStep, Extract, HandlerLeft, ClientThere, ProviderRuns
  <2>2. MemoryLeft' < MemoryLeft /\ MemoryLeft' =< MemoryLeft
    BY <1>3 DEF ExtractStep, Extract, MemoryLeft
  <2> QED
    BY <1>1, <2>1, <2>2, BesideFalls DEF Advances, LessBeside
<1>4. CASE ClientStep
  <2>1. /\ HandlerLeft' =< HandlerLeft /\ MemoryLeft' =< MemoryLeft
        /\ ProviderRuns' =< ProviderRuns
    BY <1>4 DEF ClientStep, ClientLeaves, HandlerLeft, MemoryLeft,
       ProviderRuns
  <2>2. ClientThere' < ClientThere /\ ClientThere' =< ClientThere
    BY <1>4 DEF ClientStep, ClientLeaves, ClientThere
  <2> QED
    BY <1>1, <2>1, <2>2, BesideFalls DEF Advances, LessBeside
<1>5. CASE ProviderStep
  <2>1. /\ HandlerLeft' =< HandlerLeft /\ MemoryLeft' =< MemoryLeft
        /\ ClientThere' =< ClientThere
    BY <1>5 DEF ProviderStep, StreamBreaks, HandlerLeft, MemoryLeft,
       ClientThere
  <2>2. ProviderRuns' < ProviderRuns /\ ProviderRuns' =< ProviderRuns
    BY <1>5 DEF ProviderStep, StreamBreaks, ProviderRuns
  <2> QED
    BY <1>1, <2>1, <2>2, BesideFalls DEF Advances, LessBeside
<1> QED
  BY <1>2, <1>3, <1>4, <1>5

(* Whatever a turn does, there is less of it left, but for the chunks that the
   model streams; and what is left cannot become less for ever.  So a turn can
   only go on for ever in a stream that does. *)
THEOREM TurnIsUsedUp ==
  IsWellFoundedOn(LessWork, Works) /\ (Spec => []WorkOK /\ TurnRunsDown)
<1>1. Init => MemoryInv
  BY DEF Init, MemoryInv
<1>2. StoredInv => PlaceInv
  BY DEF StoredInv
<1>3. TypeOK /\ CountInv /\ MemoryInv /\ [Next]_vars
        => Advances \/ Reads \/ UNCHANGED vars
  BY ChatDescends, AgentAdvances, WebsiteAdvances, OthersAdvance
     DEF Next, Loop, Advances
<1>4. TypeOK /\ CountInv /\ (TypeOK /\ CountInv)' /\ MemoryInv /\ [Next]_vars
        => [LessIsLeft]_vars
  BY <1>3, AdvancesRunDown, ReadsKeepWork DEF LessIsLeft
<1> QED
  BY <1>1, <1>2, <1>4, NextMemory, WorkTyped, TurnIsTyped, TurnIsStored,
     LessWorkWellFounded, PTL DEF Spec, TurnRunsDown
=============================================================================
