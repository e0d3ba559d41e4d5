------------------------------ MODULE AgentLoop ------------------------------
(***************************************************************************)
(* internal/agent/runtime/agent_loop.go: the ReAct loop.  The model is      *)
(* asked, its text is passed on chunk by chunk, the tools it calls are run  *)
(* one after the other; an answer without tool calls may be sent back once  *)
(* by the quality gate and is then stored, counted and finished.            *)
(***************************************************************************)
EXTENDS ChatTurn

VARIABLES
  round,   \* the local variables of agentLoop that decide where it goes
  history  \* what it has appended to messages: assistant messages with tool
           \* calls, and tool results

(* iter: i; calls: len(toolCalls) of this answer; next: the call that is run
   or whose row is written; flow: activeFlow # nil; retried: qualityRetryDone;
   exhausted: the loop ended without an answer. *)
NoRound == [iter |-> 0, calls |-> 0, next |-> 0, flow |-> FALSE,
            retried |-> FALSE, exhausted |-> FALSE]

(* The next iteration of the for statement. *)
Iterate(r) == [r EXCEPT !.iter = @ + 1]

-----------------------------------------------------------------------------
(* Mutant: i <= MaxAgentIterations. *)
AskModelOnceMore ==
  /\ at = "ask"
  /\ round.iter =< MaxAgentIterations
  /\ round' = [round EXCEPT !.calls = 0]
  /\ \/ at' = "fail" /\ UNCHANGED llm
     \/ ~Cancelled /\ at' = "read" /\ llm' = "open"
  /\ UNCHANGED <<via, mode, client, handler, out, wire, reply, memory, rows,
                 faulted, history>>

(* o.llmClient.Stream: an error (a cancelled context is one) or a stream. *)
AskModel ==
  /\ at = "ask"
  /\ round.iter < MaxAgentIterations
  /\ round' = [round EXCEPT !.calls = 0]
  /\ \/ at' = "fail" /\ UNCHANGED llm
     \/ ~Cancelled /\ at' = "read" /\ llm' = "open"
  /\ UNCHANGED <<via, mode, client, handler, out, wire, reply, memory, rows,
                 faulted, history>>

(* A chunk with text: passed on, unless the flow-state sanitizer holds it
   back. *)
ReadContent ==
  /\ at = "read"
  /\ llm = "open"
  /\ at' \in IF round.flow THEN {"emit", "read"} ELSE {"emit"}
  /\ UNCHANGED <<via, mode, client, handler, out, llm, wire, reply, memory,
                 rows, faulted, round, history>>

EmitContent ==
  /\ at = "emit"
  /\ Offer("content", FALSE, "read", "close")
  /\ UNCHANGED <<via, mode, client, out, llm, reply, memory, rows, faulted,
                 round, history>>

(* A chunk with a tool call. *)
ReadToolCall ==
  /\ at = "read"
  /\ llm = "open"
  /\ round.calls < MaxToolCalls
  /\ round' = [round EXCEPT !.calls = @ + 1]
  /\ UNCHANGED <<turnVars, history>>

(* The Done chunk, after which the provider goroutine returns. *)
ReadDone ==
  /\ at = "read"
  /\ llm = "open"
  /\ llm' = "closed"
  /\ at' = "flush"
  /\ UNCHANGED <<via, mode, client, handler, out, wire, reply, memory, rows,
                 faulted, round, history>>

(* llmCh was closed without a Done chunk; what came is taken for all. *)
ReadClosed ==
  /\ at = "read"
  /\ llm = "closed"
  /\ at' = "flush"
  /\ UNCHANGED <<via, mode, client, handler, out, llm, wire, reply, memory,
                 rows, faulted, round, history>>

(* The tail the sanitizer kept. *)
Flush ==
  /\ at = "flush"
  /\ \/ at' = "decide" /\ UNCHANGED <<handler, wire>>
     \/ round.flow /\ Offer("content", FALSE, "decide", "close")
  /\ UNCHANGED <<via, mode, client, out, llm, reply, memory, rows, faulted,
                 round, history>>

-----------------------------------------------------------------------------
(* Mutant: the end is told before the answer is stored. *)
DecideTellsFirst ==
  /\ at = "decide"
  /\ IF round.calls > 0
     THEN /\ at' = "toolStart"
          /\ round' = [round EXCEPT !.next = 1]
          /\ UNCHANGED <<handler, wire>>
     ELSE /\ Offer("finished", TRUE, "saveAnswer", "saveAnswer")
          /\ UNCHANGED round
  /\ UNCHANGED <<via, mode, client, out, llm, reply, memory, rows, faulted,
                 history>>

(* No tool calls: the quality gate may ask for one more attempt (its model
   call fails under a cancelled context, which lets the answer pass). *)
Decide ==
  /\ at = "decide"
  /\ IF round.calls > 0
     THEN /\ at' = "toolStart"
          /\ round' = [round EXCEPT !.next = 1]
     ELSE /\ \/ at' = "saveAnswer"
             \/ ~round.retried /\ ~Cancelled /\ at' = "announce"
          /\ UNCHANGED round
  /\ UNCHANGED <<via, mode, client, handler, out, llm, wire, reply, memory,
                 rows, faulted, history>>

(* "Revisando y mejorando la respuesta...", and continue. *)
AnnounceRetry ==
  /\ at = "announce"
  /\ Offer("progress", FALSE, "ask", "close")
  /\ round' = Iterate([round EXCEPT !.retried = TRUE])
  /\ UNCHANGED <<via, mode, client, out, llm, reply, memory, rows, faulted,
                 history>>

-----------------------------------------------------------------------------
StartTool ==
  /\ at = "toolStart"
  /\ Offer("tool_start", FALSE, "toolResult", "close")
  /\ UNCHANGED <<via, mode, client, out, llm, reply, memory, rows, faulted,
                 round, history>>

(* Mutant: a tool that fails is not reported. *)
ReportToolQuietly ==
  /\ at = "toolResult"
  /\ LET last == round.next = round.calls IN
       /\ \/ Offer("tool_result", FALSE,
                   IF last THEN "saveCalls" ELSE "toolStart", "close")
          \/ /\ at' = IF last THEN "saveCalls" ELSE "toolStart"
             /\ UNCHANGED <<handler, wire>>
       /\ round' = [round EXCEPT !.next = IF last THEN 0 ELSE @ + 1]
       /\ history' = IF last
                     THEN [calls |-> history.calls + 1,
                           tools |-> history.tools + round.calls]
                     ELSE history
  /\ UNCHANGED <<via, mode, client, out, llm, reply, memory, rows, faulted>>

(* registry.Execute, whose errors become the result, and its event; after the
   last call the assistant message and the results are appended. *)
ReportTool ==
  /\ at = "toolResult"
  /\ LET last == round.next = round.calls IN
       /\ Offer("tool_result", FALSE,
                IF last THEN "saveCalls" ELSE "toolStart", "close")
       /\ round' = [round EXCEPT !.next = IF last THEN 0 ELSE @ + 1]
       /\ history' = IF last
                     THEN [calls |-> history.calls + 1,
                           tools |-> history.tools + round.calls]
                     ELSE history
  /\ UNCHANGED <<via, mode, client, out, llm, reply, memory, rows, faulted>>

(* The rows of this iteration: the assistant message, then each result.  A
   statement that fails is not noticed. *)
SaveCalls ==
  /\ at = "saveCalls"
  /\ Execute([rows EXCEPT !.calls = @ + 1])
  /\ at' = "saveTool"
  /\ UNCHANGED <<via, mode, client, handler, out, llm, wire, reply, memory,
                 round, history>>

SaveTool ==
  /\ at = "saveTool"
  /\ Execute([rows EXCEPT !.tools = @ + 1])
  /\ IF round.next + 1 = round.calls
     THEN /\ at' = "ask"
          /\ round' = Iterate([round EXCEPT !.next = 0])
     ELSE /\ round' = [round EXCEPT !.next = @ + 1]
          /\ UNCHANGED at
  /\ UNCHANGED <<via, mode, client, handler, out, llm, wire, reply, memory,
                 history>>

-----------------------------------------------------------------------------
(* MaxAgentIterations: the end is told first, and a cancelled context does not
   stop what follows. *)
Exhaust ==
  /\ at = "ask"
  /\ round.iter = MaxAgentIterations
  /\ Offer("finished", TRUE, "saveAnswer", "saveAnswer")
  /\ round' = [round EXCEPT !.exhausted = TRUE]
  /\ UNCHANGED <<via, mode, client, out, llm, reply, memory, rows, faulted,
                 history>>

(* Mutant: the answer is stored under a context of its own. *)
SaveAnswerDetached ==
  /\ at = "saveAnswer"
  /\ rows' = [rows EXCEPT !.answer = "text"]
  /\ at' = IF round.flow THEN "saveState" ELSE "logUsage"
  /\ UNCHANGED <<via, mode, client, handler, out, llm, wire, reply, memory,
                 faulted, round, history>>

SaveAnswer ==
  /\ at = "saveAnswer"
  /\ Execute([rows EXCEPT !.answer = "text"])
  /\ at' = IF round.flow THEN "saveState" ELSE "logUsage"
  /\ UNCHANGED <<via, mode, client, handler, out, llm, wire, reply, memory,
                 round, history>>

(* UpdateConversationMetadata with the flow's new state. *)
SaveState ==
  /\ at = "saveState"
  /\ Execute([rows EXCEPT !.state = TRUE])
  /\ at' = "logUsage"
  /\ UNCHANGED <<via, mode, client, handler, out, llm, wire, reply, memory,
                 round, history>>

Finish ==
  /\ at = "finish"
  /\ IF round.exhausted THEN at' = "close" /\ UNCHANGED <<handler, wire>>
     ELSE Offer("finished", TRUE, "close", "close")
  /\ UNCHANGED <<via, mode, client, out, llm, reply, memory, rows, faulted,
                 round, history>>

(* "LLM error: ..." with Done. *)
Fail ==
  /\ at = "fail"
  /\ Offer("error", TRUE, "close", "close")
  /\ UNCHANGED <<via, mode, client, out, llm, reply, memory, rows, faulted,
                 round, history>>

RecordUsage ==
  /\ LogUsage("finish") \/ IncrementDailyUsage("finish")
  /\ UNCHANGED <<round, history>>

AgentLoopStep ==
  \/ AskModel \/ ReadContent \/ EmitContent \/ ReadToolCall \/ ReadDone
  \/ ReadClosed \/ Flush \/ Decide \/ AnnounceRetry
  \/ StartTool \/ ReportTool \/ SaveCalls \/ SaveTool
  \/ Exhaust \/ SaveAnswer \/ SaveState \/ Finish \/ Fail
  \/ RecordUsage
  \/ CloseOut /\ UNCHANGED <<round, history>>
=============================================================================
