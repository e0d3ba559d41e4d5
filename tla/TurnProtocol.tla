---------------------------- MODULE TurnProtocol -----------------------------
(***************************************************************************)
(* What a client of a chat turn is promised, whatever the orchestrator does *)
(* behind the stream: events in the order a reader can follow, one end, and *)
(* an answer that is stored once.  Text and progress events are not told    *)
(* apart from silence.                                                      *)
(***************************************************************************)
VARIABLES
  phase,   \* "pending", "open", "tool", "result", "finished" or "over"
  stored   \* the answer is in the conversation

vars == <<phase, stored>>

Init == phase = "pending" /\ stored = FALSE

(* The request is accepted. *)
Open == phase = "pending" /\ phase' = "open" /\ UNCHANGED stored

(* A tool runs: its start is told, then its result, with nothing between. *)
ToolStart ==
  phase \in {"open", "result"} /\ phase' = "tool" /\ UNCHANGED stored
ToolResult == phase = "tool" /\ phase' = "result" /\ UNCHANGED stored

(* Text or progress after a result. *)
Resume == phase = "result" /\ phase' = "open" /\ UNCHANGED stored

(* The turn is finished; never with a tool's result outstanding. *)
Finish ==
  phase \in {"open", "result"} /\ phase' = "finished" /\ UNCHANGED stored

(* The response ends: refused, finished, failed, or the client is gone. *)
Over == phase # "over" /\ phase' = "over" /\ UNCHANGED stored

(* At most one answer is stored, and none while a tool runs.  The answer of a
   turn that stopped at its last iteration follows its end. *)
Store == phase # "tool" /\ ~stored /\ stored' = TRUE /\ UNCHANGED phase

Next ==
  Open \/ ToolStart \/ ToolResult \/ Resume \/ Finish \/ Over \/ Store

Spec == Init /\ [][Next]_vars
=============================================================================
