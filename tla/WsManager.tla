----------------------------- MODULE WsManager ------------------------------
(***************************************************************************)
(* internal/agent/websocket/manager.go: the WebSocket sessions of          *)
(* agent-service.  A connection is served by two goroutines, readPump and  *)
(* writePump, that share its buffered sendCh; one goroutine, Manager.run,  *)
(* owns the map from users to connections and is the only one to close a   *)
(* sendCh; every chat message is answered by a goroutine of its own,       *)
(* handleChat, which writes to the sendCh of the connection it came from   *)
(* and may outlive it.                                                     *)
(*                                                                         *)
(* A send on a closed channel and a second close of a channel panic, and a *)
(* panic in any of these goroutines ends the process: no handler recovers  *)
(* it.  A step that would panic sets crash, and nothing happens after it.  *)
(***************************************************************************)
EXTENDS Integers, FiniteSets

CONSTANTS
  Users,
  Conns,     \* *Client values; one is used again once all trace of it is gone
  Gens,      \* handleChat goroutines, used again once they have returned
  SendCap,   \* capacity of sendCh; manager.go: 256
  NoConn,
  NoGen

ASSUME ConstantsAssumption ==
  /\ SendCap \in Nat \ {0}
  /\ NoConn \notin Conns
  /\ NoGen \notin Gens

VARIABLES
  user,        \* user[c]: Client.userID
  reader,      \* where readPump (before it, HandleUpgrade) of c is
  message,     \* message[c]: type of the message readPump has in hand
  writing,     \* connections whose writePump runs
  connected,   \* connections whose socket is open
  queued,      \* queued[c]: messages in sendCh
  sendClosed,  \* connections whose sendCh is closed
  clients,     \* Manager.clients
  manager,     \* what Manager.run has received and not yet processed
  cancelGen,   \* cancelGen[c]: the generation Client.cancelGen would cancel
  gen,         \* the handleChat goroutines
  cancelled,   \* generations whose context is cancelled
  crash        \* the panic that ended the process

connVars == <<user, reader, message, writing, connected>>
chanVars == <<queued, sendClosed, crash>>
mgrVars == <<clients, manager>>
genVars == <<cancelGen, gen, cancelled>>
vars == <<connVars, chanVars, mgrVars, genVars>>

Running == crash = "none"

-----------------------------------------------------------------------------
(* Mutant: the queue is taken to be unbounded. *)
SendUnbounded(c) ==
  /\ IF c \in sendClosed
     THEN crash' = "send on closed channel" /\ UNCHANGED queued
     ELSE /\ queued' = [queued EXCEPT ![c] = @ + 1]
          /\ UNCHANGED crash
  /\ UNCHANGED sendClosed

(* Client.send: a message that does not fit is dropped; a closed channel
   panics, the default branch of the select notwithstanding. *)
Send(c) ==
  /\ IF c \in sendClosed
     THEN crash' = "send on closed channel" /\ UNCHANGED queued
     ELSE /\ queued' = [queued EXCEPT ![c] = IF @ < SendCap THEN @ + 1 ELSE @]
          /\ UNCHANGED crash
  /\ UNCHANGED sendClosed

(* close(client.sendCh) *)
CloseChannel(c) ==
  /\ IF c \in sendClosed
     THEN crash' = "close of closed channel" /\ UNCHANGED sendClosed
     ELSE sendClosed' = sendClosed \union {c} /\ UNCHANGED crash
  /\ UNCHANGED queued

(* A generation that has not returned from handleChat. *)
Active(g) == gen[g].pc # "idle"

Init ==
  /\ user \in [Conns -> Users]
  /\ reader = [c \in Conns |-> "none"]
  /\ message = [c \in Conns |-> "none"]
  /\ writing = {}
  /\ connected = {}
  /\ queued = [c \in Conns |-> 0]
  /\ sendClosed = {}
  /\ clients = [u \in Users |-> NoConn]
  /\ manager = [op |-> "idle", client |-> NoConn]
  /\ cancelGen = [c \in Conns |-> NoGen]
  /\ gen = [g \in Gens |-> [pc |-> "idle", conn |-> NoConn]]
  /\ cancelled = {}
  /\ crash = "none"

-----------------------------------------------------------------------------
(* HandleUpgrade up to the send on m.register: a fresh Client for user u.
   A name of Conns is fresh when nothing refers to it any more. *)
Fresh(c) ==
  /\ reader[c] \in {"none", "done"}
  /\ c \notin writing
  /\ manager.client # c
  /\ \A u \in Users : clients[u] # c
  /\ \A g \in Gens : Active(g) => gen[g].conn # c

Upgrade(c, u) ==
  /\ Running
  /\ Fresh(c)
  /\ user' = [user EXCEPT ![c] = u]
  /\ reader' = [reader EXCEPT ![c] = "registering"]
  /\ connected' = connected \union {c}
  /\ queued' = [queued EXCEPT ![c] = 0]
  /\ sendClosed' = sendClosed \ {c}
  /\ cancelGen' = [cancelGen EXCEPT ![c] = NoGen]
  /\ UNCHANGED <<message, writing, crash, mgrVars, gen, cancelled>>

(* run receives from m.register; HandleUpgrade goes on and starts the pumps. *)
ReceiveRegister(c) ==
  /\ Running
  /\ manager.op = "idle"
  /\ reader[c] = "registering"
  /\ manager' = [op |-> "register", client |-> c]
  /\ reader' = [reader EXCEPT ![c] = "reading"]
  /\ writing' = writing \union {c}
  /\ UNCHANGED <<user, message, connected, chanVars, clients, genVars>>

(* run receives from m.unregister; the deferred function of readPump goes on
   and closes the socket. *)
ReceiveUnregister(c) ==
  /\ Running
  /\ manager.op = "idle"
  /\ reader[c] = "unregistering"
  /\ manager' = [op |-> "unregister", client |-> c]
  /\ reader' = [reader EXCEPT ![c] = "done"]
  /\ connected' = connected \ {c}
  /\ UNCHANGED <<user, message, writing, chanVars, clients, genVars>>

(* The register case of run: a connection the user already has is closed. *)
ProcessRegister ==
  /\ Running
  /\ manager.op = "register"
  /\ LET c == manager.client
         old == clients[user[c]]
     IN /\ IF old # NoConn
           THEN CloseChannel(old) /\ connected' = connected \ {old}
           ELSE UNCHANGED <<chanVars, connected>>
        /\ clients' = [clients EXCEPT ![user[c]] = c]
  /\ manager' = [op |-> "idle", client |-> NoConn]
  /\ UNCHANGED <<user, reader, message, writing, genVars>>

(* Mutant: current == client is not tested. *)
ProcessUnregisterAny ==
  /\ Running
  /\ manager.op = "unregister"
  /\ LET c == manager.client IN
       IF clients[user[c]] # NoConn
       THEN /\ clients' = [clients EXCEPT ![user[c]] = NoConn]
            /\ CloseChannel(c)
            /\ connected' = connected \ {c}
       ELSE UNCHANGED <<clients, chanVars, connected>>
  /\ manager' = [op |-> "idle", client |-> NoConn]
  /\ UNCHANGED <<user, reader, message, writing, genVars>>

(* Mutant: the client is dropped from the map and its channel left open. *)
ProcessUnregisterLeavesOpen ==
  /\ Running
  /\ manager.op = "unregister"
  /\ LET c == manager.client IN
       clients' = IF clients[user[c]] = c
                  THEN [clients EXCEPT ![user[c]] = NoConn] ELSE clients
  /\ manager' = [op |-> "idle", client |-> NoConn]
  /\ UNCHANGED <<connVars, chanVars, genVars>>

(* The unregister case of run: only the user's current connection is removed,
   one that has been replaced was closed then. *)
ProcessUnregister ==
  /\ Running
  /\ manager.op = "unregister"
  /\ LET c == manager.client IN
       IF clients[user[c]] = c
       THEN /\ clients' = [clients EXCEPT ![user[c]] = NoConn]
            /\ CloseChannel(c)
            /\ connected' = connected \ {c}
       ELSE UNCHANGED <<clients, chanVars, connected>>
  /\ manager' = [op |-> "idle", client |-> NoConn]
  /\ UNCHANGED <<user, reader, message, writing, genVars>>

-----------------------------------------------------------------------------
(* The peer goes away or is silent past the read deadline. *)
Disconnect(c) ==
  /\ Running
  /\ c \in connected
  /\ connected' = connected \ {c}
  /\ UNCHANGED <<user, reader, message, writing, chanVars, mgrVars, genVars>>

(* ReadMessage returns a message; it is acted on in a later step, when the
   connection may have been replaced.  (A chat needs a free name in Gens.) *)
Read(c, type) ==
  /\ Running
  /\ reader[c] = "reading"
  /\ c \in connected
  /\ type = "chat" =>
       Cardinality({g \in Gens : ~Active(g)})
         > Cardinality({d \in Conns : message[d] = "chat"})
  /\ reader' = [reader EXCEPT ![c] = "handling"]
  /\ message' = [message EXCEPT ![c] = type]
  /\ UNCHANGED <<user, writing, connected, chanVars, mgrVars, genVars>>

(* Mutant: a read that fails is tried again. *)
ReadErrorRetries(c) ==
  /\ Running
  /\ reader[c] = "reading"
  /\ c \notin connected
  /\ UNCHANGED vars

(* Mutant: readPump returns without sending on m.unregister. *)
ReadErrorForgets(c) ==
  /\ Running
  /\ reader[c] = "reading"
  /\ c \notin connected
  /\ reader' = [reader EXCEPT ![c] = "done"]
  /\ UNCHANGED <<user, message, writing, connected, chanVars, mgrVars, genVars>>

(* ReadMessage fails: readPump leaves its loop for the deferred function. *)
ReadError(c) ==
  /\ Running
  /\ reader[c] = "reading"
  /\ c \notin connected
  /\ reader' = [reader EXCEPT ![c] = "unregistering"]
  /\ UNCHANGED <<user, message, writing, connected, chanVars, mgrVars, genVars>>

Handled(c) ==
  /\ reader' = [reader EXCEPT ![c] = "reading"]
  /\ message' = [message EXCEPT ![c] = "none"]
  /\ UNCHANGED <<user, writing, connected>>

(* type chat: go c.handleChat(msg) *)
HandleChatMessage(c, g) ==
  /\ Running
  /\ reader[c] = "handling"
  /\ message[c] = "chat"
  /\ ~Active(g)
  /\ gen' = [gen EXCEPT ![g] = [pc |-> "spawned", conn |-> c]]
  /\ cancelled' = cancelled \ {g}
  /\ Handled(c)
  /\ UNCHANGED <<chanVars, mgrVars, cancelGen>>

(* type stop: handleStop *)
HandleStop(c) ==
  /\ Running
  /\ reader[c] = "handling"
  /\ message[c] = "stop"
  /\ cancelled' = cancelled \union ({cancelGen[c]} \ {NoGen})
  /\ Handled(c)
  /\ UNCHANGED <<chanVars, mgrVars, cancelGen, gen>>

(* type ping, an unknown type, a message that is not JSON: one answer. *)
HandleOther(c) ==
  /\ Running
  /\ reader[c] = "handling"
  /\ message[c] = "other"
  /\ Send(c)
  /\ Handled(c)
  /\ UNCHANGED <<mgrVars, genVars>>

(* writePump: what is buffered is written out, also after the close. *)
Write(c) ==
  /\ Running
  /\ c \in writing
  /\ queued[c] > 0
  /\ queued' = [queued EXCEPT ![c] = @ - 1]
  /\ UNCHANGED <<connVars, sendClosed, crash, mgrVars, genVars>>

(* The closed and drained channel ends writePump, and so does a ping that
   cannot be written; either way the socket is closed. *)
WriteEnds(c) ==
  /\ Running
  /\ c \in writing
  /\ (c \in sendClosed /\ queued[c] = 0) \/ c \notin connected
  /\ writing' = writing \ {c}
  /\ connected' = connected \ {c}
  /\ UNCHANGED <<user, reader, message, chanVars, mgrVars, genVars>>

-----------------------------------------------------------------------------
(* handleChat *)
At(g, pc) == gen[g].pc = pc
Goto(g, pc) == gen' = [gen EXCEPT ![g].pc = pc]
Returned(g) == gen' = [gen EXCEPT ![g] = [pc |-> "idle", conn |-> NoConn]]

(* Empty content is answered with an error. *)
GenRejects(g) ==
  /\ Running
  /\ At(g, "spawned")
  /\ Send(gen[g].conn)
  /\ Returned(g)
  /\ UNCHANGED <<connVars, mgrVars, cancelGen, cancelled>>

(* Under c.mu: the generation before it is cancelled, its own cancel stored. *)
GenAcquires(g) ==
  /\ Running
  /\ At(g, "spawned")
  /\ LET c == gen[g].conn IN
       /\ cancelled' = cancelled \union ({cancelGen[c]} \ {NoGen})
       /\ cancelGen' = [cancelGen EXCEPT ![c] = g]
  /\ Goto(g, "starting")
  /\ UNCHANGED <<connVars, chanVars, mgrVars>>

(* orch.Chat returns an error, which is sent before clearCancel ... *)
GenChatFails(g) ==
  /\ Running
  /\ At(g, "starting")
  /\ Send(gen[g].conn)
  /\ Goto(g, "clearing")
  /\ UNCHANGED <<connVars, mgrVars, cancelGen, cancelled>>

(* ... or a stream, announced with the conversation id. *)
GenStreams(g) ==
  /\ Running
  /\ At(g, "starting")
  /\ Send(gen[g].conn)
  /\ Goto(g, "streaming")
  /\ UNCHANGED <<connVars, mgrVars, cancelGen, cancelled>>

(* A chunk: one message, whatever its event.  A failed send only leaves the
   switch, so the loop goes on. *)
GenChunk(g) ==
  /\ Running
  /\ At(g, "streaming")
  /\ Send(gen[g].conn)
  /\ UNCHANGED <<connVars, mgrVars, genVars>>

(* Mutant: the done message waits for room in sendCh. *)
GenDoneWaits(g) ==
  /\ Running
  /\ At(g, "streaming")
  /\ queued[gen[g].conn] < SendCap
  /\ Send(gen[g].conn)
  /\ Goto(g, "clearing")
  /\ UNCHANGED <<connVars, mgrVars, cancelGen, cancelled>>

(* The stream ends: a chunk with Done, or the channel closed, which is what
   the orchestrator does once the context is cancelled.  The done message. *)
GenDone(g) ==
  /\ Running
  /\ At(g, "streaming")
  /\ Send(gen[g].conn)
  /\ Goto(g, "clearing")
  /\ UNCHANGED <<connVars, mgrVars, cancelGen, cancelled>>

(* Mutant: the handle is kept. *)
GenClearsNothing(g) ==
  /\ Running
  /\ At(g, "clearing")
  /\ Returned(g)
  /\ UNCHANGED <<connVars, chanVars, mgrVars, cancelGen, cancelled>>

(* clearCancel, whoever the handle belongs to by now. *)
GenClears(g) ==
  /\ Running
  /\ At(g, "clearing")
  /\ cancelGen' = [cancelGen EXCEPT ![gen[g].conn] = NoGen]
  /\ Returned(g)
  /\ UNCHANGED <<connVars, chanVars, mgrVars, cancelled>>

GenStep(g) ==
  \/ GenRejects(g) \/ GenAcquires(g)
  \/ GenChatFails(g) \/ GenStreams(g)
  \/ GenChunk(g) \/ GenDone(g) \/ GenClears(g)

-----------------------------------------------------------------------------
ManagerStep ==
  \/ \E c \in Conns : ReceiveRegister(c) \/ ReceiveUnregister(c)
  \/ ProcessRegister
  \/ ProcessUnregister

Handle(c) ==
  (\E g \in Gens : HandleChatMessage(c, g)) \/ HandleStop(c) \/ HandleOther(c)

Next ==
  \/ \E c \in Conns, u \in Users : Upgrade(c, u)
  \/ ManagerStep
  \/ \E c \in Conns :
       \/ Disconnect(c)
       \/ \E type \in {"chat", "stop", "other"} : Read(c, type)
       \/ ReadError(c)
       \/ Handle(c)
       \/ Write(c)
       \/ WriteEnds(c)
  \/ \E g \in Gens : GenStep(g)

Spec == Init /\ [][Next]_vars

(* Go runs every goroutine that can run.  run serves both of its channels
   (select is fair between ready cases), the ticker of writePump fires, and
   a stream whose context is cancelled ends; nothing is said about messages
   that arrive, about the peer, or about how long a generation lasts. *)
Fairness ==
  /\ WF_vars(ProcessRegister \/ ProcessUnregister)
  /\ \A c \in Conns :
       /\ SF_vars(ReceiveRegister(c))
       /\ SF_vars(ReceiveUnregister(c))
       /\ WF_vars(ReadError(c))
       /\ WF_vars(Handle(c))
       /\ WF_vars(Write(c))
       /\ WF_vars(WriteEnds(c))
  /\ \A g \in Gens :
       /\ WF_vars(GenRejects(g) \/ GenAcquires(g))
       /\ WF_vars(GenChatFails(g) \/ GenStreams(g))
       /\ WF_vars(g \in cancelled /\ GenDone(g))
       /\ WF_vars(GenClears(g))

FairSpec == Spec /\ Fairness

-----------------------------------------------------------------------------
ConnTypeOK ==
  /\ user \in [Conns -> Users]
  /\ reader \in [Conns -> {"none", "registering", "reading", "handling",
                           "unregistering", "done"}]
  /\ message \in [Conns -> {"none", "chat", "stop", "other"}]
  /\ writing \in SUBSET Conns
  /\ connected \in SUBSET Conns

ChanTypeOK ==
  /\ queued \in [Conns -> 0..SendCap]
  /\ sendClosed \in SUBSET Conns
  /\ crash \in {"none", "send on closed channel", "close of closed channel"}

ManagerTypeOK ==
  /\ clients \in [Users -> Conns \union {NoConn}]
  /\ manager \in [op : {"idle", "register", "unregister"},
                  client : Conns \union {NoConn}]
  /\ manager.op # "idle" => manager.client # NoConn

GenTypeOK ==
  /\ cancelGen \in [Conns -> Gens \union {NoGen}]
  /\ gen \in [Gens -> [pc : {"idle", "spawned", "starting", "streaming",
                             "clearing"},
                       conn : Conns \union {NoConn}]]
  /\ \A g \in Gens : gen[g].pc # "idle" => gen[g].conn # NoConn
  /\ cancelled \in SUBSET Gens

(* Every variable holds a value of its type; a sendCh never holds more than
   its capacity. *)
TypeOK == ConnTypeOK /\ ChanTypeOK /\ ManagerTypeOK /\ GenTypeOK

(* A connection that run has taken in and finished registering. *)
Registered(c) ==
  /\ reader[c] \notin {"none", "registering"}
  /\ ~(manager.op = "register" /\ manager.client = c)

(* Manager.run, register and unregister cases: the connections whose channel
   is open are exactly those in the map, one per user.  A late unregister of a
   replaced connection neither evicts nor closes the one that replaced it, and
   a connection that leaves the map never stays open behind it. *)
OpenIffCurrent ==
  \A c \in Conns :
    Registered(c) => (c \notin sendClosed <=> clients[user[c]] = c)

(* Replacement and unregistration both close the channel; together they do so
   once, so run, which every connection depends on, never panics. *)
ChannelClosedOnce == crash # "close of closed channel"

(* handleChat and clearCancel: the handle that a stop or a new chat would
   cancel belongs to a generation of that connection still in progress. *)
CancelHandleIsLive ==
  \A c \in Conns :
    cancelGen[c] # NoGen =>
      /\ gen[cancelGen[c]].pc \in {"starting", "streaming", "clearing"}
      /\ gen[cancelGen[c]].conn = c

(* run and the deferred function of readPump meet on unbuffered channels: a
   replaced connection still gets its unregister accepted and both its pumps
   end, so replacing never strands a goroutine. *)
ClosedConnectionEnds ==
  \A c \in Conns :
    c \in sendClosed ~> \/ reader[c] = "done" /\ c \notin writing
                        \/ ~Running

(* A connection whose socket is gone does not keep its place in the map. *)
LostConnectionLeaves ==
  \A c \in Conns :
    clients[user[c]] = c /\ c \notin connected
      ~> clients[user[c]] # c \/ ~Running

(* A connection that was closed or lost ends, and its place is free. *)
ConnectionsEnd == ClosedConnectionEnds /\ LostConnectionLeaves

(* A generation whose context was cancelled, by a stop or by the next chat,
   returns, whatever becomes of its connection. *)
CancelledGenerationEnds ==
  \A g \in Gens : g \in cancelled /\ Active(g) ~> ~Active(g) \/ ~Running

(* docs/ISSUES.md:471 "Graceful close con codigo de cierre": closing a
   connection does not bring the service down. *)
CloseIsGraceful == crash # "send on closed channel"

(* docs/ISSUES.md:484 "Usuario puede cancelar generacion en curso": a stop
   reaches the generations in progress on its connection. *)
StopReachesGenerations ==
  [][\A c \in Conns : HandleStop(c) =>
       \A g \in Gens :
         gen[g].conn = c /\ gen[g].pc = "streaming" => g \in cancelled']_vars
=============================================================================
