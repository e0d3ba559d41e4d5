-------------------------- MODULE WsManagerProofs ---------------------------
(***************************************************************************)
(* The safety properties of WsManager for any number of users, connections *)
(* and generations.                                                        *)
(***************************************************************************)
EXTENDS WsManager, TLAPS

(* The map names a connection under its own user, and only one that run has
   finished registering; a connection on its way into the map is open and in
   it nowhere. *)
MapInv ==
  /\ \A u \in Users, c \in Conns :
       clients[u] = c => user[c] = u /\ Registered(c)
  /\ \A c \in Conns :
       reader[c] = "registering" => c \notin sendClosed
  /\ manager.op = "register" =>
       /\ reader[manager.client] \notin {"none", "registering"}
       /\ manager.client \notin sendClosed
  /\ \A c \in Conns :
       manager.op = "unregister" /\ manager.client = c => Registered(c)

SafetyInv ==
  /\ TypeOK
  /\ MapInv
  /\ OpenIffCurrent
  /\ ChannelClosedOnce
  /\ CancelHandleIsLive

-----------------------------------------------------------------------------
(* What the two operations on a channel do to the variables of channels. *)
LEMMA SendFacts ==
  ASSUME ChanTypeOK, NEW c \in Conns, Send(c)
  PROVE  sendClosed' = sendClosed /\ ChanTypeOK'
<1>1. sendClosed' = sendClosed
  BY DEF Send
<1>2. CASE c \in sendClosed
  BY <1>1, <1>2 DEF Send, ChanTypeOK
<1>3. CASE c \notin sendClosed
  <2>1. /\ queued' = [queued EXCEPT ![c] = IF @ < SendCap THEN @ + 1 ELSE @]
        /\ crash' = crash
    BY <1>3 DEF Send
  <2>2. (IF queued[c] < SendCap THEN queued[c] + 1 ELSE queued[c])
          \in 0..SendCap
    <3>1. queued[c] \in 0..SendCap /\ SendCap \in Nat
      BY ConstantsAssumption DEF ChanTypeOK
    <3> QED
      BY <3>1
  <2> QED
    BY <1>1, <2>1, <2>2 DEF ChanTypeOK
<1> QED
  BY <1>1, <1>2, <1>3

LEMMA CloseFacts ==
  ASSUME ChanTypeOK, NEW c \in Conns, CloseChannel(c)
  PROVE  /\ ChanTypeOK'
         /\ c \notin sendClosed =>
              sendClosed' = sendClosed \union {c} /\ crash' = crash
BY DEF CloseChannel, ChanTypeOK

-----------------------------------------------------------------------------
LEMMA InitSafety == Init => SafetyInv
<1> SUFFICES ASSUME Init PROVE SafetyInv
  OBVIOUS
<1>1. TypeOK
  BY ConstantsAssumption
  DEF Init, TypeOK, ConnTypeOK, ChanTypeOK, ManagerTypeOK, GenTypeOK
<1>2. MapInv /\ OpenIffCurrent /\ ChannelClosedOnce /\ CancelHandleIsLive
  BY ConstantsAssumption
  DEF Init, MapInv, OpenIffCurrent, ChannelClosedOnce, CancelHandleIsLive,
      Registered
<1> QED
  BY <1>1, <1>2 DEF SafetyInv

(* Every step keeps the types. *)
LEMMA NextType == TypeOK /\ [Next]_vars => TypeOK'
<1> SUFFICES ASSUME TypeOK, [Next]_vars PROVE TypeOK'
  OBVIOUS
<1> USE ConstantsAssumption
<1>a. ConnTypeOK /\ ChanTypeOK /\ ManagerTypeOK /\ GenTypeOK
  BY DEF TypeOK
<1>b. SUFFICES ConnTypeOK' /\ ChanTypeOK' /\ ManagerTypeOK' /\ GenTypeOK'
  BY DEF TypeOK
<1>c. /\ UNCHANGED connVars => ConnTypeOK'
      /\ UNCHANGED chanVars => ChanTypeOK'
      /\ UNCHANGED mgrVars => ManagerTypeOK'
      /\ UNCHANGED genVars => GenTypeOK'
  BY <1>a DEF connVars, chanVars, mgrVars, genVars, ConnTypeOK, ChanTypeOK,
              ManagerTypeOK, GenTypeOK
<1>1. ASSUME NEW c \in Conns, NEW u \in Users, Upgrade(c, u)
      PROVE  ConnTypeOK' /\ ChanTypeOK' /\ ManagerTypeOK' /\ GenTypeOK'
  <2>1. ConnTypeOK'
    BY <1>a, <1>1 DEF Upgrade, ConnTypeOK
  <2>2. ChanTypeOK'
    <3>1. 0 \in 0..SendCap
      BY SMT
    <3> QED
      BY <1>a, <1>1, <3>1 DEF Upgrade, ChanTypeOK
  <2>3. GenTypeOK'
    BY <1>a, <1>1 DEF Upgrade, GenTypeOK
  <2> QED
    BY <1>c, <1>1, <2>1, <2>2, <2>3 DEF Upgrade
<1>2. CASE ManagerStep
  <2>1. ASSUME NEW c \in Conns, ReceiveRegister(c) \/ ReceiveUnregister(c)
        PROVE  ConnTypeOK' /\ ChanTypeOK' /\ ManagerTypeOK' /\ GenTypeOK'
    <3>1. ConnTypeOK'
      BY <1>a, <2>1 DEF ReceiveRegister, ReceiveUnregister, ConnTypeOK
    <3>2. ManagerTypeOK'
      BY <1>a, <2>1 DEF ReceiveRegister, ReceiveUnregister, ManagerTypeOK
    <3> QED
      BY <1>c, <2>1, <3>1, <3>2 DEF ReceiveRegister, ReceiveUnregister
  <2>2. CASE ProcessRegister \/ ProcessUnregister
    <3>1. manager.client \in Conns /\ user[manager.client] \in Users
      BY <1>a, <2>2
      DEF ProcessRegister, ProcessUnregister, ManagerTypeOK, ConnTypeOK
    <3>2. clients[user[manager.client]] \in Conns \union {NoConn}
      BY <1>a, <3>1 DEF ManagerTypeOK
    <3>3. ChanTypeOK'
      BY <1>a, <1>c, <2>2, <3>1, <3>2, CloseFacts
      DEF ProcessRegister, ProcessUnregister
    <3>4. ConnTypeOK'
      BY <1>a, <2>2 DEF ProcessRegister, ProcessUnregister, ConnTypeOK
    <3>5. ManagerTypeOK'
      BY <1>a, <2>2, <3>1
      DEF ProcessRegister, ProcessUnregister, ManagerTypeOK
    <3> QED
      BY <1>c, <2>2, <3>3, <3>4, <3>5 DEF ProcessRegister, ProcessUnregister
  <2> QED
    BY <1>2, <2>1, <2>2 DEF ManagerStep
<1>3. ASSUME NEW c \in Conns, Disconnect(c) \/ ReadError(c) \/ WriteEnds(c)
      PROVE  ConnTypeOK' /\ ChanTypeOK' /\ ManagerTypeOK' /\ GenTypeOK'
  <2>1. ConnTypeOK'
    BY <1>a, <1>3 DEF Disconnect, ReadError, WriteEnds, ConnTypeOK
  <2> QED
    BY <1>c, <1>3, <2>1 DEF Disconnect, ReadError, WriteEnds
<1>4. ASSUME NEW c \in Conns, Write(c)
      PROVE  ConnTypeOK' /\ ChanTypeOK' /\ ManagerTypeOK' /\ GenTypeOK'
  <2>1. queued[c] - 1 \in 0..SendCap
    <3>1. queued[c] \in 0..SendCap /\ queued[c] > 0 /\ SendCap \in Nat
      BY <1>a, <1>4 DEF Write, ChanTypeOK
    <3> QED
      BY <3>1
  <2>2. ChanTypeOK'
    BY <1>a, <1>4, <2>1 DEF Write, ChanTypeOK
  <2> QED
    BY <1>c, <1>4, <2>2 DEF Write
<1>5. ASSUME NEW c \in Conns, NEW type \in {"chat", "stop", "other"},
             Read(c, type)
      PROVE  ConnTypeOK' /\ ChanTypeOK' /\ ManagerTypeOK' /\ GenTypeOK'
  <2>1. ConnTypeOK'
    BY <1>a, <1>5 DEF Read, ConnTypeOK
  <2> QED
    BY <1>c, <1>5, <2>1 DEF Read
<1>6. ASSUME NEW c \in Conns, Handle(c)
      PROVE  ConnTypeOK' /\ ChanTypeOK' /\ ManagerTypeOK' /\ GenTypeOK'
  <2>1. ASSUME Handled(c) PROVE ConnTypeOK'
    BY <1>a, <2>1 DEF Handled, ConnTypeOK
  <2>2. ASSUME NEW g \in Gens, HandleChatMessage(c, g)
        PROVE  ConnTypeOK' /\ ChanTypeOK' /\ ManagerTypeOK' /\ GenTypeOK'
    <3>1. GenTypeOK'
      BY <1>a, <2>2 DEF HandleChatMessage, GenTypeOK
    <3> QED
      BY <1>c, <2>1, <2>2, <3>1 DEF HandleChatMessage
  <2>3. CASE HandleStop(c)
    <3>1. GenTypeOK'
      BY <1>a, <2>3 DEF HandleStop, GenTypeOK
    <3> QED
      BY <1>c, <2>1, <2>3, <3>1 DEF HandleStop
  <2>4. CASE HandleOther(c)
    BY <1>a, <1>c, <2>1, <2>4, SendFacts DEF HandleOther
  <2> QED
    BY <1>6, <2>2, <2>3, <2>4 DEF Handle
<1>7. ASSUME NEW g \in Gens, GenStep(g)
      PROVE  ConnTypeOK' /\ ChanTypeOK' /\ ManagerTypeOK' /\ GenTypeOK'
  <2>1. gen[g].conn \in Conns
    BY <1>a, <1>7
    DEF GenStep, GenRejects, GenAcquires, GenChatFails, GenStreams, GenChunk,
        GenDone, GenClears, At, GenTypeOK
  <2>2. UNCHANGED connVars /\ UNCHANGED mgrVars
    BY <1>7
    DEF GenStep, GenRejects, GenAcquires, GenChatFails, GenStreams, GenChunk,
        GenDone, GenClears
  <2>3. UNCHANGED chanVars \/ Send(gen[g].conn)
    BY <1>7
    DEF GenStep, GenRejects, GenAcquires, GenChatFails, GenStreams, GenChunk,
        GenDone, GenClears
  <2>4. ChanTypeOK'
    BY <1>a, <1>c, <2>1, <2>3, SendFacts
  <2>5. /\ cancelGen' \in [Conns -> Gens \union {NoGen}]
        /\ cancelled' \in SUBSET Gens
    BY <1>a, <1>7, <2>1
    DEF GenStep, GenRejects, GenAcquires, GenChatFails, GenStreams, GenChunk,
        GenDone, GenClears, GenTypeOK, genVars
  <2>6. \/ gen' = gen
        \/ Returned(g)
        \/ \E pc \in {"starting", "streaming", "clearing"} : Goto(g, pc)
    BY <1>7
    DEF GenStep, GenRejects, GenAcquires, GenChatFails, GenStreams, GenChunk,
        GenDone, GenClears, genVars
  <2>7. GenTypeOK'
    BY <1>a, <2>1, <2>5, <2>6 DEF Returned, Goto, GenTypeOK
  <2> QED
    BY <1>c, <2>2, <2>4, <2>7
<1>8. CASE UNCHANGED vars
  BY <1>c, <1>8 DEF vars
<1> QED
  BY <1>1, <1>2, <1>3, <1>4, <1>5, <1>6, <1>7, <1>8 DEF Next

-----------------------------------------------------------------------------
(* The map, the channels and the connections on their way into the map. *)
LEMMA NextMap ==
  SafetyInv /\ [Next]_vars
    => MapInv' /\ OpenIffCurrent' /\ ChannelClosedOnce'
<1> SUFFICES ASSUME SafetyInv, [Next]_vars
             PROVE  MapInv' /\ OpenIffCurrent' /\ ChannelClosedOnce'
  OBVIOUS
<1> USE ConstantsAssumption
<1>a. /\ ConnTypeOK /\ ChanTypeOK /\ ManagerTypeOK /\ GenTypeOK
      /\ MapInv /\ OpenIffCurrent /\ ChannelClosedOnce
  BY DEF SafetyInv, TypeOK
<1>1. ASSUME UNCHANGED <<user, clients, sendClosed, manager>>,
             crash' \in {crash, "send on closed channel"},
             \A c \in Conns :
               \/ reader'[c] = reader[c]
               \/ /\ reader[c] \notin {"none", "registering"}
                  /\ reader'[c] \notin {"none", "registering"}
      PROVE  MapInv' /\ OpenIffCurrent' /\ ChannelClosedOnce'
  <2>1. \A c \in Conns : Registered(c)' <=> Registered(c)
    BY <1>1 DEF Registered
  <2>2. \A u \in Users : clients[u] \in Conns \union {NoConn}
    BY <1>a DEF ManagerTypeOK
  <2>3. manager.op # "idle" => manager.client \in Conns
    BY <1>a DEF ManagerTypeOK
  <2>4. MapInv'
    BY <1>a, <1>1, <2>1, <2>2, <2>3 DEF MapInv
  <2> QED
    BY <1>a, <1>1, <2>1, <2>4 DEF OpenIffCurrent, ChannelClosedOnce
<1>2. ASSUME NEW c \in Conns, NEW u \in Users, Upgrade(c, u)
      PROVE  MapInv' /\ OpenIffCurrent' /\ ChannelClosedOnce'
  <2>1. /\ Fresh(c)
        /\ user' = [user EXCEPT ![c] = u]
        /\ reader' = [reader EXCEPT ![c] = "registering"]
        /\ sendClosed' = sendClosed \ {c}
        /\ UNCHANGED <<clients, manager, crash>>
    BY <1>2 DEF Upgrade, mgrVars
  <2>2. ASSUME NEW d \in Conns, d # c
        PROVE  /\ Registered(d)' <=> Registered(d)
               /\ user'[d] = user[d]
               /\ reader'[d] = reader[d]
               /\ d \in sendClosed' <=> d \in sendClosed
    BY <1>a, <2>1, <2>2 DEF Registered, ConnTypeOK
  <2>3. reader'[c] = "registering" /\ ~Registered(c)'
    BY <1>a, <2>1 DEF Registered, ConnTypeOK
  <2>4. /\ \A v \in Users : clients[v] # c /\ clients[v] \in Conns \union {NoConn}
        /\ manager.client # c
        /\ manager.op # "idle" => manager.client \in Conns
    BY <1>a, <2>1 DEF Fresh, ManagerTypeOK
  <2>5. MapInv'
    BY <1>a, <2>1, <2>2, <2>3, <2>4 DEF MapInv
  <2>6. OpenIffCurrent'
    BY <1>a, <2>1, <2>2, <2>3 DEF OpenIffCurrent
  <2> QED
    BY <1>a, <2>1, <2>5, <2>6 DEF ChannelClosedOnce
<1>3. ASSUME NEW c \in Conns, ReceiveRegister(c)
      PROVE  MapInv' /\ OpenIffCurrent' /\ ChannelClosedOnce'
  <2>1. /\ manager.op = "idle"
        /\ reader[c] = "registering"
        /\ manager' = [op |-> "register", client |-> c]
        /\ reader' = [reader EXCEPT ![c] = "reading"]
        /\ UNCHANGED <<user, clients, sendClosed, crash>>
    BY <1>3 DEF ReceiveRegister, chanVars
  <2>2. ~Registered(c) /\ ~Registered(c)' /\ c \notin sendClosed
        /\ reader'[c] = "reading"
    BY <1>a, <2>1 DEF Registered, ConnTypeOK, MapInv
  <2>3. ASSUME NEW d \in Conns, d # c
        PROVE  (Registered(d)' <=> Registered(d)) /\ reader'[d] = reader[d]
    BY <1>a, <2>1, <2>3 DEF Registered, ConnTypeOK
  <2>4. \A u \in Users : clients[u] # c /\ clients[u] \in Conns \union {NoConn}
    BY <1>a, <2>2 DEF MapInv, ManagerTypeOK
  <2>5. MapInv'
    BY <1>a, <2>1, <2>2, <2>3, <2>4 DEF MapInv
  <2>6. OpenIffCurrent'
    BY <1>a, <2>1, <2>2, <2>3 DEF OpenIffCurrent
  <2> QED
    BY <1>a, <2>1, <2>5, <2>6 DEF ChannelClosedOnce
<1>4. ASSUME NEW c \in Conns, ReceiveUnregister(c)
      PROVE  MapInv' /\ OpenIffCurrent' /\ ChannelClosedOnce'
  <2>1. /\ manager.op = "idle"
        /\ reader[c] = "unregistering"
        /\ manager' = [op |-> "unregister", client |-> c]
        /\ reader' = [reader EXCEPT ![c] = "done"]
        /\ UNCHANGED <<user, clients, sendClosed, crash>>
    BY <1>4 DEF ReceiveUnregister, chanVars
  <2>2. ASSUME NEW d \in Conns
        PROVE  /\ Registered(d)' <=> Registered(d)
               /\ reader'[d] = "registering" => reader[d] = "registering"
    BY <1>a, <2>1 DEF Registered, ConnTypeOK
  <2>3. Registered(c)'
    BY <1>a, <2>1 DEF Registered, ConnTypeOK
  <2>4. \A u \in Users : clients[u] \in Conns \union {NoConn}
    BY <1>a DEF ManagerTypeOK
  <2>5. MapInv'
    BY <1>a, <2>1, <2>2, <2>3, <2>4 DEF MapInv
  <2>6. OpenIffCurrent'
    BY <1>a, <2>1, <2>2 DEF OpenIffCurrent
  <2> QED
    BY <1>a, <2>1, <2>5, <2>6 DEF ChannelClosedOnce
<1>5. ASSUME NEW c \in Conns, NEW u \in Users,
             c = manager.client, u = user[c], ProcessRegister
      PROVE  MapInv' /\ OpenIffCurrent' /\ ChannelClosedOnce'
  <2> DEFINE old == clients[u]
  <2>1. /\ old \in Conns \union {NoConn}
        /\ manager.op = "register"
        /\ reader[c] \notin {"none", "registering"}
        /\ c \notin sendClosed
        /\ ~Registered(c)
    BY <1>a, <1>5
    DEF ProcessRegister, ManagerTypeOK, ConnTypeOK, MapInv, Registered
  <2>2. /\ manager'.op = "idle"
        /\ clients' = [clients EXCEPT ![u] = c]
        /\ UNCHANGED <<user, reader>>
    BY <1>5 DEF ProcessRegister
  <2>3. /\ old # c
        /\ old # NoConn => old \notin sendClosed
        /\ \A v \in Users : clients[v] # c
                            /\ clients[v] \in Conns \union {NoConn}
    BY <1>a, <2>1 DEF MapInv, OpenIffCurrent, ManagerTypeOK
  <2>4. sendClosed' = sendClosed \union ({old} \ {NoConn}) /\ crash' = crash
    <3>1. CASE old = NoConn
      BY <1>5, <3>1 DEF ProcessRegister, chanVars
    <3>2. CASE old # NoConn
      BY <1>a, <1>5, <2>1, <2>3, <3>2, CloseFacts DEF ProcessRegister
    <3> QED
      BY <3>1, <3>2
  <2>5. Registered(c)' /\ \A d \in Conns : d # c =>
          (Registered(d)' <=> Registered(d))
    BY <2>1, <2>2 DEF Registered
  <2>6. clients'[u] = c /\ \A v \in Users : v # u => clients'[v] = clients[v]
    BY <1>a, <2>1, <2>2 DEF ManagerTypeOK
  <2> HIDE DEF old
  <2>7. MapInv'
    <3>1. \A v \in Users, d \in Conns :
            clients'[v] = d => user'[d] = v /\ Registered(d)'
      BY <1>5, <1>a, <2>1, <2>2, <2>3, <2>5, <2>6 DEF MapInv
    <3>2. \A d \in Conns : reader'[d] = "registering" => d \notin sendClosed'
      <4>1. ASSUME NEW d \in Conns, reader[d] = "registering"
            PROVE  d \notin sendClosed /\ d # old
        BY <1>a, <2>1, <4>1 DEF MapInv, Registered, old
      <4> QED
        BY <2>2, <2>4, <4>1
    <3> QED
      BY <2>2, <3>1, <3>2 DEF MapInv
  <2>8. OpenIffCurrent'
    <3> SUFFICES ASSUME NEW d \in Conns, Registered(d)'
                 PROVE  d \notin sendClosed' <=> clients'[user[d]] = d
      BY <2>2 DEF OpenIffCurrent
    <3>1. CASE d = c
      BY <2>1, <2>3, <2>4, <2>6, <1>5, <3>1
    <3>2. CASE d # c /\ d = old
      <4>1. user[d] = u
        BY <1>a, <2>1, <3>2 DEF MapInv, old
      <4> QED
        BY <2>1, <2>4, <2>6, <3>2, <4>1
    <3>3. CASE d # c /\ d # old
      <4>1. Registered(d)
        BY <2>5, <3>3
      <4>2. user[d] = u => clients'[user[d]] # d /\ clients[user[d]] # d
        BY <2>6, <3>3 DEF old
      <4>3. user[d] # u => clients'[user[d]] = clients[user[d]]
        BY <1>a, <2>6 DEF ConnTypeOK
      <4> QED
        BY <1>a, <2>4, <3>3, <4>1, <4>2, <4>3 DEF OpenIffCurrent
    <3> QED
      BY <3>1, <3>2, <3>3
  <2> QED
    BY <1>a, <2>4, <2>7, <2>8 DEF ChannelClosedOnce
<1>6. ASSUME NEW c \in Conns, NEW u \in Users,
             c = manager.client, u = user[c], ProcessUnregister
      PROVE  MapInv' /\ OpenIffCurrent' /\ ChannelClosedOnce'
  <2>1. /\ manager.op = "unregister"
        /\ Registered(c)
    BY <1>a, <1>6 DEF ProcessUnregister, ManagerTypeOK, ConnTypeOK, MapInv
  <2>2. manager'.op = "idle" /\ UNCHANGED <<user, reader>>
    BY <1>6 DEF ProcessUnregister
  <2>3. \A d \in Conns : Registered(d)' <=> Registered(d)
    BY <2>1, <2>2 DEF Registered
  <2>4. \A v \in Users : clients[v] \in Conns \union {NoConn}
    BY <1>a DEF ManagerTypeOK
  <2>5. CASE clients[u] # c
    <3>1. UNCHANGED <<clients, sendClosed, crash>>
      BY <1>6, <2>5 DEF ProcessUnregister, chanVars
    <3>2. MapInv'
      BY <1>a, <2>2, <2>3, <2>4, <3>1 DEF MapInv
    <3> QED
      BY <1>a, <2>2, <2>3, <3>1, <3>2 DEF OpenIffCurrent, ChannelClosedOnce
  <2>6. CASE clients[u] = c
    <3>1. c \notin sendClosed
      BY <1>a, <1>6, <2>1, <2>6 DEF OpenIffCurrent
    <3>2. /\ clients' = [clients EXCEPT ![u] = NoConn]
          /\ sendClosed' = sendClosed \union {c}
          /\ crash' = crash
      BY <1>a, <1>6, <2>1, <2>6, <3>1, CloseFacts DEF ProcessUnregister
    <3>3. clients'[u] = NoConn /\ \A v \in Users : v # u => clients'[v] = clients[v]
      BY <1>a, <2>1, <3>2 DEF ManagerTypeOK
    <3>4. MapInv'
      <4>1. \A v \in Users, d \in Conns :
              clients'[v] = d => user'[d] = v /\ Registered(d)'
        BY ConstantsAssumption, <1>a, <2>2, <2>3, <2>4, <3>3 DEF MapInv
      <4>2. \A d \in Conns : reader'[d] = "registering" => d \notin sendClosed'
        BY <1>a, <2>1, <2>2, <3>2 DEF MapInv, Registered
      <4> QED
        BY <2>2, <4>1, <4>2 DEF MapInv
    <3>5. OpenIffCurrent'
      <4> SUFFICES ASSUME NEW d \in Conns, Registered(d)
                   PROVE  d \notin sendClosed' <=> clients'[user[d]] = d
        BY <2>2, <2>3 DEF OpenIffCurrent
      <4>1. CASE d = c
        BY <2>1, <3>2, <3>3, <1>6, <4>1
      <4>2. CASE d # c
        <5>1. user[d] \in Users
          BY <1>a DEF ConnTypeOK
        <5>2. clients'[user[d]] = d <=> clients[user[d]] = d
          BY <2>6, <3>3, <4>2, <5>1
        <5> QED
          BY <1>a, <3>2, <4>2, <5>2 DEF OpenIffCurrent
      <4> QED
        BY <4>1, <4>2
    <3> QED
      BY <1>a, <3>2, <3>4, <3>5 DEF ChannelClosedOnce
  <2> QED
    BY <2>5, <2>6
<1>7. ASSUME NEW c \in Conns,
             \/ Disconnect(c) \/ ReadError(c) \/ Write(c) \/ WriteEnds(c)
             \/ \E type \in {"chat", "stop", "other"} : Read(c, type)
      PROVE  MapInv' /\ OpenIffCurrent' /\ ChannelClosedOnce'
  <2>1. CASE Disconnect(c) \/ Write(c) \/ WriteEnds(c)
    BY <1>1, <2>1 DEF Disconnect, Write, WriteEnds, chanVars, mgrVars, connVars
  <2>2. CASE ReadError(c)
    BY <1>1, <1>a, <2>2 DEF ReadError, chanVars, mgrVars, ConnTypeOK
  <2>3. CASE \E type \in {"chat", "stop", "other"} : Read(c, type)
    BY <1>1, <1>a, <2>3 DEF Read, chanVars, mgrVars, ConnTypeOK
  <2> QED
    BY <1>7, <2>1, <2>2, <2>3
<1>8. ASSUME NEW c \in Conns, Handle(c)
      PROVE  MapInv' /\ OpenIffCurrent' /\ ChannelClosedOnce'
  <2>1. /\ reader[c] = "handling"
        /\ Handled(c)
        /\ UNCHANGED mgrVars
        /\ UNCHANGED chanVars \/ Send(c)
    BY <1>8 DEF Handle, HandleChatMessage, HandleStop, HandleOther
  <2>2. sendClosed' = sendClosed /\ crash' \in {crash, "send on closed channel"}
    BY <2>1 DEF chanVars, Send
  <2> QED
    BY <1>1, <1>a, <2>1, <2>2 DEF Handled, mgrVars, ConnTypeOK
<1>9. ASSUME NEW g \in Gens, GenStep(g)
      PROVE  MapInv' /\ OpenIffCurrent' /\ ChannelClosedOnce'
  <2>1. /\ UNCHANGED connVars /\ UNCHANGED mgrVars
        /\ UNCHANGED chanVars \/ Send(gen[g].conn)
    BY <1>9
    DEF GenStep, GenRejects, GenAcquires, GenChatFails, GenStreams, GenChunk,
        GenDone, GenClears
  <2>2. sendClosed' = sendClosed /\ crash' \in {crash, "send on closed channel"}
    BY <2>1 DEF chanVars, Send
  <2> QED
    BY <1>1, <2>1, <2>2 DEF connVars, mgrVars
<1>10. CASE UNCHANGED vars
  BY <1>1, <1>10 DEF vars, connVars, chanVars, mgrVars
<1>11. manager.op # "idle" =>
         manager.client \in Conns /\ user[manager.client] \in Users
  BY <1>a DEF ManagerTypeOK, ConnTypeOK
<1>12. CASE ManagerStep
  BY <1>3, <1>4, <1>5, <1>6, <1>11, <1>12
  DEF ManagerStep, ProcessRegister, ProcessUnregister
<1> QED
  BY <1>2, <1>7, <1>8, <1>9, <1>10, <1>12 DEF Next

(* Only its own steps move a generation, and a handle is taken by a generation
   that has just started and dropped before it returns. *)
LEMMA NextHandle == SafetyInv /\ [Next]_vars => CancelHandleIsLive'
<1> SUFFICES ASSUME SafetyInv, [Next]_vars PROVE CancelHandleIsLive'
  OBVIOUS
<1>a. ConnTypeOK /\ GenTypeOK /\ CancelHandleIsLive /\ NoGen \notin Gens
  BY ConstantsAssumption DEF SafetyInv, TypeOK
<1>1. ASSUME UNCHANGED <<gen, cancelGen>> PROVE CancelHandleIsLive'
  BY <1>a, <1>1 DEF CancelHandleIsLive
<1>2. ASSUME NEW c \in Conns, NEW u \in Users, Upgrade(c, u)
      PROVE  CancelHandleIsLive'
  BY <1>a, <1>2 DEF Upgrade, GenTypeOK, CancelHandleIsLive
<1>3. CASE ManagerStep
  BY <1>1, <1>3 DEF ManagerStep, ReceiveRegister, ReceiveUnregister,
                    ProcessRegister, ProcessUnregister, genVars
<1>4. ASSUME NEW c \in Conns,
             \/ Disconnect(c) \/ ReadError(c) \/ Write(c) \/ WriteEnds(c)
             \/ \E type \in {"chat", "stop", "other"} : Read(c, type)
             \/ HandleStop(c) \/ HandleOther(c)
      PROVE  CancelHandleIsLive'
  BY <1>1, <1>4 DEF Disconnect, ReadError, Write, WriteEnds, Read, HandleStop,
                    HandleOther, genVars
<1>5. ASSUME NEW c \in Conns, NEW g \in Gens, HandleChatMessage(c, g)
      PROVE  CancelHandleIsLive'
  <2>1. /\ gen[g].pc = "idle"
        /\ gen' = [gen EXCEPT ![g] = [pc |-> "spawned", conn |-> c]]
        /\ cancelGen' = cancelGen
    BY <1>5 DEF HandleChatMessage, Active
  <2>2. \A d \in Conns : cancelGen[d] # g
    BY <1>a, <2>1 DEF CancelHandleIsLive
  <2> QED
    BY <1>a, <2>1, <2>2 DEF GenTypeOK, CancelHandleIsLive
<1>6. ASSUME NEW g \in Gens, GenStep(g)
      PROVE  CancelHandleIsLive'
  <2>1. gen[g].pc # "idle" /\ gen[g].conn \in Conns
    BY <1>a, <1>6
    DEF GenStep, GenRejects, GenAcquires, GenChatFails, GenStreams, GenChunk,
        GenDone, GenClears, At, GenTypeOK
  <2>2. CASE GenRejects(g)
    <3>1. \A d \in Conns : cancelGen[d] # g
      BY <1>a, <2>2 DEF GenRejects, At, CancelHandleIsLive
    <3> QED
      BY <1>a, <2>2, <3>1 DEF GenRejects, Returned, GenTypeOK, CancelHandleIsLive
  <2>3. CASE GenAcquires(g)
    BY <1>a, <2>1, <2>3
    DEF GenAcquires, Goto, At, GenTypeOK, CancelHandleIsLive
  <2>4. CASE GenChatFails(g) \/ GenStreams(g) \/ GenDone(g)
    BY <1>a, <2>1, <2>4
    DEF GenChatFails, GenStreams, GenDone, Goto, At, GenTypeOK,
        CancelHandleIsLive
  <2>5. CASE GenChunk(g)
    BY <1>1, <2>5 DEF GenChunk, genVars
  <2>6. CASE GenClears(g)
    <3>1. \A d \in Conns : d # gen[g].conn => cancelGen[d] # g
      BY <1>a DEF CancelHandleIsLive
    <3> QED
      BY <1>a, <2>1, <2>6, <3>1
      DEF GenClears, Returned, GenTypeOK, CancelHandleIsLive
  <2> QED
    BY <1>6, <2>2, <2>3, <2>4, <2>5, <2>6 DEF GenStep
<1>7. CASE UNCHANGED vars
  BY <1>1, <1>7 DEF vars, genVars
<1> QED
  BY <1>2, <1>3, <1>4, <1>5, <1>6, <1>7 DEF Next, Handle

-----------------------------------------------------------------------------
(* In every reachable state of the sessions the types, the map and the
   cancellation handles are as SafetyInv says. *)
THEOREM Safety == Spec => []SafetyInv
<1>1. SafetyInv /\ [Next]_vars => SafetyInv'
  BY NextType, NextMap, NextHandle DEF SafetyInv
<1> QED
  BY InitSafety, <1>1, PTL DEF Spec

(* A sendCh never holds more than its capacity and every variable keeps its
   type (manager.go, whole file). *)
THEOREM TypeCorrect == Spec => []TypeOK
<1>1. SafetyInv => TypeOK
  BY DEF SafetyInv
<1> QED
  BY Safety, <1>1, PTL

(* Manager.run closes exactly the connections it takes out of the map, in
   whatever order registrations and unregistrations of a user meet. *)
THEOREM MapIsExact == Spec => []OpenIffCurrent
<1>1. SafetyInv => OpenIffCurrent
  BY DEF SafetyInv
<1> QED
  BY Safety, <1>1, PTL

(* Manager.run never closes a channel a second time. *)
THEOREM NoDoubleClose == Spec => []ChannelClosedOnce
<1>1. SafetyInv => ChannelClosedOnce
  BY DEF SafetyInv
<1> QED
  BY Safety, <1>1, PTL

(* Client.cancelGen never outlives the generation it cancels. *)
THEOREM HandleIsLive == Spec => []CancelHandleIsLive
<1>1. SafetyInv => CancelHandleIsLive
  BY DEF SafetyInv
<1> QED
  BY Safety, <1>1, PTL
=============================================================================
