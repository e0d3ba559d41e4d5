----------------------------- MODULE ChatStore -----------------------------
(***************************************************************************)
(* r3-chat's chatStore: what a browser shows of the user's chats while     *)
(* answers stream in.  Every update is atomic, but between two of them any *)
(* answer of the service may arrive: a stream's next event, a chat that    *)
(* was selected or is loaded again after its answer, a chat created or     *)
(* deleted, the list.  Events are applied to the chat shown when they      *)
(* arrive.  Of messages the model keeps the assistant's answers.           *)
(***************************************************************************)
EXTENDS Integers, Sequences, FiniteSets

CONSTANTS
  MaxStreams,       \* bound: questions
  MaxPieces,        \* bound: chunks of an answer
  MaxMoves          \* bound: chats selected, created and deleted, and lists

ASSUME ChatStoreAssumption ==
  MaxStreams \in Nat /\ MaxPieces \in Nat /\ MaxMoves \in Nat

VARIABLES
  chats,         \* the list, a set of chats
  currentChat,   \* the chat shown
  isStreaming,   \* the input is off
  streams,       \* the requests of sendMessage
  replies,       \* requests to the service that are not answered
  conversations, \* of the service: "active" or "deleted"
  moves,         \* number of moves
  crossed        \* history: streams that were open while something else changed
                 \* the chat shown

chatStoreVars == <<chats, currentChat, isStreaming, streams, replies,
                   conversations, moves, crossed>>

(* A chat's id is the service's, or pending and minus the stream it is for.
   Its messages may be undefined: the service omits them when it lists chats
   and when there are none. *)
NoChat == [id |-> 0, known |-> FALSE, messages |-> {}]
Unloaded(c) == [id |-> c, known |-> FALSE, messages |-> {}]
isPendingChatId(c) == c < 0

(* An answer is live while its id starts with "stream-". *)
Message(s) == [of |-> s, live |-> TRUE, pieces |-> <<>>]
Live(chat) == {m \in chat.messages : m.live}

Replaced(list, chat) ==
  IF chat.id \in {c.id : c \in list}
  THEN {c \in list : c.id # chat.id} \union {chat} ELSE list
Listed(list, chat) == {c \in list : c.id # chat.id} \union {chat}

Open(s) == streams[s].at # "over"
Crosses(s) ==
  crossed' =
    IF <<currentChat, isStreaming>>' = <<currentChat, isStreaming>>
    THEN crossed ELSE crossed \union {t \in DOMAIN streams \ {s} : Open(t)}

(* set: the chat shown becomes another, in the list too. *)
Show(messages) ==
  LET chat == [currentChat EXCEPT !.messages = messages]
  IN  currentChat' = chat /\ chats' = Replaced(chats, chat)

Stays == UNCHANGED <<chats, currentChat, isStreaming>>

-----------------------------------------------------------------------------
(* sendMessage *)

(* The button is off while isStreaming. *)
SendMessage ==
  LET s == Len(streams) + 1
      base == IF currentChat = NoChat THEN Unloaded(-s) ELSE currentChat
      chat == [base EXCEPT !.known = TRUE, !.messages = @ \union {Message(s)}]
  IN  /\ ~ isStreaming /\ s <= MaxStreams
      /\ currentChat' = chat
      /\ chats' = Listed(chats, chat)
      /\ isStreaming' = TRUE
      /\ streams' = Append(streams,
           [at |-> "asked", pieces |-> 0, finished |-> FALSE,
            chat |-> IF isPendingChatId(base.id) THEN 0 ELSE base.id])
      /\ Crosses(s)
      /\ UNCHANGED <<replies, conversations, moves>>

(* The service answers 200, in a new conversation if none was named. *)
Accept(s) ==
  /\ streams[s].at = "asked"
  /\ LET new == streams[s].chat = 0
     IN  /\ conversations' = IF new THEN Append(conversations, "active")
                                    ELSE conversations
         /\ streams' = [streams EXCEPT ![s].at = "open",
              ![s].chat = IF new THEN Len(conversations) + 1 ELSE @]
  /\ Stays
  /\ UNCHANGED <<replies, moves, crossed>>

(* A chunk is appended to every live answer of the chat shown.  A handler that
   throws, on undefined messages, is silenced by processEvent. *)
OnChunk(s) ==
  /\ streams[s].at = "open" /\ streams[s].pieces < MaxPieces
  /\ streams' = [streams EXCEPT ![s].pieces = @ + 1]
  /\ IF currentChat.known
     THEN Show({IF m.live THEN [m EXCEPT !.pieces = Append(@, s)] ELSE m :
                  m \in currentChat.messages})
     ELSE UNCHANGED <<chats, currentChat>>
  /\ UNCHANGED isStreaming
  /\ Crosses(s)
  /\ UNCHANGED <<replies, conversations, moves>>

(* Mutant: the answer keeps its temporary id. *)
FinalKept(m) == m
Final(m) == [m EXCEPT !.live = FALSE]

(* Live answers get a final id, and the conversation is loaded again. *)
OnFinish(s) ==
  /\ streams[s].at = "open"
  /\ streams' = [streams EXCEPT ![s].at = "over", ![s].finished = TRUE]
  /\ IF currentChat.known
     THEN /\ Show({Final(m) : m \in currentChat.messages})
          /\ isStreaming' = FALSE
     ELSE Stays
  /\ replies' = IF currentChat # NoChat /\ ~ currentChat.known THEN replies
                ELSE replies \union
                       {[for |-> "hydrate", id |-> streams[s].chat]}
  /\ Crosses(s)
  /\ UNCHANGED <<conversations, moves>>

(* Live answers are replaced by what went wrong. *)
OnError(s) ==
  /\ streams[s].at = "open"
  /\ streams' = [streams EXCEPT ![s].at = "over"]
  /\ CASE currentChat = NoChat ->
            isStreaming' = FALSE /\ UNCHANGED <<chats, currentChat>>
       [] currentChat.known ->
            /\ Show(currentChat.messages \ Live(currentChat))
            /\ isStreaming' = FALSE
       [] OTHER -> Stays
  /\ Crosses(s)
  /\ UNCHANGED <<replies, conversations, moves>>

(* The request is refused or the connection lost: the stream's own answer is
   replaced.  The updater that throws is caught outside. *)
StreamFails(s) ==
  /\ Open(s)
  /\ streams' = [streams EXCEPT ![s].at = "over"]
  /\ IF currentChat = NoChat THEN Stays
     ELSE /\ isStreaming' = FALSE
          /\ IF currentChat.known
             THEN Show({m \in currentChat.messages : ~ (m.of = s /\ m.live)})
             ELSE UNCHANGED <<chats, currentChat>>
  /\ Crosses(s)
  /\ UNCHANGED <<replies, conversations, moves>>

-----------------------------------------------------------------------------
(* The service's answers *)

(* handleGetChatWithMessages *)
FromService(c) ==
  LET of == {s \in DOMAIN streams :
               streams[s].chat = c /\ streams[s].at # "asked"}
  IN  [id |-> c, known |-> of # {},
       messages |-> {[of |-> s, live |-> FALSE,
                      pieces |-> [i \in 1..streams[s].pieces |-> s]] :
                        s \in {t \in of : streams[t].finished}}]

Move(reply) ==
  /\ moves < MaxMoves /\ moves' = moves + 1
  /\ replies' = replies \union reply
  /\ UNCHANGED <<streams, conversations>>

(* The chat is shown at once as it is in the list, and loaded. *)
SelectChat(chat) ==
  /\ Move(IF isPendingChatId(chat.id) THEN {}
          ELSE {[for |-> "select", id |-> chat.id, chat |-> chat]})
  /\ currentChat' = chat
  /\ UNCHANGED <<chats, isStreaming>>
  /\ crossed' = crossed \union {s \in DOMAIN streams : Open(s)}

CreateChat ==
  /\ Move({[for |-> "create", id |-> 0]})
  /\ Stays /\ UNCHANGED crossed

DeleteChat(chat) ==
  /\ Move({[for |-> "delete", id |-> chat.id,
             shown |-> chat.id = currentChat.id]})
  /\ Stays /\ UNCHANGED crossed

LoadChats ==
  /\ \A r \in replies : r.for # "list"
  /\ Move({[for |-> "list", id |-> 0]})
  /\ Stays /\ UNCHANGED crossed

(* A reply is applied whatever is shown by now.  It tells of the service as it
   is when the reply comes; the text it brings is the same whenever it was
   read.  A load that fails shows the
   chat as it was when it was selected. *)
Selected(r, ok) ==
  /\ r.for = "select"
  /\ currentChat' = IF ok THEN FromService(r.id) ELSE r.chat
  /\ chats' = IF ok THEN Replaced(chats, FromService(r.id)) ELSE chats
  /\ UNCHANGED conversations

Hydrated(r, ok) ==
  /\ r.for = "hydrate"
  /\ currentChat' = IF ok THEN FromService(r.id) ELSE currentChat
  /\ chats' = IF ok THEN Listed(chats, FromService(r.id)) ELSE chats
  /\ UNCHANGED conversations

Created(r, ok) ==
  LET chat == Unloaded(Len(conversations) + 1)
  IN  /\ r.for = "create"
      /\ conversations' = IF ok THEN Append(conversations, "active")
                                ELSE conversations
      /\ currentChat' = IF ok THEN chat ELSE currentChat
      /\ chats' = IF ok THEN chats \union {chat} ELSE chats

(* useChat closes a chat that was shown when its deletion was asked for, even
   if the service refused it. *)
Deleted(r, ok) ==
  /\ r.for = "delete"
  /\ ok => ~ isPendingChatId(r.id)
  /\ conversations' = IF ok THEN [conversations EXCEPT ![r.id] = "deleted"]
                            ELSE conversations
  /\ chats' = IF ok THEN {c \in chats : c.id # r.id} ELSE chats
  /\ currentChat' = IF r.shown \/ (ok /\ currentChat.id = r.id) THEN NoChat
                    ELSE currentChat

ChatsLoaded(r, ok) ==
  /\ r.for = "list"
  /\ chats' = IF ok THEN {Unloaded(c) : c \in
                            {d \in DOMAIN conversations :
                               conversations[d] = "active"}} ELSE chats
  /\ UNCHANGED <<currentChat, conversations>>

Reply(r) ==
  /\ \E ok \in BOOLEAN :
       \/ Selected(r, ok) \/ Hydrated(r, ok) \/ Created(r, ok)
       \/ Deleted(r, ok) \/ ChatsLoaded(r, ok)
  /\ replies' = replies \ {r}
  /\ UNCHANGED <<isStreaming, streams, moves>>
  /\ Crosses(0)

-----------------------------------------------------------------------------
ChatStoreInit ==
  /\ chats = {} /\ currentChat = NoChat /\ isStreaming = FALSE
  /\ streams = <<>> /\ replies = {} /\ conversations = <<>>
  /\ moves = 0 /\ crossed = {}

StreamStep ==
  \/ SendMessage
  \/ \E s \in DOMAIN streams :
       \/ Accept(s) \/ OnChunk(s) \/ OnFinish(s) \/ OnError(s)
       \/ StreamFails(s)

UserStep ==
  \/ \E chat \in chats : SelectChat(chat) \/ DeleteChat(chat)
  \/ CreateChat \/ LoadChats

ChatStoreNext ==
  StreamStep \/ UserStep \/ \E r \in replies : Reply(r)

ChatStoreSpec == ChatStoreInit /\ [][ChatStoreNext]_chatStoreVars

-----------------------------------------------------------------------------
(* What is shown under a question is its own answer, and all of it once the
   answer is over; another's text gets in, or text is missing, only if the chat
   shown was changed by something else while the answer was on its way
   (chatStore.ts:405-445, 453-462). *)
AnswersAreOwn ==
  \A chat \in chats \union {currentChat} : \A m \in chat.messages :
    m.of \in crossed \/
      /\ \A i \in DOMAIN m.pieces : m.pieces[i] = m.of
      /\ ~ m.live => Len(m.pieces) = streams[m.of].pieces

(* The input is off only while the last answer is on its way, unless such a
   change made the store miss its end (chatStore.ts:424-446, 534-577). *)
InputComesBack ==
  isStreaming => Open(Len(streams)) \/ Len(streams) \in crossed

ChatShowsAnswers == AnswersAreOwn /\ InputComesBack
=============================================================================
