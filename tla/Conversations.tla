--------------------------- MODULE Conversations ---------------------------
(***************************************************************************)
(* The conversations of one user: internal/agent/runtime's session and     *)
(* orchestrator, internal/agent/store and the handlers over them.          *)
(*                                                                         *)
(* A row of conversations holds a title, a status and the metadata that    *)
(* the flows keep their state in.  Titles, metadata and edits are written  *)
(* by reading the row, changing a field and writing every column back; a   *)
(* deletion is one UPDATE of the status.  A turn takes the metadata it     *)
(* works on when it begins and writes it when it ends.  Turns of the same  *)
(* conversation are not serialised.                                        *)
(***************************************************************************)
EXTENDS Flows, Sequences

CONSTANTS
  Chats,         \* conversations
  Titles,        \* what a user calls one
  Questions,     \* what is asked: the sets of keywords in it
  Answers,       \* what a model says
  Names,         \* of artifacts
  MessageLimit,  \* 100 in the code
  MaxTurns,      \* bound: turns
  MaxEdits,      \* bound: edits, deletions and artifacts made by hand
  Named,         \* flows the classifier names
  Patches        \* what a PATCH sets: a title, a status or both

Statuses == {"active", "archived", "deleted"}           \* the CHECK

ASSUME ConversationsAssumption ==
  /\ Questions \subseteq SUBSET Keywords /\ Answers \subseteq Answer
  /\ NoFlow \in Named
  /\ Patches \subseteq [{"title"} -> Titles] \union [{"status"} -> Statuses]
                      \union [title : Titles, status : Statuses]
  /\ MessageLimit \in Nat /\ MaxTurns \in Nat /\ MaxEdits \in Nat

VARIABLES
  convs,      \* the rows: a function on the conversations there are
  messages,   \* rows of messages by created_at
  artifacts,  \* rows of artifacts: conversation and name
  turns,      \* the turns so far
  writers,    \* read the row of a conversation and not yet wrote it
  edits,      \* number of edits
  last,       \* history: each column as it was written last on purpose
  lost,       \* history: columns that a writer put back to an older value
  answers,    \* history: what handleChatMessage returned for a turn
  calls       \* history: the file tools' results

store == <<convs, messages, artifacts>>
history == <<last, lost>>
vars == <<convs, messages, artifacts, turns, writers, edits, last, lost,
          answers, calls>>

Excerpt == "the question's first 50 bytes"
Generated == "a generated title"
AllTitles == Titles \union {Excerpt, Generated}
Columns == {"title", "status", "meta"}
Turns == 1..MaxTurns
Nil == "uuid.Nil"

Metadata == [flow : Registered \union {NoFlow}, step : 0..MaxTurns,
             status : Status, fields : SUBSET Required,
             missing : SUBSET Required, deliverables : SUBSET Names]
Row == [title : AllTitles, status : Statuses, meta : Metadata]
(* "call" is an assistant's message that calls tools. *)
Message == [role : {"user", "assistant", "call", "tool"}, turn : Turns]
Turn == [at : {"loop", "reply", "late", "stored", "end"}, chat : Chats,
         flow : Registered \union {NoFlow}, meta : Metadata,
         titling : BOOLEAN, written : SUBSET Names, blurred : BOOLEAN]
Kinds == {"title", "metadata", "edit"}

(* A turn that has moved on, and one that is marked when doubt is so. *)
Moved(turn, at) == [turn EXCEPT !.at = at]
Marked(turn, doubt) == [turn EXCEPT !.blurred = @ \/ doubt]
Wrote(turn, name) == [turn EXCEPT !.written = @ \union {name}]
Titled(turn) == [turn EXCEPT !.titling = FALSE]

With(f, x, y) == [z \in DOMAIN f \union {x} |-> IF z = x THEN y ELSE f[z]]
Edited == edits < MaxEdits /\ edits' = edits + 1

-----------------------------------------------------------------------------
(* ConversationStore *)

GetByID(c) == c \in DOMAIN convs

NewConversation(title) ==
  [title |-> title, status |-> "active", meta |-> NoMetadata]

Create(c, row) ==
  /\ ~ GetByID(c)
  /\ convs' = With(convs, c, row)
  /\ last' = With(last, c, row)
  /\ lost' = With(lost, c, {})

(* Every column of the row that was read, but for those that are set. *)
Update(c, read, sets) ==
  LET written == [k \in Columns |-> IF k \in DOMAIN sets THEN sets[k]
                                                         ELSE read[k]]
      old == {k \in Columns \ DOMAIN sets : convs[c][k] # read[k]}
  IN  /\ convs' = [convs EXCEPT ![c] = written]
      /\ lost' = [lost EXCEPT ![c] = (@ \ DOMAIN sets) \union old]
      /\ last' = [last EXCEPT ![c] =
                    [k \in Columns |->
                       IF k \in DOMAIN sets THEN sets[k]
                       ELSE IF k \in lost'[c] THEN written[k] ELSE @[k]]]

Delete(c) ==
  /\ convs' = [convs EXCEPT ![c].status = "deleted"]
  /\ last' = [last EXCEPT ![c].status = "deleted"]
  /\ lost' = [lost EXCEPT ![c] = @ \ {"status"}]

ListByUser == {c \in DOMAIN convs : convs[c].status # "deleted"}

-----------------------------------------------------------------------------
(* MessageStore and ArtifactStore *)

AddMessage(c, role, t) ==
  messages' = [messages EXCEPT ![c] = Append(@, [role |-> role, turn |-> t])]

(* Mutant: one message too few. *)
ListByConversationShort(c, limit) ==
  SubSeq(messages[c], 1, IF Len(messages[c]) < limit THEN Len(messages[c]) - 1
                                                     ELSE limit - 1)

(* The oldest ones: ORDER BY created_at ASC LIMIT. *)
ListByConversation(c, limit) ==
  SubSeq(messages[c], 1, IF Len(messages[c]) < limit THEN Len(messages[c])
                                                     ELSE limit)

CreateArtifact(chat, name) ==
  artifacts' = artifacts \union {[chat |-> chat, name |-> name]}

GetByName(chat, name) == [chat |-> chat, name |-> name] \in artifacts

(* handleCreateArtifact, handleCreateWebsiteArtifact *)
HandleCreateArtifact(c, name) ==
  /\ Edited
  /\ GetByID(c)                               \* the foreign key
  /\ CreateArtifact(c, name)
  /\ UNCHANGED <<convs, messages, turns, writers, history, answers, calls>>

-----------------------------------------------------------------------------
(* Orchestrator.Chat *)

Active(t) == turns[t].at # "end"
Busy(c) == \E t \in DOMAIN turns : turns[t].chat = c /\ Active(t)

(* The turns of a conversation that overlap are marked. *)
StartTurn(c, turn) ==
  LET t == Len(turns) + 1
      marked == [u \in DOMAIN turns |->
                   Marked(turns[u], turns[u].chat = c /\ Active(u))]
  IN  /\ Len(turns) < MaxTurns
      /\ turns' = Append(marked, turn)

NewTurn(c, at, flow, meta, titling) ==
  [at |-> at, chat |-> c, flow |-> flow, meta |-> meta,
   titling |-> titling, written |-> {}, blurred |-> Busy(c)]

DetectTemporalQuery(words) == "time" \in words

(* respondTemporal: the answer is stored, or its error logged; no flow. *)
RespondTemporal(c, t, asked, stored) ==
  messages' = With(messages, c,
    IF stored THEN Append(asked, [role |-> "assistant", turn |-> t]) ELSE asked)

(* The question is stored and the flow chosen from the metadata as it is now.
   The history already holds the question. *)
Ask(c, asked, meta, words, new) ==
  \/ /\ DetectTemporalQuery(words)
     /\ \E stored \in BOOLEAN :
          /\ RespondTemporal(c, Len(turns) + 1, asked, stored)
          /\ StartTurn(c, Marked(NewTurn(c, "reply", NoFlow, meta, new),
                                 ~ stored))
  \/ /\ ~ DetectTemporalQuery(words)
     /\ messages' = With(messages, c, asked)
     /\ \E named \in Named :
          \E flow \in ActiveFlows(meta, named, words, Len(asked)) :
            StartTurn(c, NewTurn(c, "loop", flow, meta, new))

Question == [role |-> "user", turn |-> Len(turns) + 1]

ChatInNew(c, words) ==
  /\ Create(c, NewConversation(Excerpt))
  /\ Ask(c, <<Question>>, NoMetadata, words, TRUE)
  /\ UNCHANGED <<artifacts, writers, edits, answers, calls>>

(* A deleted conversation is answered like any other. *)
ChatInOld(c, words) ==
  /\ GetByID(c)
  /\ Ask(c, Append(messages[c], Question), convs[c].meta, words, FALSE)
  /\ UNCHANGED <<convs, artifacts, writers, edits, history, answers, calls>>

-----------------------------------------------------------------------------
(* The file tools *)

(* agentLoop puts the ids under keys of the type contextKey; the tools look
   them up under plain strings, which are other keys. *)
contextKeyConversationID == [type |-> "contextKey", key |-> "conversation_id"]
toolCtx(c) == [k \in {contextKeyConversationID} |-> c]
Value(ctx, key) == IF key \in DOMAIN ctx THEN ctx[key] ELSE Nil
ConversationOf(ctx) ==
  Value(ctx, [type |-> "string", key |-> "conversation_id"])

Result(t, tool, ok) ==
  calls' = calls \union {[turn |-> t, tool |-> tool, ok |-> ok]}

(* The foreign key refuses an artifact of no conversation. *)
FileWrite(t, name) ==
  LET chat == ConversationOf(toolCtx(turns[t].chat))
      ok == chat \in DOMAIN convs
  IN  /\ Result(t, "file_write", ok)
      /\ IF ok THEN CreateArtifact(chat, name) ELSE UNCHANGED artifacts

(* The conversation that the model names, else the context's, which is none. *)
ReadFile(t, named, name) ==
  /\ Result(t, "read_file",
            \/ named # Nil /\ GetByName(named, name)
            \/ LET chat == ConversationOf(toolCtx(turns[t].chat))
               IN  chat # Nil /\ GetByName(chat, name))
  /\ UNCHANGED artifacts

(* A round of the loop that calls a tool: the call and its result are stored,
   and a file that was written is a deliverable. *)
CallTool(t) ==
  /\ turns[t].at = "loop"
  /\ calls = {} /\ t = 1             \* bound: one call, of the first turn
  /\ \/ \E name \in Names :
          /\ FileWrite(t, name)
          /\ turns' =
               IF [turn |-> t, tool |-> "file_write", ok |-> TRUE] \in calls'
               THEN [turns EXCEPT ![t] = Wrote(@, name)] ELSE turns
     \/ /\ \E name \in Names, named \in {turns[t].chat, Nil} :
             ReadFile(t, named, name)
        /\ UNCHANGED turns
  /\ messages' = [messages EXCEPT ![turns[t].chat] =
       @ \o <<[role |-> "call", turn |-> t], [role |-> "tool", turn |-> t]>>]
  /\ UNCHANGED <<convs, writers, edits, history, answers>>

-----------------------------------------------------------------------------
(* The end of a turn *)

(* The metadata a turn leaves, of the copy it began with. *)
NextMetadata(t, answer) ==
  LET turn == turns[t]
      meta == UpdateState(turn.flow, turn.meta, answer)
  IN  IF turn.flow = APIIntegration /\ turn.written # {}
      THEN AddRealDeliverables(meta, turn.written) ELSE meta

(* A writer has read the row it will write back. *)
Writer(kind, t, c, sets) ==
  [kind |-> kind, turn |-> t, chat |-> c, sets |-> sets, read |-> convs[c]]

(* UpdateConversationMetadata: the read.  One that fails is a write that does. *)
ReadForMetadata(t, answer) ==
  IF turns[t].flow = NoFlow THEN UNCHANGED writers
  ELSE writers' = writers \union
         {Writer("metadata", t, turns[t].chat, [meta |-> NextMetadata(t, answer)])}

(* The answer is stored, or its error dropped. *)
Finish(t, answer) ==
  /\ turns[t].at = "loop"
  /\ \E stored \in BOOLEAN :
       /\ IF stored THEN AddMessage(turns[t].chat, "assistant", t)
                    ELSE UNCHANGED messages
       /\ turns' = [turns EXCEPT ![t] = Moved(Marked(@, ~ stored), "reply")]
  /\ ReadForMetadata(t, answer)
  /\ UNCHANGED <<convs, artifacts, edits, history, answers, calls>>

(* The iterations are used up: the end is told before the answer is stored. *)
Exhaust(t) ==
  /\ turns[t].at = "loop"
  /\ [role |-> "tool", turn |-> t] \in
       {messages[turns[t].chat][i] : i \in DOMAIN messages[turns[t].chat]}
  /\ turns' = [turns EXCEPT ![t] = Moved(Marked(@, TRUE), "late")]
  /\ UNCHANGED <<store, writers, edits, history, answers, calls>>

(* The flow gets the text as it was shown, without its state block. *)
FinishLate(t, answer) ==
  /\ turns[t].at = "late"
  /\ AddMessage(turns[t].chat, "assistant", t)
  /\ turns' = [turns EXCEPT ![t] = Moved(@, "stored")]
  /\ ReadForMetadata(t, [answer EXCEPT !.block = "none"])
  /\ UNCHANGED <<convs, artifacts, edits, history, answers, calls>>

(* generateAndSaveTitle, with a context of its own: UpdateConversationTitle
   reads the row.  A model that gives no title is a write that fails. *)
ReadForTitle(t) ==
  LET c == turns[t].chat
  IN  /\ turns[t].titling
      /\ writers' = writers \union {Writer("title", t, c, [title |-> Generated])}
      /\ turns' = [turns EXCEPT ![t] = Titled(@)]
      /\ UNCHANGED <<store, edits, history, answers, calls>>

(* Mutant: a row made anew with nothing but the title in it. *)
UpdateConversationTitleAnew(w) ==
  /\ convs' = [convs EXCEPT ![w.chat] =
                 [w.read EXCEPT !.title = w.sets.title, !.meta = NoMetadata]]
  /\ UNCHANGED history

UpdateConversationTitle(w) == Update(w.chat, w.read, w.sets)
UpdateConversationMetadata(w) == Update(w.chat, w.read, w.sets)
UpdateConversation(w) == Update(w.chat, w.read, w.sets)

(* The metadata of a turn is written before its channel closes. *)
Write(w) ==
  /\ \/ w.kind = "title" /\ UpdateConversationTitle(w)
     \/ w.kind = "metadata" /\ UpdateConversationMetadata(w)
     \/ w.kind = "edit" /\ UpdateConversation(w)
  /\ writers' = writers \ {w}
  /\ UNCHANGED <<messages, artifacts, turns, edits, answers, calls>>

(* The context was cancelled or the UPDATE failed. *)
WriteFails(w) ==
  /\ writers' = writers \ {w}
  /\ UNCHANGED <<store, turns, edits, history, answers, calls>>

Written(t) == ~ \E w \in writers : w.kind = "metadata" /\ w.turn = t

(* Nothing of a turn is read once it has ended, but that it may have overlapped
   another, and that its title may be on its way. *)
Ended(turn) ==
  [at |-> "end", chat |-> turn.chat, flow |-> NoFlow, meta |-> NoMetadata,
   titling |-> turn.titling, written |-> {}, blurred |-> turn.blurred]

(* handleChatMessage returns the last assistant message of the listing: the
   answer of a turn, or 0 if it is not an answer. *)
LastAssistant(list) ==
  LET of == {i \in DOMAIN list : list[i].role \in {"assistant", "call"}}
      at == CHOOSE i \in of : \A j \in of : j <= i
  IN  IF of = {} \/ list[at].role = "call" THEN 0 ELSE list[at].turn

(* The request ends, and its context with it. *)
Respond(t) ==
  LET c == turns[t].chat
  IN  /\ \/ turns[t].at = "reply" /\ Written(t)
         \/ turns[t].at \in {"late", "stored"}
      /\ answers' = answers \union
           {[turn |-> t, of |-> LastAssistant(ListByConversation(c, MessageLimit)),
             all |-> Len(messages[c]) <= MessageLimit]}
      /\ turns' = [turns EXCEPT ![t] = Ended(@)]
      /\ writers' = {w \in writers : w.kind # "metadata" \/ w.turn # t}
      /\ UNCHANGED <<store, edits, history, calls>>

(* The client is gone: the turn's context is cancelled, and what the turn has
   not written it will not write.  Streams end without a listing. *)
Leave(t) ==
  /\ Active(t)
  /\ turns' = [turns EXCEPT ![t] = Ended(@)]
  /\ writers' = {w \in writers : w.kind # "metadata" \/ w.turn # t}
  /\ UNCHANGED <<store, edits, history, answers, calls>>

-----------------------------------------------------------------------------
(* The handlers over conversations *)

HandleCreateChat(c, title) ==
  /\ Edited
  /\ Create(c, NewConversation(title))
  /\ messages' = With(messages, c, <<>>)
  /\ UNCHANGED <<artifacts, turns, writers, answers, calls>>

(* PATCH: the row is read; the CHECK refuses other statuses. *)
HandleUpdateConversation(c, sets) ==
  /\ Edited
  /\ GetByID(c)
  /\ writers' = writers \union {Writer("edit", edits + 1, c, sets)}
  /\ UNCHANGED <<store, turns, history, answers, calls>>

HandleDeleteConversation(c) ==
  /\ Edited
  /\ GetByID(c)
  /\ Delete(c)
  /\ UNCHANGED <<messages, artifacts, turns, writers, answers, calls>>

-----------------------------------------------------------------------------
Init ==
  /\ convs = <<>> /\ messages = <<>> /\ artifacts = {}
  /\ turns = <<>> /\ writers = {} /\ edits = 0
  /\ last = <<>> /\ lost = <<>> /\ answers = {} /\ calls = {}

ChatStep ==
  \E c \in Chats :
    \E words \in Questions : ChatInNew(c, words) \/ ChatInOld(c, words)

TurnStep ==
  \E t \in DOMAIN turns :
    \/ CallTool(t) \/ Exhaust(t) \/ ReadForTitle(t) \/ Respond(t) \/ Leave(t)
    \/ \E answer \in Answers : Finish(t, answer) \/ FinishLate(t, answer)

WriteStep == \E w \in writers : Write(w) \/ WriteFails(w)

EditStep ==
  \E c \in Chats :
    \/ \E title \in Titles : HandleCreateChat(c, title)
    \/ \E sets \in Patches : HandleUpdateConversation(c, sets)
    \/ HandleDeleteConversation(c)
    \/ \E name \in Names : HandleCreateArtifact(c, name)

Next == ChatStep \/ TurnStep \/ WriteStep \/ EditStep

Spec == Init /\ [][Next]_vars

-----------------------------------------------------------------------------
(* Properties *)

TypeOK ==
  /\ DOMAIN convs \subseteq Chats
  /\ DOMAIN messages = DOMAIN convs /\ DOMAIN last = DOMAIN convs
  /\ DOMAIN lost = DOMAIN convs
  /\ \A c \in DOMAIN convs : convs[c] \in Row /\ lost[c] \subseteq Columns
  /\ \A c \in DOMAIN convs : messages[c] \in Seq(Message)
  /\ artifacts \subseteq [chat : Chats, name : Names]
  /\ \A t \in DOMAIN turns : turns[t] \in Turn
  /\ \A w \in writers : w.kind \in Kinds /\ w.chat \in DOMAIN convs
  /\ edits \in 0..MaxEdits

(* A title, a status and a flow's state stay as they were last written, and a
   conversation that was deleted stays off the list: only a writer that read
   the row before another wrote it puts an older value back.  It is why
   UpdateConversationTitle and UpdateConversationMetadata read the row again
   right before they write it (session.go:47-80). *)
RowKeepsLastWrite ==
  \A c \in DOMAIN convs :
    /\ \A k \in Columns \ lost[c] : convs[c][k] = last[c][k]
    /\ "status" \notin lost[c] =>
         (last[c].status = "deleted" <=> c \notin ListByUser)

(* The rows are of their types and hold what was written last. *)
RowsAreSound == TypeOK /\ RowKeepsLastWrite

(* What is stored of an integration is of one piece: the fields that are
   missing are the required ones not collected, and it is ready exactly when
   none is.  So no turn is told to ask for what the user has said
   (api_integration.go:183-263). *)
FlowStateIsCoherent ==
  \A meta \in {convs[c].meta : c \in DOMAIN convs}
                \union {turns[t].meta : t \in DOMAIN turns} :
    /\ BuildMessages(meta) = Required \ meta.fields
    /\ meta.status = "collecting" => meta.missing # {}
    /\ meta.status = "ready_to_generate" => meta.missing = {}

(* handleChatMessage answers with the turn's own answer: another turn's, or
   none, only if turns overlapped, storing the answer failed, the turn ran out
   of iterations, or there are more messages than it lists (chat.go:454-467). *)
AnswerIsOwn ==
  \A a \in answers :
    a.of = a.turn \/ turns[a.turn].blurred \/ ~ a.all

(* A flow is not left and a collected field not forgotten from turn to turn:
   only a writer whose row, or whose turn's copy of the metadata, was out of
   date when it wrote undoes them (orchestrator.go:106-190). *)
Outdated(w) ==
  \/ w.read.meta # convs[w.chat].meta
  \/ w.kind = "metadata" /\ turns[w.turn].meta # convs[w.chat].meta

FlowOutlivesTurns ==
  [][\A c \in DOMAIN convs :
       LET old == convs[c].meta  new == convs'[c].meta
       IN  \/ /\ old.flow # NoFlow => new.flow = old.flow
              /\ old.fields \subseteq new.fields
           \/ \E w \in writers \ writers' : w.chat = c /\ Outdated(w)]_convs

(* file_write "persists generated files as artifacts", of the conversation
   "injected by runtime" (tools/file.go:12, 54).  No call of it does. *)
WrittenFilesAreKept ==
  \A call \in calls : call.tool = "file_write" => call.ok
=============================================================================
