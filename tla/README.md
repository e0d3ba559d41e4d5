# A verification of go-saas-api

TLA+ specifications of the parts of this repository where an order of events
nobody tested could break a promise, TLC configurations that check them on
small instances, and TLAPS proofs of what matters most for every instance.
Paths below are relative to the repository, as `src/`.

## 1. The system

Seven services behind an API gateway, a PostgreSQL database, Redis, NATS, and a
TypeScript frontend (`r3-chat`).  What each part keeps, and what is hard in it:

| Part | Code | State | Interacts with | What is hard | Modules |
|---|---|---|---|---|---|
| LLM router | `pkg/llm/multiclient.go`, `internal/provider/loader.go` | providers with flags and weights, owner of each model, failure counters, fallback order | every chat turn; the providers; a health checker | calls work through a snapshot without a lock while flags and counters move | `LlmMultiClient` |
| Model clients | `pkg/llm/{openai_compatible,kimi_anthropic,gemini,ollama}.go` | fragments of tool calls | providers, `agentLoop` | answers cut anywhere, connections lost | `ModelStream` |
| WebSocket manager | `internal/agent/websocket` | user -> connection, a bounded channel per connection, a cancel handle | three or more goroutines per connection, one manager | replacing a connection, closing channels, whose handle is it | `WsManager` |
| Chat turn | `internal/agent/runtime`, `internal/agent/handler` | local variables of a loop; rows of messages, artifacts, usage | handler, loop, provider stream, memory extraction, client | cancellation between any two statements; who tells the end | `TurnProtocol`, `ChatTurn`, `AgentLoop`, `WebsiteLoop`, `AgentTurn` |
| Conversations | `runtime/session.go`, `runtime/orchestrator.go`, `agent/store`, `handler/conversation.go` | a row with title, status, metadata; messages | title goroutine, metadata writes, PATCH, DELETE, other turns | full-row read-modify-write | `Conversations` |
| Flows | `internal/agent/flows` | the flow's state in the metadata | the model's text, the classifier | a state machine driven by text, on a copy | `Flows` |
| Sanitizer | `agent_loop.go:27-112` | a held-back tail | chunks | cuts in the middle of a marker, or of a character | `ModelStream` |
| Tools | `internal/agent/tools` | artifacts | a turn's context | where a tool learns whose turn it is | `Conversations` |
| Authentication, API keys | `internal/auth`, `internal/apikey` | refresh tokens, reset tokens and OAuth states in Redis; users, keys | gateway, OAuth providers | rotation and sign-up in several steps; rows written back whole | `Accounts` |
| Billing | `internal/billing` | subscriptions | Stripe, its webhooks, NATS, gateway | order and number of webhooks; a row nobody links | `Billing` |
| Gateway | `cmd/api-gateway`, `internal/platform` | tier cache, rate-limit windows | all services, Redis, NATS | invalidation against filling; pipelines that interleave | `Billing`, `RateLimiter` |
| Providers' administration, encryption | `internal/provider`, `internal/platform/crypto` | providers, models, encrypted keys | administrators, model sync, the service's start | read-modify-write, models that come back, keys encrypted again | `Providers` |
| Files | `internal/fileupload` | rows and files on disk | turns, downloads | two stores in two steps | `Uploads` |
| Frontend store | `r3-chat/src/stores/chatStore.ts`, `services/api.ts` | the chats, the chat shown | the event stream, REST | answers that arrive for a chat no longer shown | `ChatStore` |
| Memory | `internal/agent/memory` | facts about a user | the end of a turn | outlives its request | in `ChatTurn` |
| Usage, sandbox, documents | `cmd/usage-service`, `cmd/sandbox-service`, `cmd/document-service` | none of their own | | | none |

`PROJECT.json` lists every part with its status, and under `hazards` each place
where the code is hard to test, with the properties that watch it.

## 2. The modules

| Module | Models | EXTENDS / uses |
|---|---|---|
| `LlmMultiClient` | the router, the loader and the health checker | |
| `WsManager` | the WebSocket sessions | |
| `TurnProtocol` | abstract: what a client of a turn is promised | |
| `ChatTurn` | what the goroutines of a turn share: context, channel, handler, provider, memory, usage | |
| `AgentLoop`, `WebsiteLoop` | the ReAct loop; the website generator | `ChatTurn` |
| `AgentTurn` | one turn: `Chat`, a loop, the handler; properties | both loops; implements `TurnProtocol` |
| `Flows` | which flow answers, and what it writes into the metadata: operators only | |
| `Conversations` | the turns, titles, edits and deletions of a user's conversations | `Flows` |
| `Billing` | checkouts, webhooks, cancellation, Stripe, and the gateway's tier cache | |
| `Accounts` | accounts, tokens, OAuth, roles, API keys | |
| `Providers` | the rows of providers and models, synchronisation, the service's start | |
| `Uploads` | rows and files | |
| `RateLimiter` | the sliding window in Redis | |
| `ModelStream` | the lines of an answer, the four clients, the sanitizer, the events | |
| `ChatStore` | the browser's chats while answers stream in | |
| `SiteFiles` | the files of a generated website: parsing, checks, repairs, storing | |
| `MC*` | instances for TLC; `MCServices` runs one of `Providers`, `Uploads`, `RateLimiter`, `ModelStream`, `ChatStore`, `SiteFiles` per behaviour | the module of that name |
| `LlmMultiClientProofs`, `WsManagerProofs`, `AgentTurnProofs`, `ConversationsProofs`, `BillingProofs`, `AccountsProofs` | inductive invariants and what follows from them | the module of that name, TLAPS |
| `ModelTextProofs` | the same for what is read of a model's answer | `ModelStream`, `SiteFiles`, TLAPS |
| `ServicesProofs` | the same for the smaller parts, one after the other | `RateLimiter`, `Providers`, `ChatStore`, `Uploads`, TLAPS |

### LlmMultiClient

`MultiClient` has one lock.  Every critical section is one action; between the
sections a call holds only its snapshot (`call[c].names`).  `Dispatch` is the
loop head of `Stream`/`Complete`: it drops names that are disabled *now*.
`CallFails` and `CallSucceeds` are the outcome of a client call and the
`recordFailure`/`resetFailures` that follows.  `Tick`, `SkipEnabled`,
`StartProbe`, `FinishProbe`, `EndScan` are `runHealthChecks`; `Toggle` is a
provider that goes down or comes back.  `LoadNext` is one round of `LoadAll`;
`Begin` waits for it to be over because `main` registers the routes after it.
`Ranked(S)` is the set of orders `rebuildDefaults` may produce: the map is
walked in any order and equal weights may come out either way.

### WsManager

`reader[c]`, `writing` and `gen[g]` are program counters; `manager` is what
`run` has received and not processed, because receiving (the rendezvous with
`HandleUpgrade` or with the deferred function of `readPump`) and processing are
two steps for everybody else.  A step that would panic sets `crash`, and
nothing happens after it.  Connections and generations are names used again
when nothing refers to them.

### AgentTurn

`at` is where `Chat`, and then the goroutine behind `outCh`, is; `handler` is
where the HTTP handler is.  `outCh` is unbuffered: a send, the receive, and the
event the handler writes are one step, `Deliver`.  `Offer` is the `select` of a
send against `ctx.Done()`: when the context is cancelled either may happen, so a
cancelled turn may lose any event.  `Execute` is a database statement under the
request's context: it succeeds, fails (`faulted`), or finds the context
cancelled.  `Cancelled` is the context: the client has left, the gateway's
timeout struck (both are `ClientLeaves`), or the handler returned.  `rows` is
what the turn has written, `wire` what the client was sent, `history` what the
loop believes it has saved.

Abstractions: text is silence or `"content"`; a tool is one step; the quality
gate, the continuation test, the parser and the validator are choices; a
statement is atomic, so "committed but reported as failed" is not modelled.

### Flows and Conversations

A flow's state is five keys of the metadata.  `Collected`, `Transition` and
`UpdateAPIIntegration` are `UpdateState` of the integration flow, over sets of
fields in place of their texts; `ActiveFlows` is the precedence of metadata,
classifier and keywords, and a set because the registry is a Go map.

A turn of `Conversations` takes its copy of the metadata in `Ask` and writes
what it made of it at its end.  Every write of a row is two steps, a `Writer`
that has read the row and `Write`, which puts every column back: titles,
metadata and PATCHes.  Deletion is one statement.  `lost` marks the columns
that a writer set back to an older value, `blurred` the turns that overlapped
another one.  `ConversationOf` is the file tools' lookup of the conversation,
under a key that is not the one `agentLoop` used.

Observed while reading, and in the model: a flow in the metadata is never
left; the history a turn is given already holds its question, so the branch of
`onboarding` for an empty history never fires; a deleted conversation is
answered like any other; the history is the *oldest* messages of the
conversation.

### Billing

Stripe keeps a session per checkout and tells of each change by events that
stay `pending` until a webhook answers 200; a webhook is a read
(`HandleWebhook`) and a write (`StoreWebhook`), and so is a cancellation.  The
gateway's `ResolveTier` queries and `CacheSet` stores.  No statement of the
repository writes `stripe_subscription_id`; `Link` is an operator who does, and
`OperatorLinks` says whether there is one.  The invalidation deletes a key
without the cache's prefix, so that only the lifetime of an entry ends it.

### Accounts

Access tokens carry the role they were made with (`access`), until they
expire.  `jobs` are the handlers between a read and a write: a refresh between
`Get` and `Delete`, a password or a profile about to be written back with the
whole row, an OAuth sign-in or sign-up.  `made` counts what is handed out.

Observed: refresh tokens survive a change of password; `GenericCallback`
without a hint spends the state on its attempt with Google; no constraint makes
`(oauth_provider, oauth_subject)` unique; migration 000 has no
`api_keys.expires_at`.

### Providers, Uploads, RateLimiter

What is stored of a key is the key and the master keys it was encrypted under,
so that `Decrypt` is the inverse only for the right one.  A synchronisation is
`SyncModels`, which reads and compares, and then one write at a time.
`MigrateKeys` and `LoadAll` are the start of the service.  Observed: providers
that are removed or switched off stay registered until a restart, since nothing
calls `StartBackgroundRefresh`; a model that a synchronisation switched off
is not switched on again when it comes back; a key under another master key is
taken for plain text and encrypted once more; keys of inactive providers are not
migrated.

`Uploads` writes the disk and the table in two steps each way; `Interrupt` is a
crash or a failed statement between the two.

`RateLimiter` is the pipeline command by command.  Refused requests are counted
like others, and without Redis all requests pass.

### ModelStream

Text is a sequence of bytes; `Lead` and `Cont` make one character of two.  The
provider sends lines (`OpenAILine`, ...), and each client makes chunks of
them: OpenAI's gathers fragments of tool calls and gives them away at the end,
Kimi's says Done even of a stream that was cut, Gemini's and Ollama's make one
chunk of a line.  `Process` and `Flush` are the sanitizer.  `writeSSEAgentLoop`
writes an event, and `received` is what a browser makes of the events: one that
is not JSON is skipped (`services/api.ts:409`).

Observed: a stream that is cut passes for a whole answer without its tool calls;
in a flow that no longer collects the sanitizer counts bytes, may pass on half a
character, and `%q` then writes an event that is not JSON, so that the browser
drops the text of that chunk and of the next until the conversation is loaded
again; in the same mode the sanitizer stops buffering after the marker's chunk,
and the flow is given a state block that may lack its end.

### ChatStore

`currentChat` is the chat shown and `chats` the list, whose copies may differ.
An answer is *live* while its message has a `stream-` id.  Events of a stream
act on the live answers of the chat shown at that moment; `replies` are
requests to the service whose answers replace chats when they arrive.
`crossed` holds the streams during which something other than their own events
changed the chat shown: `docs/qa-chat-ws-sse-checklist.md` promises "No
cross-chat chunk leakage" without that exception, and that an end or an error
"always clears streaming state", which `onFinish` (424-489) does not when no
chat is shown.

### SiteFiles

What `WebsiteLoop` chooses as "none", "invalid" or "valid" is computed here, with
texts as sequences of tokens: `parseMultiFile`, the checks of
`validateWebsiteProjectFiles`, `mergeArtifactFiles` and the rows that
`CreateMany` inserts under `UNIQUE(artifact_id, path)`.  `Scan` is one round of
`firstUnbalancedDelimiter`'s loop with its stack, in a string (`ScanString`) or
outside (`ScanCode`); the property compares it with a grammar (`WellFormed`),
TLC over every text of four tokens, the proof over every text.  The model's answers and
its repairs are arbitrary: a repair may name files nobody asked for, a path
written with `./` in front, or be cut off itself.

A file ends at the first `===` in it (`orchestrator.go:473`).  The comment above
that line means the mark at the end of an answer; JavaScript's operator is the
same three characters, and a file with `a === b` is stored up to there when what
is left happens to balance.  `StoredSiteIsWhole` states what the code does.  A
path that comes twice, also as `./src/a.tsx` and `src/a.tsx` after a repair,
fails the insert of all files.

## 3. The runs

| Run | Instance | Shows |
|---|---|---|
| `llm` | two providers that list one model, two calls, threshold 1 | fallback order, breaker, overshoot, ownership and completeness of the fallback, in every interleaving; a healthy provider comes back; calls end |
| `ws` | one user, two connections, one generation, channel of 1 | the map and the open channels agree; no double close; handles are live; pumps end, the map entry goes, cancelled generations return |
| `ws_close` | two generations | (violation) a send on a closed channel ends the process |
| `ws_stop` | two generations | (violation) a stop reaches nothing |
| `agent_turn` | 2 iterations, 2 tool calls, 2 attempts, 2 repairs | what is told, stored and counted agree; the protocol of a turn; a turn ends and leaves no goroutine |
| `agent_stored` | same | (violation) an answer that is told and lost |
| `billing` | two users, one of whom asks for a tier, two checkouts of 2 and 1 changes, one webhook at a time, rows linked by hand | rows follow Stripe; nobody is premium who never paid; what is paid is recorded; a stale tier leaves |
| `billing_checkout` | same, nobody links | (violation) a paid checkout stays incomplete |
| `accounts` | two users, two passwords, two OAuth subjects, 3 tokens or changes, 2 handlers between read and write | rows keep what was written last; tokens are spent; one account per subject; no role rises by itself |
| `conversation` | one conversation, 2 turns, 1 edit, 2 required fields, listings of 5 messages | rows, flow state and answers under overlapping turns, titles and edits |
| `conversation_files` | same | (violation) a file that `file_write` wrote is kept |
| `services` | one of six parts: 2 providers of which one syncs, 3 models, 3 requests, 2 starts; 3 files; 3 requests in 2 pipelines; texts of 4 bytes in lines of 2, marker of 3; 2 streams of 2 chunks and 2 moves; any page of 4 tokens, or of 2 with another file | keys, rows and synchronisation; files and rows; the limit; the text shown; the chats; the files of a website |

Why these bounds are enough.  The router: a late outcome needs a second call, a
fallback a second provider; higher thresholds are left to the proofs, which hold
for any.  The manager: a replacement needs a second
connection of one user, a full channel a capacity of 1.  The turn: 2 iterations
are one with tools and one after it, and exhausting them after tools; 2 tool
calls make a middle one; the second attempt is the continuation, and the second
repair the last.  Billing: the second checkout meets the empty Stripe id of the
first, two changes of one subscription can be told in the wrong order, and a
webhook that reads before a cancellation writes is already two handlers at one
row; two webhooks at a time add a second such pair and no new kind.  Accounts:
two handlers are what a race takes, three tokens a login, a refresh and its
successor.  Conversations: two turns overlap with each other and with a title,
an edit and a deletion; two fields of which one can be guessed make a partial
and a complete state; five messages are fewer than two turns with a tool store.
ModelStream: the marker "-f-" ends with the byte it begins with, like the real
one, so that a part of it may be the beginning of another; four bytes hold a
marker and a byte before or after it, or a character of two bytes that the tail
of two is cut through.  ChatStore: the second stream meets what the first left
behind, and two moves are a selection and its late reply with one more change
between.  SiteFiles: four tokens are a nested pair, a string with an escaped
quote or with a delimiter in it; a second file is what a path written twice, an
import and a repair of the wrong file take.

Symmetry is used where no liveness is checked: in `accounts` and `services`.
`CHECK_DEADLOCK FALSE` is set where behaviours really end: a crashed process, a
turn that is over, a bound that is used up.

### Fairness

* Router: the loader, the health checker and calls in progress go on; client
  calls return (HTTP timeouts).  Nothing is assumed of requests or of health.
* Manager: weak fairness of the goroutines; strong fairness of the two
  receives of `run`, since `select` chooses among ready cases and a blocked
  sender is served eventually.  Clients need not send or stay.
* Turn: weak fairness of the goroutines; database calls return; a provider's
  stream ends when its context is cancelled, not before; the gateway's 300 s
  timeout (`internal/platform/middleware/timeout.go`) is `ClientLeaves` under
  weak fairness, so a model that streams for ever is cut off.
* Billing: entries of the cache expire; a request that has queried goes on to
  store; handlers end; the operator gets to every row; and Stripe repeats an
  invoice until it is answered with 200, one of the deliveries finding the
  database up, which is strong fairness of that webhook's two steps.

### What the violations say

* `ws_close`: `manager.go:69,80` close a channel that `send` (299) writes to
  from other goroutines; `docs/ISSUES.md:471` asks for a graceful close.
* `ws_stop`: `clearCancel` (289) clears a handle without looking whose it is;
  `docs/ISSUES.md:484`.
* `agent_stored`: `agent_loop.go:415` tells the end before 440 stores the answer;
  `docs/swagger-testing-guide-es.md:42`.
* `billing_checkout`: `service.go:88` has the row wait for a webhook "incomplete
  until webhook confirms", and every webhook looks for a Stripe id that nothing
  ever put there.
* `conversation_files`: `agent_loop.go:328` puts the conversation's id under a
  key of type `contextKey`, and `tools/file.go:54` looks under a string.

## 4. The proofs

For every set of providers, calls, users, connections, generations,
conversations, files, accounts, plans, requests, chats and alphabets, every
threshold, capacity and bound that the named assumptions allow.  The assumptions
say what a constant is, never how large; five were found while proving: the
requests of `RateLimiter` are finitely many (a set is counted), no OAuth subject
is the value that stands for a local account, and neither the flow marker nor
the two letters that a question is cut at is a byte of a character of two, which
UTF-8 sees to; and what a model answers is a sequence of paths and texts.
Proving also showed three places where a definition of `SiteFiles` said less
than it meant: `Scan` was a CASE whose alternatives overlap, which TLC reads
from the top and the language does not; `Meant` left out a file under `./`,
which is a path like any other to `parseMultiFile`; and `WellFormed` was
RECURSIVE, where it is now the recursive function it always was.

* `LlmMultiClientProofs`: `SafetyInv` conjoins the type invariant, the safety
  properties, and what they need: a call's names that are left together with the
  providers it has failed cover the steady ones; failures outstanding are
  counted with failures recorded, and the sum grows only by a `Dispatch` to an
  enabled provider, whose count is below the threshold.  `DefaultsAreCurrent`,
  `BreakerIsSound`, `OvershootIsBounded`, `ExplicitModelIsRouted` and
  `FallbackIsComplete` follow from it.  `OnceInv` (the names of a snapshot are
  distinct and none has failed: a ranking is onto and as long as its set, so
  one-to-one) gives `NobodyIsAskedTwice`, and `RequestsRunDown` bounds the loop:
  two steps for each provider and one to give up.
* `WsManagerProofs`: `SafetyInv` adds that the reader of a connection, the
  manager's hand and the map agree on where the connection is in its life
  (`MapInv`); from it follow that the channels are open exactly for the
  connections in the map, and that none is closed twice.
* `AgentTurnProofs`: `TurnIsTyped` needs `CountInv` (an iteration has asked the
  model before the last one was used up, an attempt is made while one is left).
  `StoredInv` then says which rows come with each place while the context is
  live (`LiveInv`), where a turn can be when it has them (`PlaceInv`), and what
  is left of that once it is cancelled: `NoHoles` is not inductive without the
  first, because a statement that succeeds relies on the one before it, and
  `LiveInv` does not survive a cancellation without the second.  `EndInv`,
  `ToldInv`, `FinishInv` order the end of the stream against the writes;
  `EndComesLast` is the two of them together.
  `LastInv` ties the last event a listening client saw to the place of the
  loop; with it every step maps to a step of `TurnProtocol` or to a stutter
  (`TurnRefinesProtocol`).  `TurnIsUsedUp` is a variant: what is left of a turn
  are laps, the stage of the lap, calls of tools to make, and what goes on
  beside the loop; every step lowers them in lexical order, which is well
  founded, or reads a chunk and leaves them as they are.  It rests on
  `CountInv` (`saveTool` counts up to the calls and meets them) and
  `MemoryInv` (memories are extracted after the stream only).  What is assumed
  is `ConstantsAssumption` only.
* `ServicesProofs`, uploads: `UploadsInv` adds to `FilesMatchRows` what a request under
  way has written or removed: an upload has its file and no row, a deletion its
  row and no file.  Without that a step of either could not be shown to leave
  both or neither.
* `ConversationsProofs`: `SoundInv` says of every copy of the metadata (in a
  row, in a row that a writer holds, in what it will set, in a turn) that its
  missing fields are the required ones not collected and its status fits them;
  and of a writer of a turn that it sets no less than the turn began with.
  `FlowStateIsCoherent` alone is not inductive: a writer may write a copy it has
  held for long.  `FlowOutlivesTurns` follows because a writer that is up to
  date puts the metadata there is, or an extension of it, in the place of it.
  `LastInv` compares the columns with what was written to them last: it gives
  `RowKeepsLastWrite`.  `AnswersInv` says what a turn that overlapped no other
  may rely on: it is alone in its conversation and, once it has stored its
  answer, that is the last message there is; so the listing, if it is not cut,
  ends with it and `AnswerIsOwn` follows.  `TypesInv` bounds what the types
  leave open: a flow counts at most one step a turn, so that a turn's copy has
  fewer steps than the turn's number and a row no more than there are turns.
  `RowsAreSound` is the four together.
* `AccountsProofs`: the properties of `Accounts` count what happened
  (`uses`, `logins`, the accounts of a subject), so that `AccountsInv` says
  where the thing counted is: a state is in Redis, or with one handler, or
  spent (`LoginsOK`); a refresh token that no two handlers held is in Redis and
  unused, or with one handler, or used and gone (`UsesOK`); a subject without
  two first logins at once has an account, or a handler about to make it, or
  neither (`OwnersOK`).  Numbers are given out in order (`MadeOK`), so that a
  token not made yet has never been used; and a handler's reading has the
  subject its row still has, because no statement changes it (`JobsOK`).
  `RoleRisesByAdmin` is a property of steps, proved action by action.
* `BillingProofs`: a row may be older than Stripe for any time, so that
  `RowsAreSound` is not inductive.  `BillingInv` says that the newest change of
  a session is in its row or some event of it is still pending (`FollowInv`):
  an event goes only when a webhook has written the row it read, and a webhook
  that was overtaken marks the session.  The end of the period has a clause of
  its own because only "updated" events carry it.  `GetSubscriptionByUser`
  takes a user's newest row; that a finite set of rows has a newest one
  (`GreatestExists`) would be an induction, and is proved by a smallest
  counterexample instead, since inclusion of finite sets is well-founded.
* `ServicesProofs`, the rate limiter: `CountInv` speaks of every set of
  requests asked within a window of one another: one of them, the last that
  counted, has counted all others but those whose pipelines ran into its own.
  `AddedInv` is why: what was added less than a window ago is still in the
  sorted set, and the key's expiry is later than that.  `LimitHolds` applies
  `CountInv` to the requests let through.
* `ServicesProofs`, providers: `ProvidersInv` says that while the service has
  run under one master key only, a key is in plain text or encrypted once
  (`KeysInv`); that a request writes back what it read in the columns it does
  not set (`WritersInv`); and that a synchronisation nothing disturbed still
  has on its lists whatever the table lacks or has too much (`SyncsInv`), from
  which the table mirrors the provider when the lists are empty.
* `ServicesProofs`, the browser: `StoreInv` follows each message to the three
  places it may be in (the list, the chat shown, a reply on its way): unless its
  stream was crossed, its pieces are all of its stream and as many as were
  sent, and it is live while the stream is (`MessagesInv`); a stream that
  nothing crossed is the last one and answers in the chat shown (`StreamInv`).
* `ModelTextProofs`, the stream: `StreamInv` says that the buffer and what the queue has
  of the line being worked on are the text sent (`TextInv`), that the part of
  the buffer which was shown is the text before the first marker, or all but
  the tail a marker could begin in (`ShownInv`), and that the calls in the queue
  and those read are together the fragments sent, all of them (`CallsInv`).
  `SafeStays` is what makes the sanitizer right: a marker that ends in text
  still to come begins after the letters that were passed on, so what is shown
  never has to be taken back; and `BeforeStays`: once there is a marker, no
  later text moves the first one.  `QuestionIsWhole` and `BeforeIsWhole` say
  that the other cuts fall between two characters, so that only the sanitizer's
  own may lose an event.
* `ModelTextProofs`, the website: `SiteInv` says that the files stand in the
  order of the answer (`Ordered`), that none is empty (`Filled`), that the last
  file of a path has the text written last under it up to its first mark
  (`LastAsMeant`), and that what is stored is what was checked
  (`SavedIsChecked`, `StoredIsProject`). `LastAsMeant` speaks of the last file
  of a path only, because a repair replaces that one and leaves an older one of
  the same path as it was; it is what `MergedAsMeant` shows a repair to keep.
  That a stored text is well formed needs no invariant but a theorem about
  every text, `BalancedIffWellFormed`: the scan accepts it exactly if it is
  well formed, so that a repair is asked for delimiters only where there is one
  to mend. The scanner has a stack and the grammar has intervals, and `Level`
  ties them: from i to j the scan comes back to the stack it had and never goes
  below it. A level that begins with a quote goes on to the first quote that is
  not escaped (`StringIsQuoted`: a scan is in an escape after an odd run of
  backslashes), one that begins with a bracket to the first place where the
  stack is as short again (`BracketCloses`: until then what lies under the
  bracket's place does not change, so that it is its own kind that closes it),
  and what is left is a shorter level. Conversely a well-formed interval leaves
  the scan in the state it was in (`WholeIsScanned`).
* Induction over data is done by a least counterexample.  A finite set's subsets
  are well founded under inclusion (`FS_StrictSubsetOrderingWellFounded` and
  `WFMin` are facts about sets, without an operator as a parameter), so a set of
  numbers has a smallest one (`SmallestExists`), a set closed under the
  successor is everything (`Counting`, `StrongCounting`), and a function that is
  defined step by step exists (`StepsExist`, by which `Balanced` and
  `parseMultiFile` are what their equations say).  `WellFormed` recurs over
  intervals, and its function is a fixed point that exists because what it asks
  is monotone in the intervals that have it (`WholeSetExists`).
Each invariant was checked by TLC as an invariant before it was proved.

Only model-checked: liveness (`HealthyProviderReturns`, `CallsEnd`,
`ConnectionsEnd`, `CancelledGenerationEnds`, `TurnEnds`, `PaidIsRecorded`,
`StaleTierLeaves`: fairness and ENABLED are out of the prover's reach), and the
violations.  Of `CallsEnd` and `TurnEnds` the half that needs no fairness is
proved (`RequestsRunDown`, `TurnIsUsedUp`): no loop can go round for ever, but
the one that reads a stream that does.  Every safety invariant and every action property that a run checks
is also proved.

## 5. Not modelled, and the plan

Left to do, in order of importance:

1. The WebSocket transport of the frontend (`socketService.ts`), which is off
   unless `VITE_ENABLE_WS` is set.
2. API keys' expiry and `last_used_at`, once the schema has the column.

Left out for good: what the usage service answers, which are queries over rows
that `ChatTurn` records; rendering; string processing (HTML extraction, the
wording of prompts, the classifier's words); the sandbox and the
document service, which run one process per request and keep no state; the
gateway's reverse proxies; the health endpoints, logging and configuration; the
generated API documentation.  Memory extraction is modelled as far as the turn
it belongs to; what it extracts is the model's text.
