------------------------- MODULE ConversationsProofs -------------------------
(***************************************************************************)
(* What is stored of a guided conversation, for any number of them, of     *)
(* turns and of writers.  A copy of the metadata is in five places: the    *)
(* row, the row a writer has read, what it sets, a turn and what the turn  *)
(* leaves.  SoundInv says that each copy is of one piece and that a        *)
(* writer of a turn sets no less than the turn began with; LastInv, that a *)
(* column holds its last write unless it is lost; AnswersInv, that a turn  *)
(* that overlapped none has its answer at the end of its conversation;     *)
(* TypesInv, that rows and writers are of their types and no flow counts   *)
(* more steps than there were turns.                                       *)
(***************************************************************************)
EXTENDS Conversations, SequenceTheorems, TLAPS

FlowNames == Registered \union {NoFlow}

(* Metadata of any length of history *)
Copies == [flow : FlowNames, step : Nat, status : Status,
           fields : SUBSET Required, missing : SUBSET Required,
           deliverables : SUBSET Names]

Coherent(meta) ==
  /\ meta.status = "" => meta.fields = {}
  /\ meta.status # "" => meta.missing = Required \ meta.fields
  /\ meta.status = "collecting" => meta.missing # {}
  /\ meta.status = "ready_to_generate" => meta.missing = {}

CoherentCopies == {meta \in Copies : Coherent(meta)}

(* What FlowOutlivesTurns asks of a step from old to new *)
Extends(old, new) ==
  /\ old.flow # NoFlow => new.flow = old.flow
  /\ old.fields \subseteq new.fields

-----------------------------------------------------------------------------
(* The flows on one copy *)

(* A conversation begins with metadata of one piece. *)
LEMMA NoMetadataIsCoherent == NoMetadata \in CoherentCopies
BY FlowsAssumption DEF NoMetadata, CoherentCopies, Copies, Coherent, FlowNames,
                       NoFlow, Status

(* The fields of a coherent copy, for the leaves that need their types. *)
LEMMA CopyFields ==
  ASSUME NEW meta \in CoherentCopies
  PROVE  /\ meta \in Copies /\ Coherent(meta)
         /\ meta.flow \in FlowNames /\ meta.step \in Nat
         /\ meta.status \in Status /\ meta.fields \subseteq Required
         /\ meta.missing \subseteq Required /\ meta.deliverables \subseteq Names
BY DEF CoherentCopies, Copies

(* Naming the flow touches nothing else of a copy. *)
LEMMA FlowIsNamed ==
  ASSUME NEW meta \in CoherentCopies, NEW f \in Registered
  PROVE  /\ [meta EXCEPT !.flow = f] \in CoherentCopies
         /\ [meta EXCEPT !.flow = f].flow = f
         /\ [meta EXCEPT !.flow = f].fields = meta.fields
BY DEF CoherentCopies, Copies, Coherent, FlowNames

(* Counting a step touches nothing that coherence is about. *)
LEMMA StepIsCounted ==
  ASSUME NEW meta \in CoherentCopies
  PROVE  /\ [meta EXCEPT !.step = @ + 1] \in CoherentCopies
         /\ [meta EXCEPT !.step = @ + 1].flow = meta.flow
         /\ [meta EXCEPT !.step = @ + 1].fields = meta.fields
<1>1. meta.step + 1 \in Nat
  BY CopyFields
<1> DEFINE n == meta.step + 1
<1> HIDE DEF n
<1>2. n \in Nat
  BY <1>1 DEF n
<1>3. /\ [meta EXCEPT !.step = n] \in CoherentCopies
      /\ [meta EXCEPT !.step = n].flow = meta.flow
      /\ [meta EXCEPT !.step = n].fields = meta.fields
  BY <1>2 DEF CoherentCopies, Copies, Coherent
<1> QED
  BY <1>3 DEF n

(* Onboarding names its flow and counts steps (onboarding.go's UpdateState). *)
LEMMA OnboardingKeeps ==
  ASSUME NEW meta \in CoherentCopies, NEW answer
  PROVE  /\ UpdateOnboarding(meta, answer) \in CoherentCopies
         /\ UpdateOnboarding(meta, answer).flow = Onboarding
         /\ UpdateOnboarding(meta, answer).fields = meta.fields
<1> DEFINE named == [meta EXCEPT !.flow = Onboarding]
<1>1. /\ named \in CoherentCopies
      /\ named.flow = Onboarding /\ named.fields = meta.fields
  BY FlowIsNamed DEF Registered
<1> HIDE DEF named
<1>2. /\ [named EXCEPT !.step = @ + 1] \in CoherentCopies
      /\ [named EXCEPT !.step = @ + 1].flow = named.flow
      /\ [named EXCEPT !.step = @ + 1].fields = named.fields
  BY <1>1, StepIsCounted
<1>3. UpdateOnboarding(meta, answer) =
        IF answer.asks THEN [named EXCEPT !.step = @ + 1] ELSE named
  BY DEF UpdateOnboarding, named
<1> QED
  BY <1>1, <1>2, <1>3

(* What loadState makes of a copy is of one piece whatever was there. *)
LEMMA LoadedState ==
  ASSUME NEW meta \in CoherentCopies
  PROVE  /\ loadState(meta).flow =
              IF meta.flow = NoFlow THEN APIIntegration ELSE meta.flow
         /\ loadState(meta).flow \in Registered
         /\ loadState(meta).status \in Status \ {""}
         /\ loadState(meta).fields = meta.fields
         /\ loadState(meta).missing = Required \ meta.fields
         /\ loadState(meta).deliverables \subseteq Names
         /\ loadState(meta).status = "collecting" =>
              loadState(meta).missing # {}
         /\ loadState(meta).status = "ready_to_generate" =>
              loadState(meta).missing = {}
<1>1. /\ meta.status \in Status /\ Coherent(meta)
      /\ meta.flow \in Registered \union {NoFlow}
      /\ meta.deliverables \subseteq Names
  BY CopyFields DEF FlowNames
<1>2. CASE meta.status = ""
  BY <1>1, <1>2, FlowsAssumption
     DEF loadState, Coherent, Status, Registered, APIIntegration
<1>3. CASE meta.status # ""
  BY <1>1, <1>3 DEF loadState, Coherent, Status, Registered, APIIntegration
<1> QED
  BY <1>2, <1>3

(* A copy whose status and missing fields fit the fields is of one piece. *)
LEMMA WrittenCopy ==
  ASSUME NEW f \in Registered, NEW step \in Nat,
         NEW status \in Status \ {""}, NEW fields \in SUBSET Required,
         NEW files \in SUBSET Names,
         status = "collecting" => Required \ fields # {},
         status = "ready_to_generate" => Required \ fields = {}
  PROVE  [flow |-> f, step |-> step, status |-> status, fields |-> fields,
          missing |-> Required \ fields, deliverables |-> files]
           \in CoherentCopies
<1> DEFINE missing == Required \ fields
<1>1. missing \in SUBSET Required
  OBVIOUS
<1>2. /\ status = "collecting" => missing # {}
      /\ status = "ready_to_generate" => missing = {}
  OBVIOUS
<1> HIDE DEF missing
<1>3. [flow |-> f, step |-> step, status |-> status, fields |-> fields,
       missing |-> missing, deliverables |-> files] \in Copies
  BY <1>1 DEF Copies, FlowNames
<1>4. Coherent([flow |-> f, step |-> step, status |-> status,
                fields |-> fields, missing |-> missing,
                deliverables |-> files])
  BY <1>2 DEF Coherent, missing
<1> QED
  BY <1>3, <1>4 DEF CoherentCopies, missing

(* Fields are added to those collected, never taken away. *)
LEMMA CollectedFields ==
  ASSUME NEW meta \in CoherentCopies, NEW answer \in Answer
  PROVE  /\ Collected(loadState(meta), answer) \subseteq Required
         /\ meta.fields \subseteq Collected(loadState(meta), answer)
<1>1. /\ loadState(meta).fields = meta.fields
      /\ meta.fields \subseteq Required
  BY LoadedState, CopyFields
<1>2. answer.fields \subseteq Required /\ answer.infers \subseteq Required
  BY FlowsAssumption DEF Answer
<1> QED
  BY <1>1, <1>2
     DEF Collected, inferFieldsFromContent, parseFlowStateBlock

(* An integration's update stays in its flow, adds fields and is coherent. *)
LEMMA IntegrationKeeps ==
  ASSUME NEW meta \in CoherentCopies, NEW answer \in Answer
  PROVE  /\ UpdateAPIIntegration(meta, answer) \in CoherentCopies
         /\ UpdateAPIIntegration(meta, answer).flow =
              IF meta.flow = NoFlow THEN APIIntegration ELSE meta.flow
         /\ meta.fields \subseteq UpdateAPIIntegration(meta, answer).fields
<1> DEFINE state == loadState(meta)
           fields == Collected(state, answer)
           status == Transition(state, fields)
<1>1. /\ fields \in SUBSET Required /\ meta.fields \subseteq fields
  BY CollectedFields
<1>2. /\ state.flow \in Registered /\ state.status \in Status \ {""}
      /\ state.flow = IF meta.flow = NoFlow THEN APIIntegration ELSE meta.flow
      /\ state.missing = Required \ meta.fields
      /\ state.deliverables \in SUBSET Names
      /\ state.status = "ready_to_generate" => state.missing = {}
  BY LoadedState
<1> HIDE DEF state, fields
<1>3. /\ status \in Status \ {""}
      /\ status = "collecting" => Required \ fields # {}
      /\ status = "ready_to_generate" => Required \ fields = {}
  BY <1>1, <1>2 DEF Transition, computeMissingFields, Status
<1> HIDE DEF status
<1>4. UpdateAPIIntegration(meta, answer) =
        saveState([flow |-> state.flow, status |-> status, fields |-> fields,
                   missing |-> Required \ fields,
                   deliverables |-> state.deliverables], meta)
  BY DEF UpdateAPIIntegration, computeMissingFields, state, fields, status
<1> DEFINE f == state.flow
           files == state.deliverables
<1>5. f \in Registered /\ files \in SUBSET Names
  BY <1>2
<1>6. UpdateAPIIntegration(meta, answer) =
        saveState([flow |-> f, status |-> status, fields |-> fields,
                   missing |-> Required \ fields, deliverables |-> files],
                  meta)
  BY <1>4
<1> HIDE DEF f, files
<1> DEFINE step == meta.step
<1>7. UpdateAPIIntegration(meta, answer) =
        [flow |-> f, step |-> step, status |-> status, fields |-> fields,
         missing |-> Required \ fields, deliverables |-> files]
  BY <1>6 DEF saveState, step
<1>8. step \in Nat
  BY CopyFields DEF step
<1> HIDE DEF step
<1>9. UpdateAPIIntegration(meta, answer) \in CoherentCopies
  <2>1. [flow |-> f, step |-> step, status |-> status, fields |-> fields,
         missing |-> Required \ fields, deliverables |-> files]
           \in CoherentCopies
    BY <1>1, <1>3, <1>5, <1>8, WrittenCopy
  <2> QED
    BY <1>7, <2>1, Zenon
<1>10. /\ UpdateAPIIntegration(meta, answer).flow = f
       /\ UpdateAPIIntegration(meta, answer).fields = fields
  BY <1>7
<1> QED
  BY <1>1, <1>2, <1>9, <1>10 DEF f

(* Deliverables change the status to one that says nothing of the fields. *)
LEMMA DeliverablesKeep ==
  ASSUME NEW meta \in CoherentCopies, NEW files \in SUBSET Names
  PROVE  /\ AddRealDeliverables(meta, files) \in CoherentCopies
         /\ AddRealDeliverables(meta, files).flow =
              IF meta.flow = NoFlow THEN APIIntegration ELSE meta.flow
         /\ AddRealDeliverables(meta, files).fields = meta.fields
<1> DEFINE state == loadState(meta)
           all == state.deliverables \union files
           status == IF all # {} THEN "generated" ELSE state.status
<1>1. /\ state.flow \in Registered /\ state.status \in Status \ {""}
      /\ state.flow = IF meta.flow = NoFlow THEN APIIntegration ELSE meta.flow
      /\ state.fields = meta.fields /\ state.missing = Required \ meta.fields
      /\ state.deliverables \in SUBSET Names
      /\ state.status = "collecting" => state.missing # {}
      /\ state.status = "ready_to_generate" => state.missing = {}
  BY LoadedState
<1>2. meta.fields \in SUBSET Required
  BY CopyFields
<1> HIDE DEF state
<1>3. /\ status \in Status \ {""} /\ all \in SUBSET Names
      /\ status = "collecting" => Required \ meta.fields # {}
      /\ status = "ready_to_generate" => Required \ meta.fields = {}
  BY <1>1 DEF Status
<1>4. AddRealDeliverables(meta, files) =
        saveState([flow |-> state.flow, status |-> status,
                   fields |-> meta.fields, missing |-> Required \ meta.fields,
                   deliverables |-> all], meta)
  BY <1>1 DEF AddRealDeliverables, state
<1> DEFINE f == state.flow
<1>5. AddRealDeliverables(meta, files) =
        saveState([flow |-> f, status |-> status,
                   fields |-> meta.fields, missing |-> Required \ meta.fields,
                   deliverables |-> all], meta)
  BY <1>4
<1>6. f \in Registered
  BY <1>1
<1> HIDE DEF all, status, f
<1> DEFINE step == meta.step
           fields == meta.fields
<1>7. AddRealDeliverables(meta, files) =
        [flow |-> f, step |-> step, status |-> status, fields |-> fields,
         missing |-> Required \ fields, deliverables |-> all]
  BY <1>5 DEF saveState, step, fields
<1>8. step \in Nat
  BY CopyFields DEF step
<1> HIDE DEF step
<1>9. fields \in SUBSET Required
  BY <1>2
<1>10. /\ status = "collecting" => Required \ fields # {}
       /\ status = "ready_to_generate" => Required \ fields = {}
  BY <1>3
<1> HIDE DEF fields
<1>11. AddRealDeliverables(meta, files) \in CoherentCopies
  <2>1. [flow |-> f, step |-> step, status |-> status, fields |-> fields,
         missing |-> Required \ fields, deliverables |-> all]
           \in CoherentCopies
    BY <1>3, <1>6, <1>8, <1>9, <1>10, WrittenCopy
  <2> QED
    BY <1>7, <2>1, Zenon
<1>12. /\ AddRealDeliverables(meta, files).flow = f
       /\ AddRealDeliverables(meta, files).fields = fields
  BY <1>7
<1> QED
  BY <1>1, <1>11, <1>12 DEF f, fields

(* The flow of a turn is the one of its metadata, if that names one. *)
LEMMA UpdateStateKeeps ==
  ASSUME NEW meta \in CoherentCopies, NEW answer \in Answer,
         NEW f \in Registered, meta.flow # NoFlow => f = meta.flow
  PROVE  /\ UpdateState(f, meta, answer) \in CoherentCopies
         /\ UpdateState(f, meta, answer).flow = f
         /\ Extends(meta, UpdateState(f, meta, answer))
<1> USE DEF Extends
<1>1. CASE f = Onboarding
  <2>1. UpdateState(f, meta, answer) = UpdateOnboarding(meta, answer)
    BY <1>1 DEF UpdateState, Onboarding, Proposal, Contract, CodeReview,
                APIIntegration
  <2> QED
    BY <1>1, <2>1, OnboardingKeeps
<1>2. CASE f = Proposal
  <2>1. UpdateState(f, meta, answer) = [meta EXCEPT !.flow = f]
    BY <1>2 DEF UpdateState, UpdateProposal, Onboarding, Proposal,
                Contract, CodeReview, APIIntegration
  <2> QED
    BY <2>1, FlowIsNamed
<1>3. CASE f = Contract
  <2>1. UpdateState(f, meta, answer) = [meta EXCEPT !.flow = f]
    BY <1>3 DEF UpdateState, UpdateContract, Onboarding, Proposal,
                Contract, CodeReview, APIIntegration
  <2> QED
    BY <2>1, FlowIsNamed
<1>4. CASE f = CodeReview
  <2>1. UpdateState(f, meta, answer) = [meta EXCEPT !.flow = f]
    BY <1>4 DEF UpdateState, UpdateCodeReview, Onboarding, Proposal,
                Contract, CodeReview, APIIntegration
  <2> QED
    BY <2>1, FlowIsNamed
<1>5. CASE f = APIIntegration
  <2>1. UpdateState(f, meta, answer) = UpdateAPIIntegration(meta, answer)
    BY <1>5 DEF UpdateState, Onboarding, Proposal, Contract, CodeReview,
                APIIntegration
  <2> QED
    BY <1>5, <2>1, IntegrationKeeps
<1> QED
  BY <1>1, <1>2, <1>3, <1>4, <1>5 DEF Registered

-----------------------------------------------------------------------------
(* The inductive invariant *)

Places == {"loop", "reply", "late", "stored", "end"}

TypedTurns == [at : Places, chat : Chats, flow : FlowNames,
               meta : CoherentCopies, titling : BOOLEAN,
               written : SUBSET Names, blurred : BOOLEAN]

(* A turn that is in a flow stays in the flow its metadata names. *)
InItsFlow(turn) ==
  turn.flow # NoFlow /\ turn.meta.flow # NoFlow => turn.flow = turn.meta.flow

SoundTurns == {turn \in TypedTurns : InItsFlow(turn)}

TurnsInv ==
  /\ turns \in Seq(SoundTurns)
  /\ \A t \in DOMAIN turns : turns[t].chat \in DOMAIN convs

RowsInv ==
  \A c \in DOMAIN convs :
    DOMAIN convs[c] = Columns /\ convs[c].meta \in CoherentCopies

SoundWriter(w) ==
  /\ w.chat \in DOMAIN convs /\ w.kind \in Kinds
  /\ w.read.meta \in CoherentCopies
  /\ w.kind # "metadata" => "meta" \notin DOMAIN w.sets
  /\ w.kind = "metadata" =>
       /\ w.turn \in DOMAIN turns
       /\ "meta" \in DOMAIN w.sets /\ w.sets.meta \in CoherentCopies
       /\ Extends(turns[w.turn].meta, w.sets.meta)

WritersInv == \A w \in writers : SoundWriter(w)

SoundInv == TurnsInv /\ RowsInv /\ WritersInv

-----------------------------------------------------------------------------
(* Turns *)

(* For the mark of a turn, which is a disjunction. *)
LEMMA OrIsBoolean ==
  ASSUME NEW a, NEW b
  PROVE  (a \/ b) \in BOOLEAN
OBVIOUS

(* A mark, a move, a file and a title leave a turn's flow and copy alone. *)
LEMMA MarkedIsSound ==
  ASSUME NEW turn \in SoundTurns, NEW doubt
  PROVE  /\ Marked(turn, doubt) \in SoundTurns
         /\ Marked(turn, doubt).chat = turn.chat
         /\ Marked(turn, doubt).meta = turn.meta
         /\ Marked(turn, doubt).flow = turn.flow
         /\ Marked(turn, doubt).at = turn.at
<1> DEFINE b == turn.blurred \/ doubt
<1>1. b \in BOOLEAN
  BY OrIsBoolean
<1>2. Marked(turn, doubt) = [turn EXCEPT !.blurred = b]
  BY DEF Marked
<1> HIDE DEF b
<1> QED
  BY <1>1, <1>2 DEF SoundTurns, TypedTurns, InItsFlow

(* A turn that moves on keeps its conversation and its metadata. *)
LEMMA MovedIsSound ==
  ASSUME NEW turn \in SoundTurns, NEW at \in Places
  PROVE  /\ Moved(turn, at) \in SoundTurns
         /\ Moved(turn, at).chat = turn.chat
         /\ Moved(turn, at).meta = turn.meta
BY DEF Moved, SoundTurns, TypedTurns, InItsFlow

(* A file that a turn wrote is no part of its metadata. *)
LEMMA WroteIsSound ==
  ASSUME NEW turn \in SoundTurns, NEW name \in Names
  PROVE  /\ Wrote(turn, name) \in SoundTurns
         /\ Wrote(turn, name).chat = turn.chat
         /\ Wrote(turn, name).meta = turn.meta
BY DEF Wrote, SoundTurns, TypedTurns, InItsFlow

(* Nor is the title that it has asked for. *)
LEMMA TitledIsSound ==
  ASSUME NEW turn \in SoundTurns
  PROVE  /\ Titled(turn) \in SoundTurns
         /\ Titled(turn).chat = turn.chat
         /\ Titled(turn).meta = turn.meta
BY DEF Titled, SoundTurns, TypedTurns, InItsFlow

(* A turn that ended has no metadata and is in no flow. *)
LEMMA EndedIsSound ==
  ASSUME NEW turn \in SoundTurns
  PROVE  /\ Ended(turn) \in SoundTurns
         /\ Ended(turn).chat = turn.chat
         /\ Ended(turn).meta = NoMetadata
BY NoMetadataIsCoherent
   DEF Ended, SoundTurns, TypedTurns, InItsFlow, FlowNames, Places

(* What happens to one turn leaves the others alone. *)
LEMMA OneTurnChanges ==
  ASSUME TurnsInv, NEW t \in DOMAIN turns, NEW turn \in SoundTurns,
         turn.chat = turns[t].chat, UNCHANGED convs,
         turns' = [turns EXCEPT ![t] = turn]
  PROVE  /\ TurnsInv' /\ DOMAIN turns' = DOMAIN turns
         /\ \A u \in DOMAIN turns :
              \/ turns'[u].meta = turns[u].meta
              \/ u = t /\ turns'[u].meta = turn.meta
<1>1. /\ turns \in Seq(SoundTurns) /\ DOMAIN turns = 1..Len(turns)
      /\ Len(turns) \in Nat
  BY LenProperties DEF TurnsInv
<1>2. /\ turns' \in Seq(SoundTurns) /\ Len(turns') = Len(turns)
      /\ \A u \in 1..Len(turns) :
           turns'[u] = IF u = t THEN turn ELSE turns[u]
  BY <1>1, ExceptSeq
<1>3. DOMAIN turns' = DOMAIN turns
  BY <1>1, <1>2, LenProperties
<1>4. \A u \in DOMAIN turns : turns'[u] = IF u = t THEN turn ELSE turns[u]
  BY <1>1, <1>2
<1>5. \A u \in DOMAIN turns' : turns'[u].chat \in DOMAIN convs'
  BY <1>3, <1>4 DEF TurnsInv
<1>6. TurnsInv'
  BY <1>2, <1>5 DEF TurnsInv
<1>7. \A u \in DOMAIN turns :
        \/ turns'[u].meta = turns[u].meta
        \/ u = t /\ turns'[u].meta = turn.meta
  BY <1>4
<1> QED
  BY <1>3, <1>6, <1>7

(* A new turn comes last, and marks those it overlaps. *)
LEMMA TurnStarts ==
  ASSUME TurnsInv, NEW c, NEW turn \in SoundTurns, StartTurn(c, turn),
         DOMAIN convs \subseteq DOMAIN convs', turn.chat \in DOMAIN convs'
  PROVE  /\ TurnsInv' /\ DOMAIN turns \subseteq DOMAIN turns'
         /\ \A u \in DOMAIN turns : turns'[u].meta = turns[u].meta
<1> DEFINE n == Len(turns)
           marked == [u \in DOMAIN turns |->
                        Marked(turns[u], turns[u].chat = c /\ Active(u))]
<1>1. /\ n \in Nat /\ DOMAIN turns = 1..n
      /\ \A u \in 1..n : turns[u] \in SoundTurns
  BY LenProperties, ElementOfSeq DEF TurnsInv
<1>2. \A u \in 1..n : /\ marked[u] \in SoundTurns
                      /\ marked[u].chat = turns[u].chat
                      /\ marked[u].meta = turns[u].meta
  BY <1>1, MarkedIsSound
<1>3. marked \in [1..n -> SoundTurns]
  BY <1>1, <1>2
<1>4. turns' = Append(marked, turn)
  BY DEF StartTurn
<1> HIDE DEF marked, n
<1>5. marked \in Seq(SoundTurns)
  BY <1>1, <1>3, SeqDef
<1>6. Len(marked) = n
  BY <1>1, <1>3, <1>5, LenProperties
<1>7. /\ turns' \in Seq(SoundTurns) /\ Len(turns') = n + 1
      /\ \A u \in 1..n : turns'[u] = marked[u]
      /\ turns'[n + 1] = turn
  BY <1>4, <1>5, <1>6, AppendProperties
<1>8. DOMAIN turns' = 1..(n + 1)
  BY <1>7, LenProperties
<1>9. \A u \in DOMAIN turns' : turns'[u].chat \in DOMAIN convs'
  <2> SUFFICES ASSUME NEW u \in 1..(n + 1)
               PROVE  turns'[u].chat \in DOMAIN convs'
    BY <1>8
  <2>1. CASE u \in 1..n
    BY <1>1, <1>2, <1>7, <2>1 DEF TurnsInv
  <2>2. CASE u = n + 1
    BY <1>7, <2>2
  <2> QED
    BY <1>1, <2>1, <2>2
<1> QED
  BY <1>1, <1>2, <1>7, <1>8, <1>9 DEF TurnsInv

(* The flow is the metadata's when that names one. *)
LEMMA ActiveFlowIsNamed ==
  ASSUME NEW meta \in CoherentCopies, NEW named, NEW words, NEW n,
         NEW f \in ActiveFlows(meta, named, words, n)
  PROVE  /\ f \in FlowNames
         /\ meta.flow # NoFlow => f = meta.flow
<1>1. meta.flow \in Registered \union {NoFlow}
  BY CopyFields DEF FlowNames
<1>2. DetectAll(words, n) \subseteq Registered
  BY DEF DetectAll
<1> QED
  BY <1>1, <1>2 DEF ActiveFlows, FlowNames

(* A turn begins in the flow that its copy names, or in none. *)
LEMMA NewTurnIsSound ==
  ASSUME NEW c \in Chats, NEW at \in Places, NEW f \in FlowNames,
         NEW meta \in CoherentCopies, NEW titling \in BOOLEAN,
         f # NoFlow /\ meta.flow # NoFlow => f = meta.flow
  PROVE  /\ NewTurn(c, at, f, meta, titling) \in SoundTurns
         /\ NewTurn(c, at, f, meta, titling).chat = c
<1> DEFINE b == Busy(c)
<1>1. b \in BOOLEAN
  BY DEF Busy
<1>2. NewTurn(c, at, f, meta, titling) =
        [at |-> at, chat |-> c, flow |-> f, meta |-> meta,
         titling |-> titling, written |-> {}, blurred |-> b]
  BY DEF NewTurn
<1> HIDE DEF b
<1> QED
  BY <1>1, <1>2 DEF SoundTurns, TypedTurns, InItsFlow

(* A question starts a turn that is sound. *)
LEMMA AskStarts ==
  ASSUME TurnsInv, NEW c \in Chats, NEW asked, NEW words, NEW new \in BOOLEAN,
         NEW meta \in CoherentCopies, Ask(c, asked, meta, words, new),
         DOMAIN convs \subseteq DOMAIN convs', c \in DOMAIN convs'
  PROVE  /\ TurnsInv' /\ DOMAIN turns \subseteq DOMAIN turns'
         /\ \A u \in DOMAIN turns : turns'[u].meta = turns[u].meta
<1>1. PICK turn \in SoundTurns : StartTurn(c, turn) /\ turn.chat = c
  <2>1. CASE DetectTemporalQuery(words)
    <3>1. PICK stored \in BOOLEAN :
            StartTurn(c, Marked(NewTurn(c, "reply", NoFlow, meta, new),
                                ~ stored))
      BY <2>1 DEF Ask
    <3>2. /\ NewTurn(c, "reply", NoFlow, meta, new) \in SoundTurns
          /\ NewTurn(c, "reply", NoFlow, meta, new).chat = c
      BY NewTurnIsSound DEF FlowNames, Places
    <3> QED
      BY <3>1, <3>2, MarkedIsSound
  <2>2. CASE ~ DetectTemporalQuery(words)
    <3>1. PICK named \in Named :
            \E f \in ActiveFlows(meta, named, words, Len(asked)) :
              StartTurn(c, NewTurn(c, "loop", f, meta, new))
      BY <2>2 DEF Ask
    <3>2. PICK f \in ActiveFlows(meta, named, words, Len(asked)) :
            StartTurn(c, NewTurn(c, "loop", f, meta, new))
      BY <3>1
    <3>3. f \in FlowNames /\ (meta.flow # NoFlow => f = meta.flow)
      BY ActiveFlowIsNamed
    <3> QED
      BY <3>2, <3>3, NewTurnIsSound DEF Places
  <2> QED
    BY <2>1, <2>2
<1> QED
  BY <1>1, TurnStarts

-----------------------------------------------------------------------------
(* Writers and rows *)

(* What a step may do to the rows and the turns that a writer knows of *)
TurnsRemain ==
  /\ DOMAIN convs \subseteq DOMAIN convs'
  /\ DOMAIN turns \subseteq DOMAIN turns'
  /\ \A t \in DOMAIN turns :
       turns'[t].meta = turns[t].meta \/ turns'[t].meta = NoMetadata

(* A writer of a turn that ends sets no less than nothing. *)
LEMMA WriterRemains ==
  ASSUME TurnsRemain, NEW w, SoundWriter(w)
  PROVE  SoundWriter(w)'
<1>1. ASSUME w.kind = "metadata"
      PROVE  /\ w.turn \in DOMAIN turns'
             /\ "meta" \in DOMAIN w.sets /\ w.sets.meta \in CoherentCopies
             /\ Extends(turns'[w.turn].meta, w.sets.meta)
  <2>1. /\ w.turn \in DOMAIN turns
        /\ "meta" \in DOMAIN w.sets /\ w.sets.meta \in CoherentCopies
        /\ Extends(turns[w.turn].meta, w.sets.meta)
    BY <1>1 DEF SoundWriter
  <2>2. CASE turns'[w.turn].meta = turns[w.turn].meta
    BY <2>1, <2>2 DEF TurnsRemain
  <2>3. CASE turns'[w.turn].meta = NoMetadata
    <3>1. Extends(NoMetadata, w.sets.meta)
      BY DEF Extends, NoMetadata
    <3> QED
      BY <2>1, <2>3, <3>1 DEF TurnsRemain
  <2> QED
    BY <2>1, <2>2, <2>3 DEF TurnsRemain
<1> QED
  BY <1>1 DEF SoundWriter, TurnsRemain

(* The writers that are left are sound. *)
LEMMA WritersRemain ==
  ASSUME TurnsRemain, WritersInv, writers' \subseteq writers
  PROVE  WritersInv'
BY WriterRemains DEF WritersInv

(* One more has read the row of a conversation there is. *)
LEMMA WriterJoins ==
  ASSUME TurnsRemain, WritersInv, NEW w, SoundWriter(w),
         writers' = writers \union {w}
  PROVE  WritersInv'
BY WriterRemains DEF WritersInv

(* What is read of a row, and what is set but its metadata *)
LEMMA TitleOrEditJoins ==
  ASSUME RowsInv, NEW c \in DOMAIN convs, NEW kind \in {"title", "edit"},
         NEW t, NEW sets, "meta" \notin DOMAIN sets
  PROVE  SoundWriter(Writer(kind, t, c, sets))
BY DEF RowsInv, SoundWriter, Writer, Kinds

(* A writer of a turn that extends the turn's copy. *)
LEMMA MetadataJoins ==
  ASSUME SoundInv, NEW t \in DOMAIN turns, NEW meta \in CoherentCopies,
         Extends(turns[t].meta, meta)
  PROVE  SoundWriter(Writer("metadata", t, turns[t].chat, [meta |-> meta]))
<1>1. /\ turns[t].chat \in DOMAIN convs
      /\ convs[turns[t].chat].meta \in CoherentCopies
  BY DEF SoundInv, TurnsInv, RowsInv
<1>2. /\ DOMAIN [meta |-> meta] = {"meta"} /\ [meta |-> meta].meta = meta
  OBVIOUS
<1> QED
  BY <1>1, <1>2 DEF SoundWriter, Writer, Kinds

(* A row that is there, or is made, has every column. *)
LEMMA RowsStay ==
  ASSUME RowsInv, UNCHANGED convs
  PROVE  RowsInv'
BY DEF RowsInv

(* A row that is new leaves the others alone. *)
LEMMA CreateKeeps ==
  ASSUME RowsInv, NEW c, NEW title, Create(c, NewConversation(title))
  PROVE  /\ RowsInv' /\ DOMAIN convs' = DOMAIN convs \union {c}
         /\ \A d \in DOMAIN convs : convs'[d].meta = convs[d].meta
<1>1. /\ c \notin DOMAIN convs
      /\ convs' = [d \in DOMAIN convs \union {c} |->
                     IF d = c THEN NewConversation(title) ELSE convs[d]]
  BY DEF Create, With, GetByID
<1>2. /\ DOMAIN NewConversation(title) = Columns
      /\ NewConversation(title).meta \in CoherentCopies
  BY NoMetadataIsCoherent DEF NewConversation, Columns
<1> QED
  BY <1>1, <1>2 DEF RowsInv

(* A deletion is of the status alone. *)
LEMMA DeleteKeeps ==
  ASSUME RowsInv, NEW c \in DOMAIN convs, Delete(c)
  PROVE  /\ RowsInv' /\ DOMAIN convs' = DOMAIN convs
         /\ \A d \in DOMAIN convs : convs'[d].meta = convs[d].meta
<1> DEFINE row == [convs[c] EXCEPT !.status = "deleted"]
<1>1. convs' = [convs EXCEPT ![c] = row]
  BY DEF Delete
<1>2. DOMAIN row = Columns /\ row.meta = convs[c].meta
  BY DEF RowsInv, Columns
<1> HIDE DEF row
<1> QED
  BY <1>1, <1>2 DEF RowsInv

(* Update writes every column: what is set and what was read. *)
LEMMA UpdateKeeps ==
  ASSUME RowsInv, NEW w, SoundWriter(w), Update(w.chat, w.read, w.sets)
  PROVE  /\ RowsInv' /\ DOMAIN convs' = DOMAIN convs
         /\ convs'[w.chat].meta = IF "meta" \in DOMAIN w.sets THEN w.sets.meta
                                                             ELSE w.read.meta
         /\ \A d \in DOMAIN convs \ {w.chat} : convs'[d] = convs[d]
<1> DEFINE row == [k \in Columns |-> IF k \in DOMAIN w.sets THEN w.sets[k]
                                                         ELSE w.read[k]]
<1>1. convs' = [convs EXCEPT ![w.chat] = row]
  BY DEF Update
<1>2. /\ DOMAIN row = Columns
      /\ row.meta = IF "meta" \in DOMAIN w.sets THEN w.sets.meta
                                                ELSE w.read.meta
  BY DEF Columns
<1>3. row.meta \in CoherentCopies
  BY <1>2 DEF SoundWriter
<1>4. w.chat \in DOMAIN convs
  BY DEF SoundWriter
<1> HIDE DEF row
<1>5. /\ DOMAIN convs' = DOMAIN convs
      /\ convs'[w.chat] = row
      /\ \A d \in DOMAIN convs \ {w.chat} : convs'[d] = convs[d]
  BY <1>1, <1>4
<1>6. RowsInv'
  BY <1>2, <1>3, <1>5 DEF RowsInv
<1> QED
  BY <1>2, <1>5, <1>6

-----------------------------------------------------------------------------
(* The steps.  None but a write changes the metadata of a row. *)

MetadataStays ==
  \A c \in DOMAIN convs : convs'[c].meta = convs[c].meta

(* A step of one turn keeps the turns and the rows. *)
LEMMA TurnMoves ==
  ASSUME SoundInv, NEW t \in DOMAIN turns, NEW turn \in SoundTurns,
         turn.chat = turns[t].chat,
         turn.meta = turns[t].meta \/ turn.meta = NoMetadata,
         UNCHANGED convs, turns' = [turns EXCEPT ![t] = turn]
  PROVE  TurnsInv' /\ RowsInv' /\ TurnsRemain /\ MetadataStays
<1>1. /\ TurnsInv' /\ DOMAIN turns' = DOMAIN turns
      /\ \A u \in DOMAIN turns :
           \/ turns'[u].meta = turns[u].meta
           \/ u = t /\ turns'[u].meta = turn.meta
  BY OneTurnChanges DEF SoundInv
<1>2. RowsInv'
  BY RowsStay DEF SoundInv
<1> QED
  BY <1>1, <1>2 DEF TurnsRemain, MetadataStays

(* So does one that no turn takes. *)
LEMMA NoTurnMoves ==
  ASSUME SoundInv, UNCHANGED <<convs, turns>>
  PROVE  TurnsInv' /\ RowsInv' /\ TurnsRemain /\ MetadataStays
BY DEF SoundInv, TurnsInv, RowsInv, TurnsRemain, MetadataStays

(* The turns of the sequence, one by one. *)
LEMMA TurnIsSound ==
  ASSUME SoundInv, NEW t \in DOMAIN turns
  PROVE  turns[t] \in SoundTurns
BY LenProperties, ElementOfSeq DEF SoundInv, TurnsInv

(* A question in a new conversation. *)
LEMMA ChatInNewKeeps ==
  ASSUME SoundInv, NEW c \in Chats, NEW words, ChatInNew(c, words)
  PROVE  SoundInv' /\ MetadataStays
<1>1. /\ Create(c, NewConversation(Excerpt)) /\ UNCHANGED writers
      /\ Ask(c, <<Question>>, NoMetadata, words, TRUE)
  BY DEF ChatInNew
<1>2. /\ RowsInv' /\ DOMAIN convs' = DOMAIN convs \union {c} /\ MetadataStays
  BY <1>1, CreateKeeps DEF SoundInv, MetadataStays
<1>3. TurnsInv' /\ TurnsRemain
  BY <1>1, <1>2, AskStarts, NoMetadataIsCoherent DEF SoundInv, TurnsRemain
<1>4. WritersInv'
  BY <1>1, <1>3, WritersRemain DEF SoundInv
<1> QED
  BY <1>2, <1>3, <1>4 DEF SoundInv

(* A question in a conversation there is: the turn's copy is the row's. *)
LEMMA ChatInOldKeeps ==
  ASSUME SoundInv, NEW c \in Chats, NEW words, ChatInOld(c, words)
  PROVE  SoundInv' /\ MetadataStays
<1>1. /\ c \in DOMAIN convs /\ UNCHANGED <<convs, writers>>
      /\ Ask(c, Append(messages[c], Question), convs[c].meta, words, FALSE)
  BY DEF ChatInOld, GetByID
<1>2. RowsInv' /\ MetadataStays /\ convs[c].meta \in CoherentCopies
  BY <1>1, RowsStay DEF SoundInv, RowsInv, MetadataStays
<1>3. TurnsInv' /\ TurnsRemain
  BY <1>1, <1>2, AskStarts DEF SoundInv, TurnsRemain
<1>4. WritersInv'
  BY <1>1, <1>3, WritersRemain DEF SoundInv
<1> QED
  BY <1>2, <1>3, <1>4 DEF SoundInv

(* A file that was written is one of Names. *)
LEMMA CallToolKeeps ==
  ASSUME SoundInv, NEW t \in DOMAIN turns, CallTool(t)
  PROVE  SoundInv' /\ MetadataStays
<1>1. UNCHANGED <<convs, writers>>
  BY DEF CallTool
<1>2. TurnsInv' /\ RowsInv' /\ TurnsRemain /\ MetadataStays
  <2>1. \/ UNCHANGED turns
        \/ \E name \in Names :
             turns' = [turns EXCEPT ![t] = Wrote(turns[t], name)]
    BY DEF CallTool
  <2>2. CASE UNCHANGED turns
    BY <1>1, <2>2, NoTurnMoves
  <2>3. ASSUME NEW name \in Names,
               turns' = [turns EXCEPT ![t] = Wrote(turns[t], name)]
        PROVE  TurnsInv' /\ RowsInv' /\ TurnsRemain /\ MetadataStays
    BY <1>1, <2>3, TurnIsSound, WroteIsSound, TurnMoves
  <2> QED
    BY <2>1, <2>2, <2>3
<1>3. WritersInv'
  BY <1>1, <1>2, WritersRemain DEF SoundInv
<1> QED
  BY <1>2, <1>3 DEF SoundInv

(* The ends of a turn mark it and move it. *)
LEMMA MarkedAndMoved ==
  ASSUME SoundInv, NEW t \in DOMAIN turns, NEW doubt, NEW at \in Places
  PROVE  /\ Moved(Marked(turns[t], doubt), at) \in SoundTurns
         /\ Moved(Marked(turns[t], doubt), at).chat = turns[t].chat
         /\ Moved(Marked(turns[t], doubt), at).meta = turns[t].meta
<1> DEFINE turn == Marked(turns[t], doubt)
<1>1. /\ turn \in SoundTurns
      /\ turn.chat = turns[t].chat /\ turn.meta = turns[t].meta
  BY TurnIsSound, MarkedIsSound
<1> HIDE DEF turn
<1>2. /\ Moved(turn, at) \in SoundTurns
      /\ Moved(turn, at).chat = turn.chat /\ Moved(turn, at).meta = turn.meta
  BY <1>1, MovedIsSound
<1> QED
  BY <1>1, <1>2 DEF turn

(* The last iteration ends without an answer. *)
LEMMA ExhaustKeeps ==
  ASSUME SoundInv, NEW t \in DOMAIN turns, Exhaust(t)
  PROVE  SoundInv' /\ MetadataStays
<1>1. /\ UNCHANGED <<convs, writers>>
      /\ turns' = [turns EXCEPT ![t] = Moved(Marked(turns[t], TRUE), "late")]
  BY DEF Exhaust, store
<1>2. TurnsInv' /\ RowsInv' /\ TurnsRemain /\ MetadataStays
  BY <1>1, MarkedAndMoved, TurnMoves DEF Places
<1>3. WritersInv'
  BY <1>1, <1>2, WritersRemain DEF SoundInv
<1> QED
  BY <1>2, <1>3 DEF SoundInv

(* What a turn leaves is of one piece and extends what it began with. *)
LEMMA LeftMetadata ==
  ASSUME SoundInv, NEW t \in DOMAIN turns, turns[t].flow # NoFlow,
         NEW answer \in Answer
  PROVE  /\ NextMetadata(t, answer) \in CoherentCopies
         /\ Extends(turns[t].meta, NextMetadata(t, answer))
<1> DEFINE f == turns[t].flow
           meta == turns[t].meta
           files == turns[t].written
           next == UpdateState(f, meta, answer)
<1>1. /\ f \in Registered /\ meta \in CoherentCopies
      /\ files \in SUBSET Names
      /\ meta.flow # NoFlow => f = meta.flow
  BY TurnIsSound DEF SoundTurns, TypedTurns, InItsFlow, FlowNames
<1>2. NextMetadata(t, answer) =
        IF f = APIIntegration /\ files # {}
        THEN AddRealDeliverables(next, files) ELSE next
  BY DEF NextMetadata
<1>3. next \in CoherentCopies /\ next.flow = f /\ Extends(meta, next)
  BY <1>1, UpdateStateKeeps
<1> HIDE DEF next, f, files, meta
<1>4. CASE f = APIIntegration /\ files # {}
  <2>1. /\ AddRealDeliverables(next, files) \in CoherentCopies
        /\ AddRealDeliverables(next, files).flow =
             IF next.flow = NoFlow THEN APIIntegration ELSE next.flow
        /\ AddRealDeliverables(next, files).fields = next.fields
    BY <1>1, <1>3, DeliverablesKeep
  <2>2. Extends(meta, AddRealDeliverables(next, files))
    BY <1>1, <1>3, <1>4, <2>1 DEF Extends, APIIntegration, NoFlow
  <2> QED
    BY <1>2, <1>4, <2>1, <2>2 DEF meta
<1>5. CASE ~ (f = APIIntegration /\ files # {})
  BY <1>2, <1>3, <1>5 DEF meta
<1> QED
  BY <1>4, <1>5

(* The writer that a turn in a flow leaves is sound. *)
LEMMA MetadataIsRead ==
  ASSUME SoundInv, NEW t \in DOMAIN turns, NEW answer \in Answer,
         ReadForMetadata(t, answer), TurnsRemain
  PROVE  WritersInv'
<1>1. CASE turns[t].flow = NoFlow
  BY <1>1, WritersRemain DEF ReadForMetadata, SoundInv
<1>2. CASE turns[t].flow # NoFlow
  <2> DEFINE meta == NextMetadata(t, answer)
             w == Writer("metadata", t, turns[t].chat, [meta |-> meta])
  <2>1. meta \in CoherentCopies /\ Extends(turns[t].meta, meta)
    BY <1>2, LeftMetadata
  <2>2. writers' = writers \union {w}
    BY <1>2 DEF ReadForMetadata
  <2> HIDE DEF meta
  <2>3. SoundWriter(w)
    BY <2>1, MetadataJoins
  <2> HIDE DEF w
  <2> QED
    BY <2>2, <2>3, WriterJoins DEF SoundInv
<1> QED
  BY <1>1, <1>2

(* A turn finishes. *)
LEMMA FinishKeeps ==
  ASSUME SoundInv, NEW t \in DOMAIN turns, NEW answer \in Answer,
         Finish(t, answer)
  PROVE  SoundInv' /\ MetadataStays
<1>1. PICK stored \in BOOLEAN :
        turns' = [turns EXCEPT ![t] = Moved(Marked(turns[t], ~ stored),
                                            "reply")]
  BY DEF Finish
<1>2. UNCHANGED convs /\ ReadForMetadata(t, answer)
  BY DEF Finish
<1>3. TurnsInv' /\ RowsInv' /\ TurnsRemain /\ MetadataStays
  BY <1>1, <1>2, MarkedAndMoved, TurnMoves DEF Places
<1>4. WritersInv'
  BY <1>2, <1>3, MetadataIsRead
<1> QED
  BY <1>3, <1>4 DEF SoundInv

(* A turn that ran out of iterations stores what was shown. *)
LEMMA FinishLateKeeps ==
  ASSUME SoundInv, NEW t \in DOMAIN turns, NEW answer \in Answer,
         FinishLate(t, answer)
  PROVE  SoundInv' /\ MetadataStays
<1> DEFINE shown == [answer EXCEPT !.block = "none"]
<1>1. /\ turns' = [turns EXCEPT ![t] = Moved(turns[t], "stored")]
      /\ UNCHANGED convs /\ ReadForMetadata(t, shown)
  BY DEF FinishLate
<1>2. shown \in Answer
  BY DEF Answer
<1> HIDE DEF shown
<1>3. TurnsInv' /\ RowsInv' /\ TurnsRemain /\ MetadataStays
  BY <1>1, TurnIsSound, MovedIsSound, TurnMoves DEF Places
<1>4. WritersInv'
  BY <1>1, <1>2, <1>3, MetadataIsRead
<1> QED
  BY <1>3, <1>4 DEF SoundInv

(* The title goroutine has read the row. *)
LEMMA ReadForTitleKeeps ==
  ASSUME SoundInv, NEW t \in DOMAIN turns, ReadForTitle(t)
  PROVE  SoundInv' /\ MetadataStays
<1> DEFINE w == Writer("title", t, turns[t].chat, [title |-> Generated])
<1>1. /\ writers' = writers \union {w} /\ UNCHANGED convs
      /\ turns' = [turns EXCEPT ![t] = Titled(turns[t])]
  BY DEF ReadForTitle, store
<1>2. TurnsInv' /\ RowsInv' /\ TurnsRemain /\ MetadataStays
  BY <1>1, TurnIsSound, TitledIsSound, TurnMoves
<1>3. SoundWriter(w)
  <2>1. "meta" \notin DOMAIN [title |-> Generated]
    OBVIOUS
  <2>2. turns[t].chat \in DOMAIN convs
    BY DEF SoundInv, TurnsInv
  <2> QED
    BY <2>1, <2>2, TitleOrEditJoins DEF SoundInv
<1> HIDE DEF w
<1>4. WritersInv'
  BY <1>1, <1>2, <1>3, WriterJoins DEF SoundInv
<1> QED
  BY <1>2, <1>4 DEF SoundInv

(* A turn that ends takes its metadata writer with it. *)
LEMMA TurnEndsSoundly ==
  ASSUME SoundInv, NEW t \in DOMAIN turns, UNCHANGED convs,
         turns' = [turns EXCEPT ![t] = Ended(turns[t])],
         writers' = {w \in writers : w.kind # "metadata" \/ w.turn # t}
  PROVE  SoundInv' /\ MetadataStays
<1>1. TurnsInv' /\ RowsInv' /\ TurnsRemain /\ MetadataStays
  BY TurnIsSound, EndedIsSound, TurnMoves
<1>2. WritersInv'
  BY <1>1, WritersRemain DEF SoundInv
<1> QED
  BY <1>1, <1>2 DEF SoundInv

(* The request of a turn ends. *)
LEMMA RespondKeeps ==
  ASSUME SoundInv, NEW t \in DOMAIN turns, Respond(t)
  PROVE  SoundInv' /\ MetadataStays
BY TurnEndsSoundly DEF Respond, store

(* The client of a turn is gone. *)
LEMMA LeaveKeeps ==
  ASSUME SoundInv, NEW t \in DOMAIN turns, Leave(t)
  PROVE  SoundInv' /\ MetadataStays
BY TurnEndsSoundly DEF Leave, store

(* What FlowOutlivesTurns asks of a step *)
FlowStep ==
  \A c \in DOMAIN convs :
    \/ Extends(convs[c].meta, convs'[c].meta)
    \/ \E w \in writers \ writers' : w.chat = c /\ Outdated(w)

(* A step that leaves the metadata alone leaves the flows alone. *)
LEMMA FlowStays == MetadataStays => FlowStep
<1> SUFFICES ASSUME MetadataStays, NEW c \in DOMAIN convs
             PROVE  Extends(convs[c].meta, convs'[c].meta)
  BY DEF FlowStep
<1> QED
  BY DEF MetadataStays, Extends

(* A writer that is up to date writes the metadata there is, or what a turn
   makes of it. *)
LEMMA WriteKeeps ==
  ASSUME SoundInv, NEW w \in writers, Write(w)
  PROVE  SoundInv' /\ FlowStep
<1>1. /\ Update(w.chat, w.read, w.sets) /\ UNCHANGED turns
      /\ writers' = writers \ {w}
  BY DEF Write, UpdateConversationTitle, UpdateConversationMetadata,
         UpdateConversation
<1>2. SoundWriter(w)
  BY DEF SoundInv, WritersInv
<1>3. /\ RowsInv' /\ DOMAIN convs' = DOMAIN convs
      /\ convs'[w.chat].meta = IF "meta" \in DOMAIN w.sets THEN w.sets.meta
                                                          ELSE w.read.meta
      /\ \A d \in DOMAIN convs \ {w.chat} : convs'[d] = convs[d]
  BY <1>1, <1>2, UpdateKeeps DEF SoundInv
<1>4. TurnsInv' /\ TurnsRemain
  BY <1>1, <1>3 DEF SoundInv, TurnsInv, TurnsRemain
<1>5. WritersInv'
  BY <1>1, <1>4, WritersRemain DEF SoundInv
<1>6. ASSUME ~ Outdated(w)
      PROVE  Extends(convs[w.chat].meta, convs'[w.chat].meta)
  <2>1. w.read.meta = convs[w.chat].meta
    BY <1>6 DEF Outdated
  <2>2. CASE w.kind = "metadata"
    BY <1>2, <1>3, <1>6, <2>2 DEF SoundWriter, Outdated
  <2>3. CASE w.kind # "metadata"
    <3>1. convs'[w.chat].meta = convs[w.chat].meta
      BY <1>2, <1>3, <2>1, <2>3 DEF SoundWriter
    <3> QED
      BY <3>1 DEF Extends
  <2> QED
    BY <2>2, <2>3
<1>7. FlowStep
  <2> SUFFICES ASSUME NEW c \in DOMAIN convs
               PROVE  \/ Extends(convs[c].meta, convs'[c].meta)
                      \/ \E v \in writers \ writers' : v.chat = c /\ Outdated(v)
    BY DEF FlowStep
  <2>1. CASE c # w.chat
    <3>1. convs'[c].meta = convs[c].meta
      BY <1>3, <2>1
    <3> QED
      BY <3>1 DEF Extends
  <2>2. CASE c = w.chat /\ Outdated(w)
    BY <1>1, <2>2
  <2>3. CASE c = w.chat /\ ~ Outdated(w)
    BY <1>6, <2>3
  <2> QED
    BY <2>1, <2>2, <2>3
<1> QED
  BY <1>3, <1>4, <1>5, <1>7 DEF SoundInv

(* A write that fails. *)
LEMMA WriteFailsKeeps ==
  ASSUME SoundInv, NEW w \in writers, WriteFails(w)
  PROVE  SoundInv' /\ MetadataStays
<1>1. UNCHANGED <<convs, turns>> /\ writers' \subseteq writers
  BY DEF WriteFails, store
<1>2. TurnsInv' /\ RowsInv' /\ TurnsRemain /\ MetadataStays
  BY <1>1, NoTurnMoves
<1>3. WritersInv'
  BY <1>1, <1>2, WritersRemain DEF SoundInv
<1> QED
  BY <1>2, <1>3 DEF SoundInv

(* A chat is made by hand. *)
LEMMA HandleCreateChatKeeps ==
  ASSUME SoundInv, NEW c, NEW title, HandleCreateChat(c, title)
  PROVE  SoundInv' /\ MetadataStays
<1>1. Create(c, NewConversation(title)) /\ UNCHANGED <<turns, writers>>
  BY DEF HandleCreateChat
<1>2. /\ RowsInv' /\ DOMAIN convs' = DOMAIN convs \union {c} /\ MetadataStays
  BY <1>1, CreateKeeps DEF SoundInv, MetadataStays
<1>3. TurnsInv' /\ TurnsRemain
  BY <1>1, <1>2 DEF SoundInv, TurnsInv, TurnsRemain
<1>4. WritersInv'
  BY <1>1, <1>3, WritersRemain DEF SoundInv
<1> QED
  BY <1>2, <1>3, <1>4 DEF SoundInv

(* A PATCH has read the row; it sets no metadata. *)
LEMMA HandleUpdateConversationKeeps ==
  ASSUME SoundInv, NEW c, NEW sets \in Patches,
         HandleUpdateConversation(c, sets)
  PROVE  SoundInv' /\ MetadataStays
<1> DEFINE w == Writer("edit", edits + 1, c, sets)
<1>1. /\ c \in DOMAIN convs /\ UNCHANGED <<convs, turns>>
      /\ writers' = writers \union {w}
  BY DEF HandleUpdateConversation, GetByID, store
<1>2. TurnsInv' /\ RowsInv' /\ TurnsRemain /\ MetadataStays
  BY <1>1, NoTurnMoves
<1>3. "meta" \notin DOMAIN sets
  BY ConversationsAssumption
<1>4. SoundWriter(w)
  BY <1>1, <1>3, TitleOrEditJoins DEF SoundInv
<1> HIDE DEF w
<1>5. WritersInv'
  BY <1>1, <1>2, <1>4, WriterJoins DEF SoundInv
<1> QED
  BY <1>2, <1>5 DEF SoundInv

(* A conversation is deleted. *)
LEMMA HandleDeleteConversationKeeps ==
  ASSUME SoundInv, NEW c, HandleDeleteConversation(c)
  PROVE  SoundInv' /\ MetadataStays
<1>1. c \in DOMAIN convs /\ Delete(c) /\ UNCHANGED <<turns, writers>>
  BY DEF HandleDeleteConversation, GetByID
<1>2. RowsInv' /\ DOMAIN convs' = DOMAIN convs /\ MetadataStays
  BY <1>1, DeleteKeeps DEF SoundInv, MetadataStays
<1>3. TurnsInv' /\ TurnsRemain
  BY <1>1, <1>2 DEF SoundInv, TurnsInv, TurnsRemain
<1>4. WritersInv'
  BY <1>1, <1>3, WritersRemain DEF SoundInv
<1> QED
  BY <1>2, <1>3, <1>4 DEF SoundInv

(* What neither rows, turns nor writers take part in. *)
LEMMA NothingMovesKeeps ==
  ASSUME SoundInv, UNCHANGED <<convs, turns, writers>>
  PROVE  SoundInv' /\ MetadataStays
<1>1. TurnsInv' /\ RowsInv' /\ TurnsRemain /\ MetadataStays
  BY NoTurnMoves
<1>2. WritersInv'
  BY <1>1, WritersRemain DEF SoundInv
<1> QED
  BY <1>1, <1>2 DEF SoundInv

-----------------------------------------------------------------------------
(* Nothing is there at first. *)
LEMMA InitIsSound == Init => SoundInv
BY EmptySeq DEF Init, SoundInv, TurnsInv, RowsInv, WritersInv

(* Every step keeps SoundInv and is one that FlowOutlivesTurns allows. *)
LEMMA NextIsSound == SoundInv /\ [Next]_vars => SoundInv' /\ FlowStep
<1> SUFFICES ASSUME SoundInv, [Next]_vars
             PROVE  SoundInv' /\ FlowStep
  OBVIOUS
<1> USE FlowStays
<1>1. CASE ChatStep
  BY <1>1, ChatInNewKeeps, ChatInOldKeeps DEF ChatStep
<1>2. CASE TurnStep
  <2> PICK t \in DOMAIN turns :
        \/ CallTool(t) \/ Exhaust(t) \/ ReadForTitle(t) \/ Respond(t)
        \/ Leave(t)
        \/ \E answer \in Answers : Finish(t, answer) \/ FinishLate(t, answer)
    BY <1>2 DEF TurnStep
  <2>1. CASE CallTool(t)
    BY <2>1, CallToolKeeps
  <2>2. CASE Exhaust(t)
    BY <2>2, ExhaustKeeps
  <2>3. CASE ReadForTitle(t)
    BY <2>3, ReadForTitleKeeps
  <2>4. CASE Respond(t)
    BY <2>4, RespondKeeps
  <2>5. CASE Leave(t)
    BY <2>5, LeaveKeeps
  <2>6. ASSUME NEW answer \in Answers, Finish(t, answer) \/ FinishLate(t, answer)
        PROVE  SoundInv' /\ MetadataStays
    <3>1. answer \in Answer
      BY ConversationsAssumption
    <3> QED
      BY <2>6, <3>1, FinishKeeps, FinishLateKeeps
  <2> QED
    BY <2>1, <2>2, <2>3, <2>4, <2>5, <2>6
<1>3. CASE WriteStep
  BY <1>3, WriteKeeps, WriteFailsKeeps DEF WriteStep
<1>4. CASE EditStep
  <2> PICK c \in Chats :
        \/ \E title \in Titles : HandleCreateChat(c, title)
        \/ \E sets \in Patches : HandleUpdateConversation(c, sets)
        \/ HandleDeleteConversation(c)
        \/ \E name \in Names : HandleCreateArtifact(c, name)
    BY <1>4 DEF EditStep
  <2>1. ASSUME NEW title \in Titles, HandleCreateChat(c, title)
        PROVE  SoundInv' /\ MetadataStays
    BY <2>1, HandleCreateChatKeeps
  <2>2. ASSUME NEW sets \in Patches, HandleUpdateConversation(c, sets)
        PROVE  SoundInv' /\ MetadataStays
    BY <2>2, HandleUpdateConversationKeeps
  <2>3. CASE HandleDeleteConversation(c)
    BY <2>3, HandleDeleteConversationKeeps
  <2>4. ASSUME NEW name \in Names, HandleCreateArtifact(c, name)
        PROVE  SoundInv' /\ MetadataStays
    BY <2>4, NothingMovesKeeps DEF HandleCreateArtifact
  <2> QED
    BY <2>1, <2>2, <2>3, <2>4
<1>5. CASE UNCHANGED vars
  BY <1>5, NothingMovesKeeps DEF vars
<1> QED
  BY <1>1, <1>2, <1>3, <1>4, <1>5 DEF Next

(* Every copy of the metadata is of one piece, and every writer of a turn sets
   no less than its turn began with. *)
THEOREM ConversationsAreSound == Spec => []SoundInv
<1> QED
  BY InitIsSound, NextIsSound, PTL DEF Spec

(* What is stored of an integration, and what a turn works on, is coherent: no
   turn asks for a field that is collected, or writes documents while one is
   missing (api_integration.go's UpdateState and AddRealDeliverables). *)
THEOREM FlowStateStaysCoherent == Spec => []FlowStateIsCoherent
<1>1. SoundInv => FlowStateIsCoherent
  <2> SUFFICES ASSUME SoundInv,
                      NEW meta \in {convs[c].meta : c \in DOMAIN convs}
                                     \union {turns[t].meta : t \in DOMAIN turns}
               PROVE  /\ BuildMessages(meta) = Required \ meta.fields
                      /\ meta.status = "collecting" => meta.missing # {}
                      /\ meta.status = "ready_to_generate" => meta.missing = {}
    BY DEF FlowStateIsCoherent
  <2>1. \A c \in DOMAIN convs : convs[c].meta \in CoherentCopies
    BY DEF SoundInv, RowsInv
  <2>2. \A t \in DOMAIN turns : turns[t].meta \in CoherentCopies
    BY TurnIsSound DEF SoundTurns, TypedTurns
  <2>3. meta \in CoherentCopies
    BY <2>1, <2>2
  <2> QED
    BY <2>3, CopyFields, LoadedState DEF Coherent, BuildMessages
<1> QED
  BY <1>1, ConversationsAreSound, PTL

(* No turn leaves the flow of a conversation or forgets a field, unless its
   copy of the metadata, or the row it writes back, is out of date
   (UpdateConversationMetadata reads the row and writes every column). *)
THEOREM FlowsOutliveTurns == Spec => FlowOutlivesTurns
<1>1. SoundInv /\ [Next]_vars =>
        [\A c \in DOMAIN convs :
           LET old == convs[c].meta  new == convs'[c].meta
           IN  \/ /\ old.flow # NoFlow => new.flow = old.flow
                  /\ old.fields \subseteq new.fields
               \/ \E w \in writers \ writers' : w.chat = c /\ Outdated(w)]_convs
  BY NextIsSound DEF FlowStep, Extends
<1> QED
  BY <1>1, ConversationsAreSound, PTL DEF Spec, FlowOutlivesTurns

-----------------------------------------------------------------------------
(* The columns and their last writes.  lost is empty for a new row; a writer
   adds to it what it puts back and takes from it what it sets. *)
LastInv ==
  /\ DOMAIN last = DOMAIN convs /\ DOMAIN lost = DOMAIN convs
  /\ \A c \in DOMAIN convs :
       /\ DOMAIN last[c] = Columns
       /\ \A k \in Columns \ lost[c] : convs[c][k] = last[c][k]

(* What writes no row. *)
LEMMA LastStays ==
  ASSUME LastInv, UNCHANGED <<convs, last, lost>>
  PROVE  LastInv'
BY DEF LastInv

(* All of a new row was written on purpose. *)
LEMMA CreateIsLast ==
  ASSUME LastInv, NEW c, NEW title, Create(c, NewConversation(title))
  PROVE  LastInv'
<1> DEFINE row == NewConversation(title)
<1>1. DOMAIN row = Columns
  BY DEF NewConversation, Columns
<1> HIDE DEF row
<1>2. /\ convs' = [d \in DOMAIN convs \union {c} |->
                     IF d = c THEN row ELSE convs[d]]
      /\ last' = [d \in DOMAIN last \union {c} |->
                    IF d = c THEN row ELSE last[d]]
      /\ lost' = [d \in DOMAIN lost \union {c} |->
                    IF d = c THEN {} ELSE lost[d]]
  BY DEF Create, With, row
<1> QED
  BY <1>1, <1>2 DEF LastInv

(* The status of a deleted row was written on purpose. *)
LEMMA DeleteIsLast ==
  ASSUME LastInv, SoundInv, NEW c \in DOMAIN convs, Delete(c)
  PROVE  LastInv'
<1> DEFINE row == [convs[c] EXCEPT !.status = "deleted"]
           then == [last[c] EXCEPT !.status = "deleted"]
           old == lost[c] \ {"status"}
<1>1. /\ convs' = [convs EXCEPT ![c] = row]
      /\ last' = [last EXCEPT ![c] = then]
      /\ lost' = [lost EXCEPT ![c] = old]
  BY DEF Delete
<1>2. /\ DOMAIN convs[c] = Columns /\ DOMAIN last[c] = Columns
      /\ \A k \in Columns \ lost[c] : convs[c][k] = last[c][k]
  BY DEF LastInv, SoundInv, RowsInv
<1>3. /\ DOMAIN then = Columns
      /\ \A k \in Columns \ old : row[k] = then[k]
  BY <1>2
<1> HIDE DEF row, then, old
<1> QED
  BY <1>1, <1>3 DEF LastInv

(* What a writer puts back is lost, what it sets is the last write. *)
LEMMA UpdateIsLast ==
  ASSUME LastInv, SoundInv, NEW w \in writers,
         Update(w.chat, w.read, w.sets)
  PROVE  LastInv'
<1> DEFINE c == w.chat
           sets == w.sets
           written == [k \in Columns |-> IF k \in DOMAIN sets THEN sets[k]
                                                              ELSE w.read[k]]
           old == {k \in Columns \ DOMAIN sets : convs[c][k] # w.read[k]}
           gone == (lost[c] \ DOMAIN sets) \union old
           then == [k \in Columns |->
                      IF k \in DOMAIN sets THEN sets[k]
                      ELSE IF k \in gone THEN written[k] ELSE last[c][k]]
<1>1. c \in DOMAIN convs
  BY DEF SoundInv, WritersInv, SoundWriter
<1>2. c \in DOMAIN lost /\ c \in DOMAIN last
  BY <1>1 DEF LastInv
<1>3. /\ convs' = [convs EXCEPT ![c] = written]
      /\ lost' = [lost EXCEPT ![c] = gone]
  BY DEF Update
<1>4. lost'[c] = gone
  BY <1>2, <1>3
<1>5. last' = [last EXCEPT ![c] = then]
  BY <1>4 DEF Update
<1>6. DOMAIN then = Columns
  OBVIOUS
<1>7. \A k \in Columns \ gone : written[k] = then[k]
  <2> SUFFICES ASSUME NEW k \in Columns \ gone
               PROVE  written[k] = then[k]
    OBVIOUS
  <2>1. CASE k \in DOMAIN sets
    BY <2>1
  <2>2. CASE k \notin DOMAIN sets
    <3>1. convs[c][k] = w.read[k] /\ k \notin lost[c]
      BY <2>2
    <3>2. convs[c][k] = last[c][k]
      BY <1>1, <3>1 DEF LastInv
    <3> QED
      BY <2>2, <3>1, <3>2
  <2> QED
    BY <2>1, <2>2
<1> HIDE DEF written, gone, then, old, sets, c
<1> QED
  BY <1>3, <1>5, <1>6, <1>7 DEF LastInv

(* Every step keeps LastInv. *)
LEMMA NextIsLast == LastInv /\ SoundInv /\ [Next]_vars => LastInv'
<1> SUFFICES ASSUME LastInv, SoundInv, [Next]_vars
             PROVE  LastInv'
  OBVIOUS
<1>1. CASE ChatStep
  <2> PICK c \in Chats, words \in Questions :
        ChatInNew(c, words) \/ ChatInOld(c, words)
    BY <1>1 DEF ChatStep
  <2>1. CASE ChatInNew(c, words)
    BY <2>1, CreateIsLast DEF ChatInNew
  <2>2. CASE ChatInOld(c, words)
    BY <2>2, LastStays DEF ChatInOld, history
  <2> QED
    BY <2>1, <2>2
<1>2. CASE TurnStep
  <2>1. UNCHANGED <<convs, last, lost>>
    BY <1>2 DEF TurnStep, CallTool, Exhaust, ReadForTitle, Respond, Leave,
                Finish, FinishLate, store, history
  <2> QED
    BY <2>1, LastStays
<1>3. CASE WriteStep
  <2> PICK w \in writers : Write(w) \/ WriteFails(w)
    BY <1>3 DEF WriteStep
  <2>1. CASE Write(w)
    <3>1. Update(w.chat, w.read, w.sets)
      BY <2>1 DEF Write, UpdateConversationTitle, UpdateConversationMetadata,
                  UpdateConversation
    <3> QED
      BY <3>1, UpdateIsLast
  <2>2. CASE WriteFails(w)
    BY <2>2, LastStays DEF WriteFails, store, history
  <2> QED
    BY <2>1, <2>2
<1>4. CASE EditStep
  <2> PICK c \in Chats :
        \/ \E title \in Titles : HandleCreateChat(c, title)
        \/ \E sets \in Patches : HandleUpdateConversation(c, sets)
        \/ HandleDeleteConversation(c)
        \/ \E name \in Names : HandleCreateArtifact(c, name)
    BY <1>4 DEF EditStep
  <2>1. ASSUME NEW title \in Titles, HandleCreateChat(c, title)
        PROVE  LastInv'
    BY <2>1, CreateIsLast DEF HandleCreateChat
  <2>2. CASE HandleDeleteConversation(c)
    BY <2>2, DeleteIsLast DEF HandleDeleteConversation, GetByID
  <2>3. ASSUME \/ \E sets \in Patches : HandleUpdateConversation(c, sets)
               \/ \E name \in Names : HandleCreateArtifact(c, name)
        PROVE  LastInv'
    BY <2>3, LastStays
       DEF HandleUpdateConversation, HandleCreateArtifact, store, history
  <2> QED
    BY <2>1, <2>2, <2>3
<1>5. CASE UNCHANGED vars
  BY <1>5, LastStays DEF vars, history
<1> QED
  BY <1>1, <1>2, <1>3, <1>4, <1>5 DEF Next

(* The columns hold what was last written to them on purpose. *)
THEOREM RowsAreLast == Spec => []LastInv
<1>1. Init => LastInv
  BY DEF Init, LastInv
<1> QED
  BY <1>1, NextIsLast, ConversationsAreSound, PTL DEF Spec

(* A column of a row is what was last written to it on purpose, and a deleted
   conversation is off the list, unless a writer put an older value back
   (ConversationStore.Update writes every column of the row it is given). *)
THEOREM RowsKeepLastWrites == Spec => []RowKeepsLastWrite
<1>1. LastInv => RowKeepsLastWrite
  <2> SUFFICES ASSUME LastInv, NEW c \in DOMAIN convs
               PROVE  /\ \A k \in Columns \ lost[c] : convs[c][k] = last[c][k]
                      /\ "status" \notin lost[c] =>
                           (last[c].status = "deleted" <=> c \notin ListByUser)
    BY DEF RowKeepsLastWrite
  <2>1. \A k \in Columns \ lost[c] : convs[c][k] = last[c][k]
    BY DEF LastInv
  <2>2. "status" \notin lost[c] => convs[c].status = last[c].status
    BY <2>1 DEF Columns
  <2> QED
    BY <2>1, <2>2 DEF ListByUser
<1> QED
  BY <1>1, RowsAreLast, PTL

-----------------------------------------------------------------------------
(* Answers.  A turn that is not marked has its conversation to itself, so that
   nothing comes after the answer it stored until its request ends. *)
EndsWith(c, t) ==
  /\ Len(messages[c]) > 0
  /\ messages[c][Len(messages[c])] = [role |-> "assistant", turn |-> t]

Own(t) ==
  /\ turns[t].at \in {"loop", "reply"}
  /\ turns[t].at = "reply" => EndsWith(turns[t].chat, t)
  /\ \A u \in DOMAIN turns :
       u # t /\ Active(u) => turns[u].chat # turns[t].chat

OwnTurns == \A t \in DOMAIN turns : Active(t) /\ ~ turns[t].blurred => Own(t)

Listings ==
  /\ DOMAIN messages = DOMAIN convs
  /\ \A c \in DOMAIN messages : messages[c] \in Seq(Message)

Answered ==
  \A a \in answers :
    /\ a.turn \in DOMAIN turns
    /\ a.of = a.turn \/ turns[a.turn].blurred \/ ~ a.all

AnswersInv == Len(turns) <= MaxTurns /\ Listings /\ OwnTurns /\ Answered

(* What a mark and a move do to the marks and the place of a turn. *)
LEMMA MarkedFields ==
  ASSUME NEW turn \in SoundTurns, NEW doubt
  PROVE  /\ turn.blurred => Marked(turn, doubt).blurred
         /\ doubt => Marked(turn, doubt).blurred
         /\ ~ turn.blurred /\ ~ doubt => ~ Marked(turn, doubt).blurred
         /\ Marked(turn, doubt).at = turn.at
<1>1. PICK b \in BOOLEAN : b <=> turn.blurred \/ doubt
  OBVIOUS
<1>2. PICK d : d = (turn.blurred \/ doubt)
  OBVIOUS
<1>3. Marked(turn, doubt) = [turn EXCEPT !.blurred = d]
  BY <1>2 DEF Marked
<1>4. Marked(turn, doubt).blurred = d /\ Marked(turn, doubt).at = turn.at
  BY <1>3 DEF SoundTurns, TypedTurns
<1> QED
  BY <1>2, <1>4, Zenon

(* What the other helpers do to the place of a turn and to its mark. *)
LEMMA OtherFields ==
  ASSUME NEW turn \in SoundTurns, NEW at \in Places, NEW name
  PROVE  /\ Moved(turn, at).at = at /\ Moved(turn, at).blurred = turn.blurred
         /\ Wrote(turn, name).at = turn.at
         /\ Wrote(turn, name).blurred = turn.blurred
         /\ Titled(turn).at = turn.at /\ Titled(turn).blurred = turn.blurred
         /\ Ended(turn).at = "end" /\ Ended(turn).blurred = turn.blurred
BY DEF Moved, Wrote, Titled, Ended, SoundTurns, TypedTurns

(* What the invariants say of the sequence of turns. *)
LEMMA TurnsThere ==
  ASSUME SoundInv, AnswersInv
  PROVE  /\ Len(turns) \in Nat /\ DOMAIN turns = 1..Len(turns)
         /\ \A t \in DOMAIN turns :
              /\ turns[t] \in SoundTurns /\ t \in Turns
              /\ turns[t].chat \in DOMAIN convs
              /\ turns[t].chat \in DOMAIN messages
<1>1. /\ Len(turns) \in Nat /\ DOMAIN turns = 1..Len(turns)
      /\ \A t \in DOMAIN turns : turns[t] \in SoundTurns
  BY LenProperties, ElementOfSeq DEF SoundInv, TurnsInv
<1>2. MaxTurns \in Nat /\ Len(turns) <= MaxTurns
  BY ConversationsAssumption DEF AnswersInv
<1>3. \A t \in DOMAIN turns : t \in Turns
  BY <1>1, <1>2 DEF Turns
<1> QED
  BY <1>1, <1>3 DEF SoundInv, TurnsInv, AnswersInv, Listings

(* A step of one turn, which may only add to its own conversation. *)
LEMMA TurnAnswers ==
  ASSUME SoundInv, AnswersInv, NEW t \in DOMAIN turns, NEW turn \in SoundTurns,
         turn.chat = turns[t].chat, turns' = [turns EXCEPT ![t] = turn],
         UNCHANGED convs, turns[t].blurred => turn.blurred,
         Active(t) \/ (turn.at = "end" /\ UNCHANGED messages),
         DOMAIN messages' = DOMAIN messages,
         \A c \in DOMAIN messages :
           \/ messages'[c] = messages[c]
           \/ c = turns[t].chat /\ messages'[c] \in Seq(Message),
         turn.at # "end" /\ ~ turn.blurred =>
           /\ turn.at \in {"loop", "reply"}
           /\ turn.at = "reply" => EndsWith(turn.chat, t)',
         \A a \in answers' :
           a \in answers \/ (a.turn = t /\ (a.of = t \/ turn.blurred \/ ~ a.all))
  PROVE  AnswersInv'
<1>1. /\ Len(turns) \in Nat /\ DOMAIN turns = 1..Len(turns)
      /\ turns \in Seq(SoundTurns)
      /\ \A u \in DOMAIN turns : turns[u].chat \in DOMAIN messages
  BY TurnsThere DEF SoundInv, TurnsInv
<1>2. /\ Len(turns') = Len(turns) /\ DOMAIN turns' = DOMAIN turns
      /\ turns'[t] = turn
      /\ \A u \in DOMAIN turns : u # t => turns'[u] = turns[u]
  <2>1. Len(turns') = Len(turns)
    BY <1>1, ExceptSeq
  <2> QED
    BY <2>1
<1>3. \A u \in DOMAIN turns : Active(u)' => Active(u)
  BY <1>2 DEF Active
<1>4. \A u \in DOMAIN turns : /\ turns[u].blurred => turns'[u].blurred
                              /\ turns'[u].chat = turns[u].chat
  BY <1>2
<1>5. Len(turns') <= MaxTurns /\ Listings'
  BY <1>2 DEF AnswersInv, Listings
<1>6. OwnTurns'
  <2> SUFFICES ASSUME NEW v \in DOMAIN turns, Active(v)', ~ turns'[v].blurred
               PROVE  Own(v)'
    BY <1>2 DEF OwnTurns
  <2>1. Own(v) /\ Active(v)
    BY <1>3, <1>4 DEF AnswersInv, OwnTurns
  <2>2. \A u \in DOMAIN turns' :
          u # v /\ Active(u)' => turns'[u].chat # turns'[v].chat
    BY <1>2, <1>3, <1>4, <2>1 DEF Own
  <2>3. CASE v = t
    <3>1. turn.at # "end" /\ ~ turn.blurred
      BY <1>2, <2>3 DEF Active
    <3>2. /\ turn.at \in {"loop", "reply"}
          /\ turn.at = "reply" => EndsWith(turn.chat, t)'
      BY <3>1
    <3> QED
      BY <1>2, <2>2, <2>3, <3>2 DEF Own
  <2>4. CASE v # t
    <3>1. turns'[v] = turns[v] /\ turns[v].at \in {"loop", "reply"}
      BY <1>2, <2>1, <2>4 DEF Own
    <3>2. messages'[turns[v].chat] = messages[turns[v].chat]
      <4>1. CASE Active(t)
        BY <1>1, <2>1, <2>4, <4>1 DEF Own
      <4>2. CASE UNCHANGED messages
        BY <4>2
      <4> QED
        BY <4>1, <4>2
    <3>3. turns[v].at = "reply" => EndsWith(turns[v].chat, v)'
      BY <2>1, <3>1, <3>2 DEF Own, EndsWith
    <3> QED
      BY <2>2, <3>1, <3>3 DEF Own
  <2> QED
    BY <2>3, <2>4
<1>7. Answered'
  <2> SUFFICES ASSUME NEW a \in answers'
               PROVE  /\ a.turn \in DOMAIN turns
                      /\ a.of = a.turn \/ turns'[a.turn].blurred \/ ~ a.all
    BY <1>2 DEF Answered
  <2>1. CASE a \in answers
    BY <1>4, <2>1 DEF AnswersInv, Answered
  <2>2. CASE a \notin answers
    BY <1>2, <2>2
  <2> QED
    BY <2>1, <2>2
<1> QED
  BY <1>5, <1>6, <1>7 DEF AnswersInv

(* A step that no turn takes, and none of a conversation there is. *)
LEMMA NoTurnAnswers ==
  ASSUME SoundInv, AnswersInv, UNCHANGED <<turns, answers>>,
         DOMAIN messages' = DOMAIN convs',
         \A c \in DOMAIN messages : c \in DOMAIN messages'
                                    /\ messages'[c] = messages[c],
         \A c \in DOMAIN messages' \ DOMAIN messages : messages'[c] \in Seq(Message)
  PROVE  AnswersInv'
<1>1. \A t \in DOMAIN turns : turns[t].chat \in DOMAIN messages
  BY TurnsThere
<1>2. Listings'
  BY DEF AnswersInv, Listings
<1>3. OwnTurns'
  BY <1>1 DEF AnswersInv, OwnTurns, Own, EndsWith, Active
<1> QED
  BY <1>2, <1>3 DEF AnswersInv, Answered

(* A message of a turn is one of Message. *)
LEMMA MessageOfTurn ==
  ASSUME SoundInv, AnswersInv, NEW t \in DOMAIN turns,
         NEW role \in {"user", "assistant", "call", "tool"}
  PROVE  [role |-> role, turn |-> t] \in Message
BY TurnsThere DEF Message

(* A message that is stored is the last of its conversation. *)
LEMMA AddMessageFacts ==
  ASSUME SoundInv, AnswersInv, NEW t \in DOMAIN turns, NEW c,
         c = turns[t].chat, AddMessage(c, "assistant", t)
  PROVE  /\ DOMAIN messages' = DOMAIN messages
         /\ \A d \in DOMAIN messages :
              \/ messages'[d] = messages[d]
              \/ d = turns[t].chat /\ messages'[d] \in Seq(Message)
         /\ EndsWith(c, t)'
<1>1. c \in DOMAIN messages
  BY TurnsThere
<1>2. PICK m \in Message : m = [role |-> "assistant", turn |-> t]
  BY MessageOfTurn
<1>3. messages' = [messages EXCEPT ![c] = Append(@, m)]
  BY <1>2 DEF AddMessage
<1>4. messages[c] \in Seq(Message)
  BY <1>1 DEF AnswersInv, Listings
<1>5. PICK n \in Nat : n = Len(messages[c])
  BY <1>4, LenProperties
<1>6. PICK list : list = Append(messages[c], m)
  OBVIOUS
<1>7. list \in Seq(Message) /\ Len(list) = n + 1 /\ list[n + 1] = m
  BY <1>4, <1>5, <1>6, AppendProperties
<1>8. /\ DOMAIN messages' = DOMAIN messages /\ messages'[c] = list
      /\ \A d \in DOMAIN messages : d # c => messages'[d] = messages[d]
  BY <1>1, <1>3, <1>6
<1>9. Len(messages'[c]) > 0 /\ messages'[c][Len(messages'[c])] = m
  BY <1>7, <1>8
<1>10. EndsWith(c, t)'
  BY <1>2, <1>9 DEF EndsWith
<1> QED
  BY <1>1, <1>7, <1>8, <1>10

(* A tool's call and its result are stored. *)
LEMMA CallToolAnswers ==
  ASSUME SoundInv, AnswersInv, NEW t \in DOMAIN turns, CallTool(t)
  PROVE  AnswersInv'
<1>1. PICK c \in DOMAIN messages : c = turns[t].chat
  BY TurnsThere
<1>2. PICK pair :
        pair = <<[role |-> "call", turn |-> t], [role |-> "tool", turn |-> t]>>
  OBVIOUS
<1>3. pair \in Seq(Message)
  <2>1. PICK m \in Message, n \in Message :
          m = [role |-> "call", turn |-> t] /\ n = [role |-> "tool", turn |-> t]
    BY MessageOfTurn
  <2>2. pair = <<m, n>>
    BY <1>2, <2>1
  <2> HIDE DEF Message
  <2> QED
    BY <2>2
<1>4. messages' = [messages EXCEPT ![c] = @ \o pair]
  BY <1>1, <1>2 DEF CallTool
<1>5. messages[c] \o pair \in Seq(Message)
  BY <1>3, ConcatProperties DEF AnswersInv, Listings
<1>6. /\ DOMAIN messages' = DOMAIN messages
      /\ \A d \in DOMAIN messages :
           \/ messages'[d] = messages[d]
           \/ d = turns[t].chat /\ messages'[d] \in Seq(Message)
  BY <1>1, <1>4, <1>5
<1>7. turns[t] \in SoundTurns /\ turns[t].at = "loop" /\ Active(t)
  BY TurnsThere DEF CallTool, Active
<1>8. PICK turn \in SoundTurns :
        /\ turn.chat = turns[t].chat /\ turn.at = "loop"
        /\ turn.blurred = turns[t].blurred
        /\ turns' = [turns EXCEPT ![t] = turn]
  <2>1. CASE UNCHANGED turns
    <3>1. turns = [turns EXCEPT ![t] = turns[t]]
      BY DEF SoundInv, TurnsInv
    <3> QED
      BY <1>7, <2>1, <3>1
  <2>2. CASE turns' # turns
    <3>1. PICK name \in Names : turns' = [turns EXCEPT ![t] = Wrote(turns[t], name)]
      BY <2>2 DEF CallTool
    <3>2. /\ Wrote(turns[t], name) \in SoundTurns
          /\ Wrote(turns[t], name).chat = turns[t].chat
      BY <1>7, WroteIsSound
    <3>3. /\ Wrote(turns[t], name).at = "loop"
          /\ Wrote(turns[t], name).blurred = turns[t].blurred
      BY <1>7, OtherFields DEF Places
    <3> QED
      BY <3>1, <3>2, <3>3
  <2> QED
    BY <2>1, <2>2
<1>9. UNCHANGED <<convs, answers>>
  BY DEF CallTool
<1>10. turns[t].blurred => turn.blurred
  BY <1>8
<1>11. turn.at # "end" /\ ~ turn.blurred =>
         /\ turn.at \in {"loop", "reply"}
         /\ turn.at = "reply" => EndsWith(turn.chat, t)'
  BY <1>8
<1>12. \A a \in answers' : a \in answers
  BY <1>9
<1> HIDE DEF SoundInv, AnswersInv, EndsWith, Active, SoundTurns
<1> QED
  BY <1>6, <1>7, <1>8, <1>9, <1>10, <1>11, <1>12, TurnAnswers

(* The answer is stored, or the turn is marked. *)
LEMMA FinishAnswers ==
  ASSUME SoundInv, AnswersInv, NEW t \in DOMAIN turns, NEW answer,
         Finish(t, answer)
  PROVE  AnswersInv'
<1>1. turns[t] \in SoundTurns /\ Active(t)
  BY TurnsThere DEF Finish, Active
<1>2. PICK stored \in BOOLEAN :
        /\ IF stored THEN AddMessage(turns[t].chat, "assistant", t)
                     ELSE UNCHANGED messages
        /\ turns' = [turns EXCEPT ![t] = Moved(Marked(turns[t], ~ stored), "reply")]
  BY DEF Finish
<1>3. UNCHANGED <<convs, answers>>
  BY DEF Finish
<1>4. PICK turn : turn = Moved(Marked(turns[t], ~ stored), "reply")
  OBVIOUS
<1>5. turn \in SoundTurns /\ turn.chat = turns[t].chat
  BY <1>4, MarkedAndMoved DEF Places
<1>6. /\ turn.at = "reply"
      /\ turns[t].blurred => turn.blurred
      /\ ~ stored => turn.blurred
  <2>1. PICK m \in SoundTurns :
          /\ m = Marked(turns[t], ~ stored)
          /\ turns[t].blurred => m.blurred
          /\ ~ stored => m.blurred
    BY <1>1, MarkedIsSound, MarkedFields
  <2>2. turn = Moved(m, "reply")
    BY <1>4, <2>1
  <2> QED
    BY <2>1, <2>2, OtherFields DEF Places
<1>7. turns' = [turns EXCEPT ![t] = turn]
  BY <1>2, <1>4
<1>8. /\ DOMAIN messages' = DOMAIN messages
      /\ \A c \in DOMAIN messages :
           \/ messages'[c] = messages[c]
           \/ c = turns[t].chat /\ messages'[c] \in Seq(Message)
      /\ stored => EndsWith(turn.chat, t)'
  <2>1. PICK c : c = turns[t].chat
    OBVIOUS
  <2>2. CASE stored
    <3>1. AddMessage(c, "assistant", t)
      BY <1>2, <2>1, <2>2
    <3>2. /\ DOMAIN messages' = DOMAIN messages
          /\ \A d \in DOMAIN messages :
               \/ messages'[d] = messages[d]
               \/ d = turns[t].chat /\ messages'[d] \in Seq(Message)
          /\ EndsWith(c, t)'
      BY <2>1, <3>1, AddMessageFacts
    <3> QED
      BY <1>5, <2>1, <3>2 DEF EndsWith
  <2>3. CASE ~ stored
    BY <1>2, <2>3
  <2> QED
    BY <2>2, <2>3
<1>9. turn.at # "end" /\ ~ turn.blurred =>
        /\ turn.at \in {"loop", "reply"}
        /\ turn.at = "reply" => EndsWith(turn.chat, t)'
  <2>1. ~ turn.blurred => stored
    BY <1>6
  <2> HIDE DEF EndsWith
  <2> QED
    BY <1>6, <1>8, <2>1
<1>10. \A a \in answers' : a \in answers
  BY <1>3
<1> HIDE DEF SoundInv, AnswersInv, EndsWith, Active, SoundTurns
<1> QED
  BY <1>1, <1>3, <1>5, <1>6, <1>7, <1>8, <1>9, <1>10, TurnAnswers

(* A turn that ran out of iterations is marked. *)
LEMMA ExhaustAnswers ==
  ASSUME SoundInv, AnswersInv, NEW t \in DOMAIN turns, Exhaust(t)
  PROVE  AnswersInv'
<1>1. turns[t] \in SoundTurns /\ Active(t)
  BY TurnsThere DEF Exhaust, Active
<1>2. PICK turn : turn = Moved(Marked(turns[t], TRUE), "late")
  OBVIOUS
<1>3. turns' = [turns EXCEPT ![t] = turn] /\ UNCHANGED <<convs, messages, answers>>
  BY <1>2 DEF Exhaust, store
<1>4. turn \in SoundTurns /\ turn.chat = turns[t].chat
  BY <1>2, MarkedAndMoved DEF Places
<1>5. turn.blurred
  <2>1. PICK m \in SoundTurns : m = Marked(turns[t], TRUE) /\ m.blurred
    BY <1>1, MarkedIsSound, MarkedFields
  <2>2. turn = Moved(m, "late")
    BY <1>2, <2>1
  <2>a. m \in SoundTurns
    BY <2>1
  <2>b. Moved(m, "late").blurred = m.blurred
    BY <2>a DEF Moved, SoundTurns, TypedTurns
  <2>3. turn.blurred = m.blurred
    BY <2>2, <2>b
  <2> QED
    BY <2>1, <2>3, Zenon
<1>6. \A a \in answers' : a \in answers
  BY <1>3
<1>7. \A c \in DOMAIN messages : messages'[c] = messages[c]
  BY <1>3
<1> HIDE DEF SoundInv, AnswersInv, EndsWith, Active, SoundTurns
<1> QED
  BY <1>1, <1>3, <1>4, <1>5, <1>6, <1>7, TurnAnswers

(* Its answer is stored late; the turn stays marked. *)
LEMMA FinishLateAnswers ==
  ASSUME SoundInv, AnswersInv, NEW t \in DOMAIN turns, NEW answer,
         FinishLate(t, answer)
  PROVE  AnswersInv'
<1>1. turns[t] \in SoundTurns /\ Active(t) /\ turns[t].at = "late"
  BY TurnsThere DEF FinishLate, Active
<1>2. PICK turn : turn = Moved(turns[t], "stored")
  OBVIOUS
<1>3. /\ turns' = [turns EXCEPT ![t] = turn] /\ UNCHANGED <<convs, answers>>
      /\ AddMessage(turns[t].chat, "assistant", t)
  BY <1>2 DEF FinishLate
<1>4. /\ turn \in SoundTurns /\ turn.chat = turns[t].chat
      /\ turn.blurred = turns[t].blurred
  BY <1>1, <1>2, MovedIsSound, OtherFields DEF Places
<1>5. turns[t].blurred
  BY <1>1 DEF AnswersInv, OwnTurns, Own
<1>6. turn.blurred
  BY <1>4, <1>5
<1>7. \A a \in answers' : a \in answers
  BY <1>3
<1>8. /\ DOMAIN messages' = DOMAIN messages
      /\ \A c \in DOMAIN messages :
           \/ messages'[c] = messages[c]
           \/ c = turns[t].chat /\ messages'[c] \in Seq(Message)
  <2>1. PICK c : c = turns[t].chat
    OBVIOUS
  <2> QED
    BY <1>3, <2>1, AddMessageFacts
<1> HIDE DEF SoundInv, AnswersInv, EndsWith, Active, SoundTurns
<1> QED
  BY <1>1, <1>3, <1>4, <1>6, <1>7, <1>8, TurnAnswers

(* The title goroutine does nothing to answers. *)
LEMMA ReadForTitleAnswers ==
  ASSUME SoundInv, AnswersInv, NEW t \in DOMAIN turns, ReadForTitle(t)
  PROVE  AnswersInv'
<1>1. turns[t] \in SoundTurns
  BY TurnsThere
<1>2. PICK turn : turn = Titled(turns[t])
  OBVIOUS
<1>3. turns' = [turns EXCEPT ![t] = turn] /\ UNCHANGED <<convs, messages, answers>>
  BY <1>2 DEF ReadForTitle, store
<1>4. /\ turn \in SoundTurns /\ turn.chat = turns[t].chat
      /\ turn.at = turns[t].at /\ turn.blurred = turns[t].blurred
  BY <1>1, <1>2, TitledIsSound, OtherFields DEF Places
<1>5. turn.at # "end" /\ ~ turn.blurred =>
        /\ turn.at \in {"loop", "reply"}
        /\ turn.at = "reply" => EndsWith(turn.chat, t)'
  BY <1>3, <1>4 DEF AnswersInv, OwnTurns, Own, Active, EndsWith
<1>6. turns[t].blurred => turn.blurred
  BY <1>4
<1>7. Active(t) \/ (turn.at = "end" /\ UNCHANGED messages)
  BY <1>3, <1>4 DEF Active
<1>8. \A a \in answers' : a \in answers
  BY <1>3
<1>9. \A c \in DOMAIN messages : messages'[c] = messages[c]
  BY <1>3
<1> HIDE DEF SoundInv, AnswersInv, EndsWith, Active, SoundTurns
<1> QED
  BY <1>3, <1>4, <1>5, <1>6, <1>7, <1>8, <1>9, TurnAnswers

(* A listing that is long enough is whole. *)
LEMMA ListingIsWhole ==
  ASSUME NEW c, messages[c] \in Seq(Message), NEW limit \in Nat,
         Len(messages[c]) <= limit
  PROVE  ListByConversation(c, limit) = messages[c]
<1>1. PICK list \in Seq(Message) : list = messages[c]
  OBVIOUS
<1>2. PICK n \in Nat : n = Len(list) /\ DOMAIN list = 1..n
  BY LenProperties
<1> HIDE DEF Message
<1>3. (IF n < limit THEN n ELSE limit) = n
  BY <1>1, <1>2
<1>4. ListByConversation(c, limit) = SubSeq(list, 1, n)
  BY <1>1, <1>2, <1>3 DEF ListByConversation
<1>5. SubSeq(list, 1, n) = list
  <2>1. \A i \in 1..n : list[i] \in Message
    BY <1>2, ElementOfSeq
  <2>2. /\ SubSeq(list, 1, n) \in Seq(Message)
        /\ Len(SubSeq(list, 1, n)) = n
        /\ \A i \in 1..n : SubSeq(list, 1, n)[i] = list[i]
    BY <1>2
  <2> QED
    BY <1>2, <2>2, SeqEqual
<1> QED
  BY <1>1, <1>4, <1>5

(* The last message of a list is the last assistant's, if it is one. *)
LEMMA LastIsFound ==
  ASSUME NEW list \in Seq(Message), NEW t, Len(list) > 0,
         list[Len(list)] = [role |-> "assistant", turn |-> t]
  PROVE  LastAssistant(list) = t
<1>1. PICK n \in Nat : n = Len(list) /\ DOMAIN list = 1..n /\ n > 0
  BY LenProperties
<1>2. PICK of : of = {i \in DOMAIN list : list[i].role \in {"assistant", "call"}}
  OBVIOUS
<1>3. n \in of /\ \A j \in of : j <= n /\ j \in Nat
  BY <1>1, <1>2
<1>4. PICK at : at = CHOOSE i \in of : \A j \in of : j <= i
  OBVIOUS
<1>5. at \in of /\ \A j \in of : j <= at
  BY <1>3, <1>4
<1>6. at = n
  <2>1. at \in Nat /\ at <= n
    BY <1>3, <1>5, Zenon
  <2>2. n <= at
    BY <1>3, <1>5, Zenon
  <2> QED
    BY <2>1, <2>2
<1>7. list[at].role = "assistant" /\ list[at].turn = t
  BY <1>1, <1>6
<1>8. LastAssistant(list) = IF of = {} \/ list[at].role = "call" THEN 0
                            ELSE list[at].turn
  BY <1>2, <1>4 DEF LastAssistant
<1> QED
  BY <1>3, <1>7, <1>8

(* The request ends: what it returns is the last message of the listing. *)
LEMMA RespondAnswers ==
  ASSUME SoundInv, AnswersInv, NEW t \in DOMAIN turns, Respond(t)
  PROVE  AnswersInv'
<1>1. PICK c : c = turns[t].chat
  OBVIOUS
<1>2. PICK turn : turn = Ended(turns[t])
  OBVIOUS
<1>3. PICK a : a = [turn |-> t,
                    of |-> LastAssistant(ListByConversation(c, MessageLimit)),
                    all |-> Len(messages[c]) <= MessageLimit]
  OBVIOUS
<1>4. /\ turns[t].at \in {"reply", "late", "stored"}
      /\ answers' = answers \union {a} /\ turns' = [turns EXCEPT ![t] = turn]
      /\ UNCHANGED <<convs, messages>>
  BY <1>1, <1>2, <1>3 DEF Respond, store
<1>5. turns[t] \in SoundTurns /\ c \in DOMAIN messages /\ Active(t)
  BY <1>1, <1>4, TurnsThere DEF Active
<1>6. turn \in SoundTurns /\ turn.chat = turns[t].chat /\ turn.at = "end"
  BY <1>2, <1>5, EndedIsSound, OtherFields DEF Places
<1>7. turn.blurred = turns[t].blurred
  BY <1>2, <1>5 DEF Ended, SoundTurns, TypedTurns
<1>8. ASSUME ~ turns[t].blurred, Len(messages[c]) <= MessageLimit
      PROVE  LastAssistant(ListByConversation(c, MessageLimit)) = t
  <2>1. EndsWith(turns[t].chat, t)
    BY <1>4, <1>5, <1>8 DEF AnswersInv, OwnTurns, Own
  <2>2. messages[c] \in Seq(Message)
    BY <1>5 DEF AnswersInv, Listings
  <2>3. ListByConversation(c, MessageLimit) = messages[c]
    BY <1>8, <2>2, ListingIsWhole, ConversationsAssumption
  <2>4. LastAssistant(messages[c]) = t
    BY <1>1, <2>1, <2>2, LastIsFound DEF EndsWith
  <2> QED
    BY <2>3, <2>4
<1>9. a.turn = t /\ (a.of = t \/ turn.blurred \/ ~ a.all)
  <2>1. CASE turns[t].blurred
    BY <1>3, <1>7, <2>1
  <2>2. CASE ~ (Len(messages[c]) <= MessageLimit)
    BY <1>3, <2>2
  <2>3. CASE ~ turns[t].blurred /\ Len(messages[c]) <= MessageLimit
    BY <1>3, <1>8, <2>3
  <2> QED
    BY <2>1, <2>2, <2>3
<1>10. \A b \in answers' :
         b \in answers \/ (b.turn = t /\ (b.of = t \/ turn.blurred \/ ~ b.all))
  BY <1>4, <1>9
<1>11. \A d \in DOMAIN messages : messages'[d] = messages[d]
  BY <1>4
<1>12. turns[t].blurred => turn.blurred
  BY <1>7
<1>13. DOMAIN messages' = DOMAIN messages
  BY <1>4
<1> HIDE DEF SoundInv, AnswersInv, EndsWith, Active, SoundTurns
<1> QED
  BY <1>4, <1>5, <1>6, <1>10, <1>11, <1>12, <1>13, TurnAnswers

(* The client of a turn leaves; nothing is returned. *)
LEMMA LeaveAnswers ==
  ASSUME SoundInv, AnswersInv, NEW t \in DOMAIN turns, Leave(t)
  PROVE  AnswersInv'
<1>1. PICK turn : turn = Ended(turns[t])
  OBVIOUS
<1>2. /\ Active(t) /\ turns' = [turns EXCEPT ![t] = turn]
      /\ UNCHANGED <<convs, messages, answers>>
  BY <1>1 DEF Leave, store
<1>3. turns[t] \in SoundTurns
  BY TurnsThere
<1>4. turn \in SoundTurns /\ turn.chat = turns[t].chat /\ turn.at = "end"
  BY <1>1, <1>3, EndedIsSound, OtherFields DEF Places
<1>5. turn.blurred = turns[t].blurred
  BY <1>1, <1>3 DEF Ended, SoundTurns, TypedTurns
<1>6. turns[t].blurred => turn.blurred
  BY <1>5
<1>7. \A b \in answers' : b \in answers
  BY <1>2
<1>8. DOMAIN messages' = DOMAIN messages
      /\ \A d \in DOMAIN messages : messages'[d] = messages[d]
  BY <1>2
<1> HIDE DEF SoundInv, AnswersInv, EndsWith, Active, SoundTurns
<1> QED
  BY <1>2, <1>4, <1>6, <1>7, <1>8, TurnAnswers

(* A new turn marks those of its conversation that are active, and is marked
   if there are any. *)
LEMMA StartAnswers ==
  ASSUME SoundInv, AnswersInv, NEW c, NEW turn \in SoundTurns, turn.chat = c,
         StartTurn(c, turn), NEW put \in Seq(Message),
         messages' = With(messages, c, put),
         DOMAIN convs' = DOMAIN convs \union {c}, UNCHANGED answers,
         ~ turn.blurred => ~ Busy(c),
         turn.at \in {"loop", "reply"},
         turn.at = "reply" /\ ~ turn.blurred =>
           /\ Len(put) > 0
           /\ put[Len(put)] = [role |-> "assistant", turn |-> Len(turns) + 1]
  PROVE  AnswersInv'
<1>1. PICK n \in Nat : n = Len(turns) /\ DOMAIN turns = 1..n
  BY TurnsThere
<1>2. PICK marked : marked = [u \in DOMAIN turns |->
                        Marked(turns[u], turns[u].chat = c /\ Active(u))]
  OBVIOUS
<1>3. ASSUME NEW u \in 1..n
      PROVE  /\ marked[u] \in SoundTurns /\ turns[u] \in SoundTurns
             /\ marked[u].chat = turns[u].chat /\ marked[u].at = turns[u].at
             /\ turns[u].blurred => marked[u].blurred
             /\ turns[u].chat = c /\ Active(u) => marked[u].blurred
  <2>1. turns[u] \in SoundTurns
    BY <1>1, TurnsThere
  <2>2. marked[u] = Marked(turns[u], turns[u].chat = c /\ Active(u))
    BY <1>1, <1>2
  <2>3. PICK old \in SoundTurns : old = turns[u]
    BY <2>1
  <2>4. PICK doubt : doubt = (old.chat = c /\ Active(u))
    OBVIOUS
  <2>5. marked[u] = Marked(old, doubt)
    BY <2>2, <2>3, <2>4
  <2>6. /\ marked[u] \in SoundTurns
        /\ marked[u].chat = old.chat /\ marked[u].at = old.at
    BY <2>5, MarkedIsSound
  <2>7. /\ old.blurred => marked[u].blurred
        /\ doubt => marked[u].blurred
    BY <2>5, MarkedFields
  <2>8. old.chat = c /\ Active(u) => marked[u].blurred
    BY <2>4, <2>7, Zenon
  <2> QED
    BY <2>3, <2>6, <2>7, <2>8
<1>4. marked \in Seq(SoundTurns) /\ Len(marked) = n
  <2>1. marked \in [1..n -> SoundTurns]
    BY <1>1, <1>2, <1>3
  <2> HIDE DEF SoundTurns
  <2>2. marked \in Seq(SoundTurns)
    BY <2>1, SeqDef
  <2> QED
    BY <2>1, <2>2, LenProperties
<1>5. turns' = Append(marked, turn) /\ n < MaxTurns
  BY <1>1, <1>2 DEF StartTurn
<1>6. /\ Len(turns') = n + 1 /\ DOMAIN turns' = 1..(n + 1)
      /\ \A u \in 1..n : turns'[u] = marked[u]
      /\ turns'[n + 1] = turn
  <2> HIDE DEF SoundTurns
  <2>1. /\ turns' \in Seq(SoundTurns) /\ Len(turns') = n + 1
        /\ \A u \in 1..n : turns'[u] = marked[u]
        /\ turns'[n + 1] = turn
    BY <1>4, <1>5, AppendProperties
  <2> QED
    BY <2>1, LenProperties
<1>7. /\ DOMAIN messages' = DOMAIN messages \union {c} /\ messages'[c] = put
      /\ \A d \in DOMAIN messages : d # c => messages'[d] = messages[d]
  BY DEF With
<1>8. Len(turns') <= MaxTurns
  BY <1>5, <1>6, ConversationsAssumption
<1>9. Listings'
  BY <1>7 DEF AnswersInv, Listings
<1>10. \A u \in 1..n : /\ Active(u)' <=> Active(u)
                       /\ turns'[u].chat = turns[u].chat
                       /\ turns'[u].at = turns[u].at
                       /\ ~ turns'[u].blurred => ~ turns[u].blurred
                       /\ ~ turns'[u].blurred /\ Active(u) => turns[u].chat # c
  BY <1>3, <1>6 DEF Active
<1>11. OwnTurns'
  <2> SUFFICES ASSUME NEW v \in 1..(n + 1), Active(v)', ~ turns'[v].blurred
               PROVE  Own(v)'
    BY <1>6 DEF OwnTurns
  <2>1. CASE v \in 1..n
    <3>1. Active(v) /\ Own(v) /\ turns[v].chat # c
      BY <1>1, <1>10, <2>1 DEF AnswersInv, OwnTurns
    <3>2. turns[v].chat \in DOMAIN messages
      BY <1>1, <2>1, TurnsThere
    <3>3. messages'[turns[v].chat] = messages[turns[v].chat]
      BY <1>7, <3>1, <3>2
    <3>4. turns'[v].at = "reply" => EndsWith(turns[v].chat, v)'
      BY <1>10, <2>1, <3>1, <3>3 DEF Own, EndsWith
    <3>5. ASSUME NEW u \in 1..(n + 1), u # v, Active(u)'
          PROVE  turns'[u].chat # turns'[v].chat
      <4>1. CASE u \in 1..n
        BY <1>1, <1>10, <2>1, <3>1, <3>5, <4>1 DEF Own
      <4>2. CASE u = n + 1
        BY <1>6, <1>10, <2>1, <3>1, <4>2
      <4> QED
        BY <1>1, <4>1, <4>2
    <3>6. turns'[v].at \in {"loop", "reply"}
      BY <1>10, <2>1, <3>1 DEF Own
    <3> QED
      BY <1>6, <1>10, <2>1, <3>4, <3>5, <3>6 DEF Own
  <2>2. CASE v = n + 1
    <3>1. turns'[v] = turn /\ ~ turn.blurred
      BY <1>6, <2>2
    <3>2. ~ Busy(c)
      BY <3>1
    <3>3. turns'[v].at = "reply" => EndsWith(c, v)'
      BY <1>1, <1>7, <2>2, <3>1 DEF EndsWith
    <3>4. ASSUME NEW u \in 1..(n + 1), u # v, Active(u)'
          PROVE  turns'[u].chat # c
      <4>1. u \in 1..n
        BY <1>1, <2>2, <3>4
      <4> QED
        BY <1>1, <1>10, <3>2, <3>4, <4>1 DEF Busy
    <3>5. turns'[v].chat = c /\ turns'[v].at \in {"loop", "reply"}
      BY <3>1
    <3> QED
      BY <1>6, <3>3, <3>4, <3>5 DEF Own
  <2> QED
    BY <1>1, <2>1, <2>2
<1>12. Answered'
  <2> SUFFICES ASSUME NEW a \in answers
               PROVE  /\ a.turn \in DOMAIN turns'
                      /\ a.of = a.turn \/ turns'[a.turn].blurred \/ ~ a.all
    BY DEF Answered
  <2>1. /\ a.turn \in 1..n
        /\ a.of = a.turn \/ turns[a.turn].blurred \/ ~ a.all
    BY <1>1 DEF AnswersInv, Answered
  <2> QED
    BY <1>1, <1>6, <1>10, <2>1
<1> QED
  BY <1>8, <1>9, <1>11, <1>12 DEF AnswersInv

(* The marks of a turn that begins. *)
LEMMA NewTurnFields ==
  ASSUME NEW c, NEW at, NEW f, NEW meta, NEW titling
  PROVE  /\ NewTurn(c, at, f, meta, titling).at = at
         /\ ~ NewTurn(c, at, f, meta, titling).blurred => ~ Busy(c)
<1>1. PICK b : b = Busy(c)
  OBVIOUS
<1>2. NewTurn(c, at, f, meta, titling) =
        [at |-> at, chat |-> c, flow |-> f, meta |-> meta,
         titling |-> titling, written |-> {}, blurred |-> b]
  BY <1>1 DEF NewTurn
<1>3. /\ NewTurn(c, at, f, meta, titling).at = at
      /\ NewTurn(c, at, f, meta, titling).blurred = b
  BY <1>2
<1> QED
  BY <1>1, <1>3, Zenon

(* A question is stored, and what answers it at once is its own. *)
LEMMA AskAnswers ==
  ASSUME SoundInv, AnswersInv, NEW c \in Chats, NEW asked, NEW words,
         NEW new \in BOOLEAN, NEW meta \in CoherentCopies,
         Ask(c, asked, meta, words, new),
         Len(turns) < MaxTurns => asked \in Seq(Message),
         DOMAIN convs' = DOMAIN convs \union {c}, UNCHANGED answers
  PROVE  AnswersInv'
<1>1. PICK n : n = Len(turns) + 1
  OBVIOUS
<1>2. CASE DetectTemporalQuery(words)
  <2>1. PICK stored \in BOOLEAN :
          /\ RespondTemporal(c, n, asked, stored)
          /\ StartTurn(c, Marked(NewTurn(c, "reply", NoFlow, meta, new), ~ stored))
    BY <1>1, <1>2 DEF Ask
  <2>2. PICK plain : plain = NewTurn(c, "reply", NoFlow, meta, new)
    OBVIOUS
  <2>3. /\ plain \in SoundTurns /\ plain.chat = c /\ plain.at = "reply"
        /\ ~ plain.blurred => ~ Busy(c)
    BY <2>2, NewTurnIsSound, NewTurnFields DEF FlowNames, Places
  <2>4. PICK turn : turn = Marked(plain, ~ stored)
    OBVIOUS
  <2>5. turn \in SoundTurns /\ turn.chat = c /\ turn.at = "reply"
    BY <2>3, <2>4, MarkedIsSound
  <2>6. /\ plain.blurred => turn.blurred
        /\ ~ stored => turn.blurred
    BY <2>3, <2>4, MarkedFields
  <2>7. /\ StartTurn(c, turn) /\ asked \in Seq(Message)
        /\ Len(turns) < MaxTurns
    BY <2>1, <2>2, <2>4 DEF StartTurn
  <2>8. PICK m \in Message : m = [role |-> "assistant", turn |-> n]
    <3>1. Len(turns) \in Nat /\ MaxTurns \in Nat
      BY TurnsThere, ConversationsAssumption
    <3>2. n \in Turns
      BY <1>1, <2>7, <3>1 DEF Turns
    <3> QED
      BY <3>2 DEF Message
  <2>9. PICK put : put = IF stored THEN Append(asked, m) ELSE asked
    OBVIOUS
  <2>10. put \in Seq(Message) /\ messages' = With(messages, c, put)
    BY <2>1, <2>7, <2>8, <2>9, AppendProperties DEF RespondTemporal
  <2>11. ~ turn.blurred => Len(put) > 0 /\ put[Len(put)] = m
    <3>1. PICK k \in Nat : k = Len(asked)
      BY <2>7, LenProperties
    <3>2. stored => Len(put) = k + 1 /\ put[k + 1] = m
      BY <2>7, <2>8, <2>9, <3>1, AppendProperties
    <3>3. stored => Len(put) > 0 /\ put[Len(put)] = m
      BY <3>1, <3>2
    <3>4. ~ turn.blurred => stored
      BY <2>6
    <3> QED
      BY <3>3, <3>4
  <2>12. ~ turn.blurred => ~ Busy(c)
    BY <2>3, <2>6
  <2>13. turn.at = "reply" /\ ~ turn.blurred =>
           /\ Len(put) > 0
           /\ put[Len(put)] = [role |-> "assistant", turn |-> Len(turns) + 1]
    BY <1>1, <2>8, <2>11
  <2> HIDE DEF SoundInv, AnswersInv, SoundTurns, Message
  <2> QED
    BY <2>5, <2>7, <2>10, <2>12, <2>13, StartAnswers
<1>3. CASE ~ DetectTemporalQuery(words)
  <2>1. messages' = With(messages, c, asked)
    BY <1>3 DEF Ask
  <2>2. PICK named \in Named :
          \E f \in ActiveFlows(meta, named, words, Len(asked)) :
            StartTurn(c, NewTurn(c, "loop", f, meta, new))
    BY <1>3 DEF Ask
  <2>3. PICK f \in ActiveFlows(meta, named, words, Len(asked)) :
          StartTurn(c, NewTurn(c, "loop", f, meta, new))
    BY <2>2
  <2>4. f \in FlowNames /\ (meta.flow # NoFlow => f = meta.flow)
    BY ActiveFlowIsNamed
  <2>5. PICK turn : turn = NewTurn(c, "loop", f, meta, new)
    OBVIOUS
  <2>6. /\ turn \in SoundTurns /\ turn.chat = c /\ turn.at = "loop"
        /\ ~ turn.blurred => ~ Busy(c)
    BY <2>4, <2>5, NewTurnIsSound, NewTurnFields DEF Places
  <2>7. StartTurn(c, turn) /\ asked \in Seq(Message)
    BY <2>3, <2>5 DEF StartTurn
  <2> HIDE DEF SoundInv, AnswersInv, SoundTurns, Message
  <2>8. turn.at \in {"loop", "reply"} /\ turn.at # "reply"
    BY <2>6
  <2> QED
    BY <2>1, <2>6, <2>7, <2>8, StartAnswers
<1> QED
  BY <1>2, <1>3

(* The question itself is a message. *)
LEMMA QuestionIsMessage ==
  ASSUME SoundInv, AnswersInv, Len(turns) < MaxTurns
  PROVE  Question \in Message
<1>1. Len(turns) \in Nat /\ MaxTurns \in Nat
  BY TurnsThere, ConversationsAssumption
<1>2. Len(turns) + 1 \in Turns
  BY <1>1 DEF Turns
<1> QED
  BY <1>2 DEF Question, Message

(* Every step keeps AnswersInv. *)
LEMMA NextAnswers ==
  SoundInv /\ AnswersInv /\ [Next]_vars => AnswersInv'
<1> SUFFICES ASSUME SoundInv, AnswersInv, [Next]_vars PROVE AnswersInv'
  OBVIOUS
<1>1. CASE ChatStep
  <2> PICK c \in Chats, words \in Questions :
        ChatInNew(c, words) \/ ChatInOld(c, words)
    BY <1>1 DEF ChatStep
  <2>1. CASE ChatInNew(c, words)
    <3>1. /\ Create(c, NewConversation(Excerpt)) /\ UNCHANGED answers
          /\ Ask(c, <<Question>>, NoMetadata, words, TRUE)
      BY <2>1 DEF ChatInNew
    <3>2. DOMAIN convs' = DOMAIN convs \union {c}
      BY <3>1, CreateKeeps DEF SoundInv
    <3>a. PICK asked : asked = <<Question>>
      OBVIOUS
    <3>b. PICK yes \in BOOLEAN : yes = TRUE
      OBVIOUS
    <3>3. asked = <<Question>> /\ yes = TRUE
      BY <3>a, <3>b
    <3>4. Len(turns) < MaxTurns => asked \in Seq(Message)
      <4>1. SUFFICES ASSUME Len(turns) < MaxTurns PROVE asked \in Seq(Message)
        OBVIOUS
      <4>2. PICK m \in Message : m = Question
        BY <4>1, QuestionIsMessage
      <4>3. asked = <<m>>
        BY <3>3, <4>2
      <4> HIDE DEF Message
      <4> QED
        BY <4>3
    <3>5. Ask(c, asked, NoMetadata, words, yes)
      BY <3>1, <3>3
    <3> QED
      BY <3>1, <3>2, <3>4, <3>5, NoMetadataIsCoherent, AskAnswers
  <2>2. CASE ChatInOld(c, words)
    <3>1. /\ c \in DOMAIN convs /\ UNCHANGED <<convs, answers>>
          /\ Ask(c, Append(messages[c], Question), convs[c].meta, words, FALSE)
      BY <2>2 DEF ChatInOld, GetByID
    <3>2. convs[c].meta \in CoherentCopies
      BY <3>1 DEF SoundInv, RowsInv
    <3>a. PICK asked : asked = Append(messages[c], Question)
      OBVIOUS
    <3>b. PICK meta \in CoherentCopies : meta = convs[c].meta
      BY <3>2
    <3>c. PICK no \in BOOLEAN : no = FALSE
      OBVIOUS
    <3>3. /\ asked = Append(messages[c], Question) /\ meta = convs[c].meta
          /\ no = FALSE
      BY <3>a, <3>b, <3>c
    <3>4. Len(turns) < MaxTurns => asked \in Seq(Message)
      <4>1. messages[c] \in Seq(Message)
        BY <3>1 DEF AnswersInv, Listings
      <4> QED
        BY <3>3, <4>1, QuestionIsMessage, AppendProperties
    <3>5. Ask(c, asked, meta, words, no)
      BY <3>1, <3>3
    <3>6. DOMAIN convs' = DOMAIN convs \union {c}
      BY <3>1
    <3> QED
      BY <3>1, <3>4, <3>5, <3>6, AskAnswers
  <2> QED
    BY <2>1, <2>2
<1>2. CASE TurnStep
  BY <1>2, CallToolAnswers, ExhaustAnswers, ReadForTitleAnswers, RespondAnswers,
     LeaveAnswers, FinishAnswers, FinishLateAnswers DEF TurnStep
<1>3. CASE WriteStep
  <2> PICK w \in writers : Write(w) \/ WriteFails(w)
    BY <1>3 DEF WriteStep
  <2>1. UNCHANGED <<turns, answers, messages>>
    BY DEF Write, WriteFails, store
  <2>2. DOMAIN convs' = DOMAIN convs
    <3>1. CASE Write(w)
      <4>1. Update(w.chat, w.read, w.sets)
        BY <3>1 DEF Write, UpdateConversationTitle, UpdateConversationMetadata,
                    UpdateConversation
      <4> QED
        BY <4>1 DEF Update
    <3>2. CASE WriteFails(w)
      BY <3>2 DEF WriteFails, store
    <3> QED
      BY <3>1, <3>2
  <2> QED
    BY <2>1, <2>2, NoTurnAnswers DEF AnswersInv, Listings
<1>4. CASE EditStep
  <2> PICK c \in Chats :
        \/ \E title \in Titles : HandleCreateChat(c, title)
        \/ \E sets \in Patches : HandleUpdateConversation(c, sets)
        \/ HandleDeleteConversation(c)
        \/ \E name \in Names : HandleCreateArtifact(c, name)
    BY <1>4 DEF EditStep
  <2>1. ASSUME NEW title \in Titles, HandleCreateChat(c, title)
        PROVE  AnswersInv'
    <3>1. /\ Create(c, NewConversation(title)) /\ UNCHANGED <<turns, answers>>
          /\ messages' = With(messages, c, <<>>)
      BY <2>1 DEF HandleCreateChat
    <3>2. DOMAIN convs' = DOMAIN convs \union {c} /\ c \notin DOMAIN convs
      BY <3>1, CreateKeeps DEF SoundInv, Create, GetByID
    <3>3. /\ DOMAIN messages' = DOMAIN messages \union {c}
          /\ messages'[c] = <<>>
          /\ \A d \in DOMAIN messages : d # c => messages'[d] = messages[d]
      BY <3>1 DEF With
    <3>4. DOMAIN messages = DOMAIN convs
      BY DEF AnswersInv, Listings
    <3>5. /\ DOMAIN messages' = DOMAIN convs'
          /\ \A d \in DOMAIN messages : d \in DOMAIN messages'
                                        /\ messages'[d] = messages[d]
      BY <3>2, <3>3, <3>4
    <3>6. \A d \in DOMAIN messages' \ DOMAIN messages :
            messages'[d] \in Seq(Message)
      <4> HIDE DEF Message
      <4>1. <<>> \in Seq(Message)
        OBVIOUS
      <4> QED
        BY <3>3, <4>1
    <3> QED
      BY <3>1, <3>5, <3>6, NoTurnAnswers
  <2>2. CASE HandleDeleteConversation(c)
    <3>1. DOMAIN convs' = DOMAIN convs /\ UNCHANGED <<turns, answers, messages>>
      BY <2>2 DEF HandleDeleteConversation, Delete
    <3> QED
      BY <3>1, NoTurnAnswers DEF AnswersInv, Listings
  <2>3. ASSUME \/ \E sets \in Patches : HandleUpdateConversation(c, sets)
               \/ \E name \in Names : HandleCreateArtifact(c, name)
        PROVE  AnswersInv'
    <3>1. UNCHANGED <<turns, answers, messages, convs>>
      BY <2>3 DEF HandleUpdateConversation, HandleCreateArtifact, store
    <3> QED
      BY <3>1, NoTurnAnswers DEF AnswersInv, Listings
  <2> QED
    BY <2>1, <2>2, <2>3
<1>5. CASE UNCHANGED vars
  BY <1>5, NoTurnAnswers DEF vars, AnswersInv, Listings
<1> QED
  BY <1>1, <1>2, <1>3, <1>4, <1>5 DEF Next

(* AnswersInv is inductive, given that the turns are sound. *)
THEOREM AnswersStayOwn == Spec => []AnswersInv
<1>1. Init => AnswersInv
  BY ConversationsAssumption
     DEF Init, AnswersInv, Listings, OwnTurns, Answered
<1> QED
  BY <1>1, NextAnswers, ConversationsAreSound, PTL DEF Spec

(* A request is answered with its own turn's answer, unless its turn was
   marked or the listing was cut (chat.go:454-467). *)
THEOREM RequestsGetTheirAnswers == Spec => []AnswerIsOwn
<1>1. AnswersInv => AnswerIsOwn
  BY DEF AnswersInv, Answered, AnswerIsOwn
<1> QED
  BY <1>1, AnswersStayOwn, PTL

-----------------------------------------------------------------------------
(* The types.  A flow counts at most one step a turn: a turn's copy has fewer
   than the turns there are, a row no more. *)
TypedRow(row, n) ==
  /\ row \in [title : AllTitles, status : Statuses, meta : CoherentCopies]
  /\ row.meta.step <= n

TypedWriter(w) ==
  /\ TypedRow(w.read, Len(turns))
  /\ "title" \in DOMAIN w.sets => w.sets.title \in AllTitles
  /\ "status" \in DOMAIN w.sets => w.sets.status \in Statuses
  /\ "meta" \in DOMAIN w.sets =>
       w.sets.meta \in CoherentCopies /\ w.sets.meta.step <= Len(turns)

TypesInv ==
  /\ edits \in 0..MaxEdits
  /\ artifacts \subseteq [chat : Chats, name : Names]
  /\ DOMAIN convs \subseteq Chats
  /\ \A c \in DOMAIN convs :
       TypedRow(convs[c], Len(turns)) /\ lost[c] \subseteq Columns
  /\ \A t \in DOMAIN turns : turns[t].meta.step < t
  /\ \A w \in writers : TypedWriter(w)

(* A flow counts at most one step an update. *)
LEMMA StepsOfUpdate ==
  ASSUME NEW meta \in CoherentCopies, NEW answer \in Answer, NEW f \in Registered
  PROVE  UpdateState(f, meta, answer).step \in {meta.step, meta.step + 1}
<1> USE DEF CoherentCopies, Copies
<1>1. CASE f = Onboarding
  <2>1. UpdateState(f, meta, answer) = UpdateOnboarding(meta, answer)
    BY <1>1 DEF UpdateState, Onboarding, Proposal, Contract, CodeReview,
                APIIntegration
  <2>2. PICK named : named = [meta EXCEPT !.flow = Onboarding]
    OBVIOUS
  <2>3. named.step = meta.step /\ "step" \in DOMAIN named
    BY <2>2
  <2>4. PICK n : n = named.step + 1
    OBVIOUS
  <2>5. [named EXCEPT !.step = n].step = n
    BY <2>3
  <2>6. UpdateOnboarding(meta, answer) =
          IF answer.asks THEN [named EXCEPT !.step = n] ELSE named
    BY <2>2, <2>4 DEF UpdateOnboarding
  <2> QED
    BY <2>1, <2>3, <2>4, <2>5, <2>6
<1>2. CASE f \in {Proposal, Contract, CodeReview}
  <2>1. UpdateState(f, meta, answer) = [meta EXCEPT !.flow = f]
    BY <1>2 DEF UpdateState, UpdateProposal, UpdateContract, UpdateCodeReview,
                Onboarding, Proposal, Contract, CodeReview, APIIntegration
  <2> QED
    BY <2>1
<1>3. CASE f = APIIntegration
  <2>1. UpdateState(f, meta, answer) = UpdateAPIIntegration(meta, answer)
    BY <1>3 DEF UpdateState, Onboarding, Proposal, Contract, CodeReview,
                APIIntegration
  <2> QED
    BY <2>1 DEF UpdateAPIIntegration, saveState
<1> QED
  BY <1>1, <1>2, <1>3 DEF Registered

(* So what a turn leaves has at most one step more than its copy. *)
LEMMA StepsOfTurn ==
  ASSUME SoundInv, TypesInv, AnswersInv, NEW t \in DOMAIN turns,
         turns[t].flow # NoFlow, NEW answer \in Answer
  PROVE  NextMetadata(t, answer).step <= Len(turns)
<1>1. PICK meta, next : /\ meta = turns[t].meta
                        /\ next = UpdateState(turns[t].flow, meta, answer)
  OBVIOUS
<1>2. turns[t].flow \in Registered /\ meta \in CoherentCopies
  BY <1>1, TurnIsSound DEF SoundTurns, TypedTurns, FlowNames
<1>3. next.step \in {meta.step, meta.step + 1}
  BY <1>1, <1>2, StepsOfUpdate
<1>4. NextMetadata(t, answer).step = next.step
  <2>1. \A files : AddRealDeliverables(next, files).step = next.step
    BY DEF AddRealDeliverables, saveState
  <2>2. NextMetadata(t, answer) =
          IF turns[t].flow = APIIntegration /\ turns[t].written # {}
          THEN AddRealDeliverables(next, turns[t].written) ELSE next
    BY <1>1 DEF NextMetadata
  <2> QED
    BY <2>1, <2>2
<1>5. meta.step \in Nat /\ meta.step < t
  BY <1>1, <1>2, CopyFields DEF TypesInv
<1>6. t \in 1..Len(turns) /\ Len(turns) \in Nat
  BY TurnsThere
<1> QED
  BY <1>3, <1>4, <1>5, <1>6

(* A row has as many steps as there are turns, or fewer, when there are more. *)
LEMMA MoreTurns ==
  ASSUME NEW row, NEW m \in Nat, NEW n \in Nat, m <= n, TypedRow(row, m)
  PROVE  TypedRow(row, n)
<1>1. row.meta \in CoherentCopies
  BY DEF TypedRow
<1>2. row.meta.step \in Nat
  BY <1>1, CopyFields
<1> QED
  BY <1>2 DEF TypedRow

(* A writer stays typed when turns are added. *)
LEMMA WriterTyped ==
  ASSUME NEW w, TypedWriter(w), Len(turns) \in Nat, Len(turns)' \in Nat,
         Len(turns) <= Len(turns')
  PROVE  TypedWriter(w)'
<1>1. TypedRow(w.read, Len(turns'))
  BY MoreTurns DEF TypedWriter
<1>2. ASSUME "meta" \in DOMAIN w.sets
      PROVE  w.sets.meta \in CoherentCopies /\ w.sets.meta.step <= Len(turns')
  <2>1. w.sets.meta \in CoherentCopies /\ w.sets.meta.step <= Len(turns)
    BY <1>2 DEF TypedWriter
  <2>2. w.sets.meta.step \in Nat
    BY <2>1, CopyFields
  <2> QED
    BY <2>1, <2>2
<1> QED
  BY <1>1, <1>2 DEF TypedWriter

(* What a step leaves alone stays typed when turns are added. *)
LEMMA TypesMove ==
  ASSUME TypesInv, Len(turns) \in Nat, Len(turns)' \in Nat,
         Len(turns) <= Len(turns'),
         \A t \in DOMAIN turns' : turns'[t].meta.step < t,
         edits' \in 0..MaxEdits,
         artifacts' \subseteq [chat : Chats, name : Names],
         DOMAIN convs' \subseteq Chats,
         \A c \in DOMAIN convs' :
           \/ c \in DOMAIN convs /\ convs'[c] = convs[c] /\ lost'[c] = lost[c]
           \/ TypedRow(convs'[c], Len(turns)) /\ lost'[c] \subseteq Columns,
         \A w \in writers' : w \in writers \/ TypedWriter(w)
  PROVE  TypesInv'
<1>1. \A w \in writers' : TypedWriter(w)'
  BY WriterTyped DEF TypesInv
<1>2. \A c \in DOMAIN convs' :
        TypedRow(convs'[c], Len(turns)) /\ lost'[c] \subseteq Columns
  BY DEF TypesInv
<1>3. \A c \in DOMAIN convs' : TypedRow(convs'[c], Len(turns'))
  BY <1>2, MoreTurns
<1> QED
  BY <1>1, <1>2, <1>3 DEF TypesInv

(* A step that changes no turn's copy but to none at all. *)
LEMMA TypesOfTurn ==
  ASSUME SoundInv, AnswersInv, TypesInv, NEW t \in DOMAIN turns, NEW turn,
         turns' = [turns EXCEPT ![t] = turn],
         turn.meta = turns[t].meta \/ turn.meta = NoMetadata,
         UNCHANGED <<convs, lost, edits>>,
         artifacts' \subseteq [chat : Chats, name : Names],
         \A w \in writers' : w \in writers \/ TypedWriter(w)
  PROVE  TypesInv'
<1>1. /\ Len(turns) \in Nat /\ DOMAIN turns = 1..Len(turns)
      /\ turns \in Seq(SoundTurns)
  BY TurnsThere DEF SoundInv, TurnsInv
<1>2. /\ DOMAIN turns' = DOMAIN turns /\ turns'[t] = turn
      /\ \A u \in DOMAIN turns : u # t => turns'[u] = turns[u]
  OBVIOUS
<1>3. Len(turns') = Len(turns)
  <2>1. PICK n \in Nat : n = Len(turns)
    BY <1>1
  <2>2. PICK S : S = {turns[u] : u \in DOMAIN turns} \union {turn}
    OBVIOUS
  <2>3. PICK next : next = turns'
    OBVIOUS
  <2>4. next \in [1..n -> S]
    BY <1>1, <1>2, <2>1, <2>2, <2>3
  <2>5. next \in Seq(S)
    BY <2>4, SeqDef
  <2>6. Len(next) = n
    BY <2>4, <2>5, LenProperties
  <2> QED
    BY <2>1, <2>3, <2>6
<1>4. \A u \in DOMAIN turns' : turns'[u].meta.step < u
  <2>1. NoMetadata.step = 0
    BY DEF NoMetadata
  <2>2. \A u \in DOMAIN turns : 0 < u
    BY <1>1
  <2>3. \A u \in DOMAIN turns : turns[u].meta.step < u
    BY DEF TypesInv
  <2> QED
    BY <1>2, <2>1, <2>2, <2>3
<1>5. edits' \in 0..MaxEdits /\ DOMAIN convs' \subseteq Chats
  BY DEF TypesInv
<1> HIDE DEF TypesInv
<1> QED
  BY <1>1, <1>3, <1>4, <1>5, TypesMove

(* Whoever reads a row has a typed one. *)
LEMMA ReaderTyped ==
  ASSUME TypesInv, NEW c \in DOMAIN convs, NEW kind, NEW t, NEW sets,
         "title" \in DOMAIN sets => sets.title \in AllTitles,
         "status" \in DOMAIN sets => sets.status \in Statuses,
         "meta" \in DOMAIN sets =>
           sets.meta \in CoherentCopies /\ sets.meta.step <= Len(turns)
  PROVE  TypedWriter(Writer(kind, t, c, sets))
<1>1. PICK w : w = Writer(kind, t, c, sets)
  OBVIOUS
<1>2. w.read = convs[c] /\ w.sets = sets
  BY <1>1 DEF Writer
<1>3. TypedRow(w.read, Len(turns))
  BY <1>2 DEF TypesInv
<1>4. TypedWriter(w)
  BY <1>2, <1>3 DEF TypedWriter
<1> QED
  BY <1>1, <1>4

(* What a turn sets has at most one step more than the turn's copy. *)
LEMMA MetadataTyped ==
  ASSUME SoundInv, AnswersInv, TypesInv, NEW t \in DOMAIN turns,
         NEW answer \in Answer, ReadForMetadata(t, answer)
  PROVE  \A w \in writers' : w \in writers \/ TypedWriter(w)
<1>1. CASE turns[t].flow = NoFlow
  BY <1>1 DEF ReadForMetadata
<1>2. CASE turns[t].flow # NoFlow
  <2>1. PICK meta : meta = NextMetadata(t, answer)
    OBVIOUS
  <2>2. meta \in CoherentCopies /\ meta.step <= Len(turns)
    BY <1>2, <2>1, LeftMetadata, StepsOfTurn
  <2>3. PICK sets : sets = [meta |-> meta]
    OBVIOUS
  <2>4. DOMAIN sets = {"meta"} /\ sets.meta = meta
    BY <2>3
  <2>5. writers' = writers \union {Writer("metadata", t, turns[t].chat, sets)}
    BY <1>2, <2>1, <2>3 DEF ReadForMetadata
  <2>6. turns[t].chat \in DOMAIN convs
    BY TurnsThere
  <2>7. TypedWriter(Writer("metadata", t, turns[t].chat, sets))
    BY <2>2, <2>4, <2>6, ReaderTyped
  <2> QED
    BY <2>5, <2>7
<1> QED
  BY <1>1, <1>2

(* A file's artifact belongs to a conversation there is. *)
LEMMA CallToolTypes ==
  ASSUME SoundInv, AnswersInv, TypesInv, NEW t \in DOMAIN turns, CallTool(t)
  PROVE  TypesInv'
<1>1. /\ UNCHANGED <<convs, lost, edits, writers>>
      /\ \/ UNCHANGED turns
         \/ \E name \in Names : turns' = [turns EXCEPT ![t] = Wrote(turns[t], name)]
  BY DEF CallTool, history
<1>2. artifacts' \subseteq [chat : Chats, name : Names]
  <2>1. \/ UNCHANGED artifacts
        \/ \E name \in Names, chat \in DOMAIN convs : CreateArtifact(chat, name)
    BY DEF CallTool, FileWrite, ReadFile
  <2>2. DOMAIN convs \subseteq Chats
    BY DEF TypesInv
  <2> QED
    BY <2>1, <2>2 DEF CreateArtifact, TypesInv
<1>3. PICK turn : /\ turn.meta = turns[t].meta
                  /\ turns' = [turns EXCEPT ![t] = turn]
  <2>1. CASE UNCHANGED turns
    <3>1. turns = [turns EXCEPT ![t] = turns[t]]
      BY DEF SoundInv, TurnsInv
    <3> QED
      BY <2>1, <3>1
  <2>2. ASSUME NEW name \in Names,
               turns' = [turns EXCEPT ![t] = Wrote(turns[t], name)]
        PROVE  \E turn : /\ turn.meta = turns[t].meta
                         /\ turns' = [turns EXCEPT ![t] = turn]
    <3>1. Wrote(turns[t], name).meta = turns[t].meta
      BY TurnIsSound, WroteIsSound
    <3> QED
      BY <2>2, <3>1
  <2> QED
    BY <1>1, <2>1, <2>2
<1>4. \A w \in writers' : w \in writers
  BY <1>1
<1> HIDE DEF SoundInv, AnswersInv, TypesInv
<1> QED
  BY <1>1, <1>2, <1>3, <1>4, TypesOfTurn

(* The other steps of a turn make no artifact. *)
LEMMA TurnStepTypes ==
  ASSUME SoundInv, AnswersInv, TypesInv, NEW t \in DOMAIN turns,
         \/ Exhaust(t) \/ ReadForTitle(t) \/ Respond(t) \/ Leave(t)
         \/ \E answer \in Answers : Finish(t, answer) \/ FinishLate(t, answer)
  PROVE  TypesInv'
<1>1. turns[t] \in SoundTurns /\ turns[t].chat \in DOMAIN convs
  BY TurnsThere
<1>2. UNCHANGED <<convs, lost, edits, artifacts>>
  BY DEF Exhaust, ReadForTitle, Respond, Leave, Finish, FinishLate, store, history
<1>3. artifacts' \subseteq [chat : Chats, name : Names]
  BY <1>2 DEF TypesInv
<1>4. PICK turn : /\ turn.meta = turns[t].meta \/ turn.meta = NoMetadata
                  /\ turns' = [turns EXCEPT ![t] = turn]
  <2>1. CASE Exhaust(t)
    <3>1. turns' = [turns EXCEPT ![t] = Moved(Marked(turns[t], TRUE), "late")]
      BY <2>1 DEF Exhaust
    <3> QED
      BY <3>1, MarkedAndMoved DEF Places
  <2>2. CASE ReadForTitle(t)
    <3>1. turns' = [turns EXCEPT ![t] = Titled(turns[t])]
      BY <2>2 DEF ReadForTitle
    <3> QED
      BY <1>1, <3>1, TitledIsSound
  <2>3. CASE Respond(t) \/ Leave(t)
    <3>1. turns' = [turns EXCEPT ![t] = Ended(turns[t])]
      BY <2>3 DEF Respond, Leave
    <3> QED
      BY <1>1, <3>1, EndedIsSound
  <2>4. ASSUME NEW answer \in Answers, Finish(t, answer)
        PROVE  \E turn : /\ turn.meta = turns[t].meta
                         /\ turns' = [turns EXCEPT ![t] = turn]
    <3>1. PICK stored \in BOOLEAN :
            turns' = [turns EXCEPT ![t] = Moved(Marked(turns[t], ~ stored), "reply")]
      BY <2>4 DEF Finish
    <3> QED
      BY <3>1, MarkedAndMoved DEF Places
  <2>5. ASSUME NEW answer \in Answers, FinishLate(t, answer)
        PROVE  \E turn : /\ turn.meta = turns[t].meta
                         /\ turns' = [turns EXCEPT ![t] = turn]
    <3>1. turns' = [turns EXCEPT ![t] = Moved(turns[t], "stored")]
      BY <2>5 DEF FinishLate
    <3> QED
      BY <1>1, <3>1, MovedIsSound DEF Places
  <2> QED
    BY <2>1, <2>2, <2>3, <2>4, <2>5
<1>5. \A w \in writers' : w \in writers \/ TypedWriter(w)
  <2>1. CASE Exhaust(t) \/ Respond(t) \/ Leave(t)
    BY <2>1 DEF Exhaust, Respond, Leave
  <2>2. CASE ReadForTitle(t)
    <3>1. PICK sets : sets = [title |-> Generated]
      OBVIOUS
    <3>2. DOMAIN sets = {"title"} /\ sets.title = Generated
      BY <3>1
    <3>3. Generated \in AllTitles
      BY DEF AllTitles
    <3>4. writers' = writers \union {Writer("title", t, turns[t].chat, sets)}
      BY <2>2, <3>1 DEF ReadForTitle
    <3>5. TypedWriter(Writer("title", t, turns[t].chat, sets))
      BY <1>1, <3>2, <3>3, ReaderTyped
    <3> QED
      BY <3>4, <3>5
  <2>3. ASSUME NEW answer \in Answers, Finish(t, answer)
        PROVE  \A w \in writers' : w \in writers \/ TypedWriter(w)
    <3>1. answer \in Answer /\ ReadForMetadata(t, answer)
      BY <2>3, ConversationsAssumption DEF Finish
    <3> QED
      BY <3>1, MetadataTyped
  <2>4. ASSUME NEW answer \in Answers, FinishLate(t, answer)
        PROVE  \A w \in writers' : w \in writers \/ TypedWriter(w)
    <3>1. PICK shown : shown = [answer EXCEPT !.block = "none"]
      OBVIOUS
    <3>2. answer \in Answer
      BY ConversationsAssumption
    <3>3. shown \in Answer
      BY <3>1, <3>2 DEF Answer
    <3>4. ReadForMetadata(t, shown)
      BY <2>4, <3>1 DEF FinishLate
    <3> QED
      BY <3>3, <3>4, MetadataTyped
  <2> QED
    BY <2>1, <2>2, <2>3, <2>4
<1> HIDE DEF SoundInv, AnswersInv, TypesInv, TypedWriter
<1> QED
  BY <1>2, <1>3, <1>4, <1>5, TypesOfTurn

(* A row is made of its three columns. *)
LEMMA RowOfColumns ==
  ASSUME NEW n, NEW title \in AllTitles, NEW status \in Statuses,
         NEW meta \in CoherentCopies, meta.step <= n,
         NEW row, row = [k \in Columns |-> row[k]], row["title"] = title,
         row["status"] = status, row["meta"] = meta
  PROVE  TypedRow(row, n)
<1>1. PICK same : same = [title |-> title, status |-> status, meta |-> meta]
  OBVIOUS
<1>2. row = same
  BY <1>1 DEF Columns
<1>3. same \in [title : AllTitles, status : Statuses, meta : CoherentCopies]
  BY <1>1
<1>4. same.meta.step <= n
  BY <1>1
<1> QED
  BY <1>2, <1>3, <1>4 DEF TypedRow

(* What Update writes is a row. *)
LEMMA UpdateTypes ==
  ASSUME SoundInv, AnswersInv, TypesInv, LastInv, NEW w \in writers,
         Update(w.chat, w.read, w.sets)
  PROVE  /\ DOMAIN convs' = DOMAIN convs
         /\ \A c \in DOMAIN convs :
              \/ convs'[c] = convs[c] /\ lost'[c] = lost[c]
              \/ TypedRow(convs'[c], Len(turns)) /\ lost'[c] \subseteq Columns
<1>1. PICK c, sets, read : c = w.chat /\ sets = w.sets /\ read = w.read
  OBVIOUS
<1>2. PICK row : row = [k \in Columns |-> IF k \in DOMAIN sets THEN sets[k]
                                                              ELSE read[k]]
  OBVIOUS
<1>3. PICK old : old = {k \in Columns \ DOMAIN sets : convs[c][k] # read[k]}
  OBVIOUS
<1>4. c \in DOMAIN convs /\ c \in DOMAIN lost /\ lost[c] \subseteq Columns
  BY <1>1 DEF SoundInv, WritersInv, SoundWriter, LastInv, TypesInv
<1>5. /\ convs' = [convs EXCEPT ![c] = row]
      /\ lost' = [lost EXCEPT ![c] = (lost[c] \ DOMAIN sets) \union old]
  BY <1>1, <1>2, <1>3 DEF Update
<1>6. TypedWriter(w)
  BY DEF TypesInv
<1>7. TypedRow(row, Len(turns))
  <2>1. PICK title, status, meta : /\ title = row["title"] /\ status = row["status"]
                                   /\ meta = row["meta"]
    OBVIOUS
  <2>2. /\ title = IF "title" \in DOMAIN sets THEN sets.title ELSE read.title
        /\ status = IF "status" \in DOMAIN sets THEN sets.status ELSE read.status
        /\ meta = IF "meta" \in DOMAIN sets THEN sets.meta ELSE read.meta
        /\ row = [k \in Columns |-> row[k]]
    BY <1>2, <2>1 DEF Columns
  <2>3. /\ read.title \in AllTitles /\ read.status \in Statuses
        /\ read.meta \in CoherentCopies /\ read.meta.step <= Len(turns)
    BY <1>1, <1>6 DEF TypedWriter, TypedRow
  <2>4. title \in AllTitles /\ status \in Statuses
    BY <1>1, <1>6, <2>2, <2>3 DEF TypedWriter
  <2>5. meta \in CoherentCopies /\ meta.step <= Len(turns)
    BY <1>1, <1>6, <2>2, <2>3 DEF TypedWriter
  <2> HIDE DEF AllTitles, Statuses, CoherentCopies, TypedRow, TypesInv, SoundInv
  <2> QED
    BY <2>1, <2>2, <2>4, <2>5, RowOfColumns
<1>8. (lost[c] \ DOMAIN sets) \union old \subseteq Columns
  BY <1>3, <1>4
<1> HIDE DEF TypedRow
<1> QED
  BY <1>4, <1>5, <1>7, <1>8

(* A step that no turn takes. *)
LEMMA RowsTyped ==
  ASSUME SoundInv, AnswersInv, TypesInv, UNCHANGED turns,
         edits' \in 0..MaxEdits,
         artifacts' \subseteq [chat : Chats, name : Names],
         DOMAIN convs' \subseteq Chats,
         \A c \in DOMAIN convs' :
           \/ c \in DOMAIN convs /\ convs'[c] = convs[c] /\ lost'[c] = lost[c]
           \/ TypedRow(convs'[c], Len(turns)) /\ lost'[c] \subseteq Columns,
         \A w \in writers' : w \in writers \/ TypedWriter(w)
  PROVE  TypesInv'
<1>1. Len(turns) \in Nat /\ Len(turns') = Len(turns)
  BY TurnsThere
<1>2. \A t \in DOMAIN turns' : turns'[t].meta.step < t
  BY DEF TypesInv
<1> HIDE DEF TypesInv, SoundInv, AnswersInv, TypedRow, TypedWriter
<1> QED
  BY <1>1, <1>2, TypesMove

(* A conversation that is made begins with a typed row. *)
LEMMA CreateTypes ==
  ASSUME LastInv, TypesInv, NEW c \in Chats, NEW title \in AllTitles,
         NEW n \in Nat, Create(c, NewConversation(title))
  PROVE  /\ DOMAIN convs' \subseteq Chats
         /\ \A d \in DOMAIN convs' :
              \/ d \in DOMAIN convs /\ convs'[d] = convs[d] /\ lost'[d] = lost[d]
              \/ TypedRow(convs'[d], n) /\ lost'[d] \subseteq Columns
<1>1. PICK row : row = NewConversation(title)
  OBVIOUS
<1>2. TypedRow(row, n)
  <2>1. row = [title |-> title, status |-> "active", meta |-> NoMetadata]
    BY <1>1 DEF NewConversation
  <2>2. NoMetadata \in CoherentCopies /\ NoMetadata.step = 0
    BY NoMetadataIsCoherent DEF NoMetadata
  <2> HIDE DEF NoMetadata, CoherentCopies
  <2> QED
    BY <2>1, <2>2 DEF TypedRow, Statuses
<1>3. /\ convs' = [d \in DOMAIN convs \union {c} |->
                     IF d = c THEN row ELSE convs[d]]
      /\ lost' = [d \in DOMAIN lost \union {c} |->
                    IF d = c THEN {} ELSE lost[d]]
      /\ c \notin DOMAIN convs
  BY <1>1 DEF Create, With, GetByID
<1>4. DOMAIN lost = DOMAIN convs /\ DOMAIN convs \subseteq Chats
  BY DEF LastInv, TypesInv
<1> HIDE DEF TypedRow
<1> QED
  BY <1>2, <1>3, <1>4

(* A question adds a turn whose copy has no more steps than there were turns. *)
LEMMA StartTypes ==
  ASSUME SoundInv, AnswersInv, TypesInv, NEW c, NEW turn \in SoundTurns,
         StartTurn(c, turn), turn.meta.step <= Len(turns)
  PROVE  /\ Len(turns)' \in Nat /\ Len(turns) <= Len(turns')
         /\ \A t \in DOMAIN turns' : turns'[t].meta.step < t
<1>1. PICK n \in Nat : n = Len(turns) /\ DOMAIN turns = 1..n
  BY TurnsThere
<1>2. PICK marked : marked = [u \in DOMAIN turns |->
                        Marked(turns[u], turns[u].chat = c /\ Active(u))]
  OBVIOUS
<1>3. ASSUME NEW u \in 1..n
      PROVE  marked[u] \in SoundTurns /\ marked[u].meta = turns[u].meta
  BY <1>1, <1>2, TurnsThere, MarkedIsSound
<1>4. marked \in Seq(SoundTurns) /\ Len(marked) = n
  <2>1. marked \in [1..n -> SoundTurns]
    BY <1>1, <1>2, <1>3
  <2> HIDE DEF SoundTurns
  <2>2. marked \in Seq(SoundTurns)
    BY <2>1, SeqDef
  <2> QED
    BY <2>1, <2>2, LenProperties
<1>5. turns' = Append(marked, turn)
  BY <1>2 DEF StartTurn
<1>6. /\ Len(turns') = n + 1 /\ DOMAIN turns' = 1..(n + 1)
      /\ \A u \in 1..n : turns'[u] = marked[u]
      /\ turns'[n + 1] = turn
  <2> HIDE DEF SoundTurns
  <2>1. /\ turns' \in Seq(SoundTurns) /\ Len(turns') = n + 1
        /\ \A u \in 1..n : turns'[u] = marked[u]
        /\ turns'[n + 1] = turn
    BY <1>4, <1>5, AppendProperties
  <2> QED
    BY <2>1, LenProperties
<1>7. turn.meta.step \in Nat
  BY CopyFields DEF SoundTurns, TypedTurns
<1>8. ASSUME NEW t \in 1..(n + 1) PROVE turns'[t].meta.step < t
  <2>1. CASE t \in 1..n
    BY <1>1, <1>3, <1>6, <2>1 DEF TypesInv
  <2>2. CASE t = n + 1
    BY <1>1, <1>6, <1>7, <2>2
  <2> QED
    BY <1>1, <2>1, <2>2
<1> QED
  BY <1>1, <1>6, <1>8

(* A turn begins with a copy of the metadata that is there. *)
LEMMA AskTypes ==
  ASSUME SoundInv, AnswersInv, TypesInv, NEW c \in Chats, NEW asked, NEW words,
         NEW new \in BOOLEAN, NEW meta \in CoherentCopies,
         meta.step <= Len(turns), Ask(c, asked, meta, words, new)
  PROVE  /\ Len(turns)' \in Nat /\ Len(turns) <= Len(turns')
         /\ \A t \in DOMAIN turns' : turns'[t].meta.step < t
<1>1. \A at, f : NewTurn(c, at, f, meta, new).meta = meta
  BY DEF NewTurn
<1>2. CASE DetectTemporalQuery(words)
  <2>1. PICK stored \in BOOLEAN :
          StartTurn(c, Marked(NewTurn(c, "reply", NoFlow, meta, new), ~ stored))
    BY <1>2 DEF Ask
  <2>2. PICK plain \in SoundTurns :
          plain = NewTurn(c, "reply", NoFlow, meta, new) /\ plain.meta = meta
    BY <1>1, NewTurnIsSound DEF FlowNames, Places
  <2>3. PICK turn \in SoundTurns : turn = Marked(plain, ~ stored) /\ turn.meta = meta
    BY <2>2, MarkedIsSound
  <2>4. StartTurn(c, turn) /\ turn.meta.step <= Len(turns)
    BY <2>1, <2>2, <2>3
  <2> HIDE DEF SoundInv, AnswersInv, TypesInv, SoundTurns
  <2> QED
    BY <2>4, StartTypes
<1>3. CASE ~ DetectTemporalQuery(words)
  <2>1. PICK named \in Named :
          \E f \in ActiveFlows(meta, named, words, Len(asked)) :
            StartTurn(c, NewTurn(c, "loop", f, meta, new))
    BY <1>3 DEF Ask
  <2>2. PICK f \in ActiveFlows(meta, named, words, Len(asked)) :
          StartTurn(c, NewTurn(c, "loop", f, meta, new))
    BY <2>1
  <2>3. f \in FlowNames /\ (meta.flow # NoFlow => f = meta.flow)
    BY ActiveFlowIsNamed
  <2>4. PICK turn \in SoundTurns :
          turn = NewTurn(c, "loop", f, meta, new) /\ turn.meta = meta
    BY <1>1, <2>3, NewTurnIsSound DEF Places
  <2>5. StartTurn(c, turn) /\ turn.meta.step <= Len(turns)
    BY <2>2, <2>4
  <2> HIDE DEF SoundInv, AnswersInv, TypesInv, SoundTurns
  <2> QED
    BY <2>5, StartTypes
<1> QED
  BY <1>2, <1>3

(* A question asked of a conversation, new or old. *)
LEMMA ChatStepTypes ==
  ASSUME SoundInv, AnswersInv, TypesInv, LastInv, NEW c \in Chats, NEW words,
         ChatInNew(c, words) \/ ChatInOld(c, words)
  PROVE  TypesInv'
<1>1. Len(turns) \in Nat
  BY TurnsThere
<1>2. /\ edits' \in 0..MaxEdits
      /\ artifacts' \subseteq [chat : Chats, name : Names]
      /\ \A w \in writers' : w \in writers
  BY DEF ChatInNew, ChatInOld, TypesInv
<1>3. CASE ChatInNew(c, words)
  <2>1. /\ Create(c, NewConversation(Excerpt))
        /\ Ask(c, <<Question>>, NoMetadata, words, TRUE)
    BY <1>3 DEF ChatInNew
  <2>2. PICK asked : asked = <<Question>>
    OBVIOUS
  <2>3. PICK yes \in BOOLEAN : yes = TRUE
    OBVIOUS
  <2>4. PICK meta \in CoherentCopies : meta = NoMetadata /\ meta.step = 0
    BY NoMetadataIsCoherent DEF NoMetadata
  <2>5. Ask(c, asked, meta, words, yes)
    BY <2>1, <2>2, <2>3, <2>4
  <2>6. meta.step <= Len(turns)
    BY <1>1, <2>4
  <2>7. /\ Len(turns)' \in Nat /\ Len(turns) <= Len(turns')
        /\ \A t \in DOMAIN turns' : turns'[t].meta.step < t
    BY <2>5, <2>6, AskTypes
  <2>8. Excerpt \in AllTitles
    BY DEF AllTitles
  <2> HIDE DEF SoundInv, AnswersInv, TypesInv, LastInv, TypedRow, AllTitles
  <2>9. /\ DOMAIN convs' \subseteq Chats
        /\ \A d \in DOMAIN convs' :
             \/ d \in DOMAIN convs /\ convs'[d] = convs[d] /\ lost'[d] = lost[d]
             \/ TypedRow(convs'[d], Len(turns)) /\ lost'[d] \subseteq Columns
    BY <1>1, <2>1, <2>8, CreateTypes
  <2> QED
    BY <1>1, <1>2, <2>7, <2>9, TypesMove
<1>4. CASE ChatInOld(c, words)
  <2>1. /\ c \in DOMAIN convs /\ UNCHANGED <<convs, lost>>
        /\ Ask(c, Append(messages[c], Question), convs[c].meta, words, FALSE)
    BY <1>4 DEF ChatInOld, GetByID, history
  <2>2. PICK asked : asked = Append(messages[c], Question)
    OBVIOUS
  <2>3. PICK no \in BOOLEAN : no = FALSE
    OBVIOUS
  <2>4. PICK meta \in CoherentCopies : meta = convs[c].meta /\ meta.step <= Len(turns)
    BY <2>1 DEF SoundInv, RowsInv, TypesInv, TypedRow
  <2>5. Ask(c, asked, meta, words, no)
    BY <2>1, <2>2, <2>3, <2>4
  <2>6. /\ Len(turns)' \in Nat /\ Len(turns) <= Len(turns')
        /\ \A t \in DOMAIN turns' : turns'[t].meta.step < t
    BY <2>4, <2>5, AskTypes
  <2>7. DOMAIN convs' \subseteq Chats
    BY <2>1 DEF TypesInv
  <2> HIDE DEF SoundInv, AnswersInv, TypesInv, LastInv, TypedRow
  <2> QED
    BY <1>1, <1>2, <2>1, <2>6, <2>7, TypesMove
<1> QED
  BY <1>3, <1>4

(* What is edited by hand. *)
LEMMA EditStepTypes ==
  ASSUME SoundInv, AnswersInv, TypesInv, LastInv, EditStep
  PROVE  TypesInv'
<1> PICK c \in Chats :
      \/ \E title \in Titles : HandleCreateChat(c, title)
      \/ \E sets \in Patches : HandleUpdateConversation(c, sets)
      \/ HandleDeleteConversation(c)
      \/ \E name \in Names : HandleCreateArtifact(c, name)
  BY DEF EditStep
<1>1. Len(turns) \in Nat /\ UNCHANGED turns
  BY TurnsThere
     DEF HandleCreateChat, HandleUpdateConversation, HandleDeleteConversation,
         HandleCreateArtifact
<1>2. edits' \in 0..MaxEdits
  <2>1. edits \in 0..MaxEdits /\ MaxEdits \in Nat
    BY ConversationsAssumption DEF TypesInv
  <2>2. Edited
    BY DEF HandleCreateChat, HandleUpdateConversation, HandleDeleteConversation,
           HandleCreateArtifact
  <2> QED
    BY <2>1, <2>2 DEF Edited
<1>3. artifacts \subseteq [chat : Chats, name : Names] /\ DOMAIN convs \subseteq Chats
  BY DEF TypesInv
<1>4. ASSUME NEW title \in Titles, HandleCreateChat(c, title) PROVE TypesInv'
  <2>1. /\ Create(c, NewConversation(title)) /\ UNCHANGED <<artifacts, writers>>
    BY <1>4 DEF HandleCreateChat
  <2>2. title \in AllTitles
    BY DEF AllTitles
  <2> HIDE DEF SoundInv, AnswersInv, TypesInv, LastInv, TypedRow, AllTitles
  <2>3. /\ DOMAIN convs' \subseteq Chats
        /\ \A d \in DOMAIN convs' :
             \/ d \in DOMAIN convs /\ convs'[d] = convs[d] /\ lost'[d] = lost[d]
             \/ TypedRow(convs'[d], Len(turns)) /\ lost'[d] \subseteq Columns
    BY <1>1, <2>1, <2>2, CreateTypes
  <2>4. artifacts' \subseteq [chat : Chats, name : Names]
    BY <1>3, <2>1
  <2>5. \A w \in writers' : w \in writers
    BY <2>1
  <2> QED
    BY <1>1, <1>2, <2>3, <2>4, <2>5, RowsTyped
<1>5. ASSUME NEW sets \in Patches, HandleUpdateConversation(c, sets) PROVE TypesInv'
  <2>1. /\ c \in DOMAIN convs /\ UNCHANGED <<convs, lost, artifacts>>
        /\ writers' = writers \union {Writer("edit", edits + 1, c, sets)}
    BY <1>5 DEF HandleUpdateConversation, GetByID, store, history
  <2>2. sets \in [{"title"} -> Titles] \union [{"status"} -> Statuses]
                   \union [title : Titles, status : Statuses]
    BY ConversationsAssumption
  <2>3. /\ "title" \in DOMAIN sets => sets.title \in AllTitles
        /\ "status" \in DOMAIN sets => sets.status \in Statuses
        /\ "meta" \notin DOMAIN sets
    <3>1. CASE sets \in [{"title"} -> Titles]
      BY <3>1 DEF AllTitles
    <3>2. CASE sets \in [{"status"} -> Statuses]
      <4> HIDE DEF Statuses
      <4> QED
        BY <3>2
    <3>3. CASE sets \in [title : Titles, status : Statuses]
      <4> HIDE DEF Statuses
      <4> QED
        BY <3>3 DEF AllTitles
    <3> QED
      BY <2>2, <3>1, <3>2, <3>3
  <2>4. TypedWriter(Writer("edit", edits + 1, c, sets))
    <3>1. PICK t : t = edits + 1
      OBVIOUS
    <3> HIDE DEF TypesInv, AllTitles, Statuses, TypedWriter
    <3>2. TypedWriter(Writer("edit", t, c, sets))
      BY <2>1, <2>3, ReaderTyped
    <3> QED
      BY <3>1, <3>2
  <2>5. \A w \in writers' : w \in writers \/ TypedWriter(w)
    BY <2>1, <2>4
  <2>6. /\ artifacts' \subseteq [chat : Chats, name : Names]
        /\ DOMAIN convs' \subseteq Chats
    BY <1>3, <2>1
  <2> HIDE DEF SoundInv, AnswersInv, TypesInv, LastInv, TypedRow, TypedWriter
  <2> QED
    BY <1>1, <1>2, <2>1, <2>5, <2>6, RowsTyped
<1>6. ASSUME HandleDeleteConversation(c) PROVE TypesInv'
  <2>1. c \in DOMAIN convs /\ Delete(c) /\ UNCHANGED <<artifacts, writers>>
    BY <1>6 DEF HandleDeleteConversation, GetByID
  <2>2. PICK row : row = [convs[c] EXCEPT !.status = "deleted"]
    OBVIOUS
  <2>3. /\ convs' = [convs EXCEPT ![c] = row]
        /\ lost' = [lost EXCEPT ![c] = lost[c] \ {"status"}]
    BY <2>1, <2>2 DEF Delete
  <2>4. /\ TypedRow(convs[c], Len(turns))
        /\ lost[c] \subseteq Columns /\ c \in DOMAIN lost
    BY <2>1 DEF TypesInv, LastInv
  <2>5. TypedRow(row, Len(turns))
    <3> HIDE DEF CoherentCopies, AllTitles
    <3> QED
      BY <2>2, <2>4 DEF TypedRow, Statuses
  <2>6. /\ artifacts' \subseteq [chat : Chats, name : Names]
        /\ DOMAIN convs' \subseteq Chats
        /\ \A w \in writers' : w \in writers
    BY <1>3, <2>1, <2>3
  <2>7. \A d \in DOMAIN convs' :
          \/ d \in DOMAIN convs /\ convs'[d] = convs[d] /\ lost'[d] = lost[d]
          \/ TypedRow(convs'[d], Len(turns)) /\ lost'[d] \subseteq Columns
    <3> HIDE DEF TypedRow
    <3> QED
      BY <2>1, <2>3, <2>4, <2>5
  <2> HIDE DEF SoundInv, AnswersInv, TypesInv, LastInv, TypedRow, TypedWriter
  <2> QED
    BY <1>1, <1>2, <2>6, <2>7, RowsTyped
<1>7. ASSUME NEW name \in Names, HandleCreateArtifact(c, name) PROVE TypesInv'
  <2>1. /\ UNCHANGED <<convs, lost, writers>>
        /\ artifacts' = artifacts \union {[chat |-> c, name |-> name]}
    BY <1>7 DEF HandleCreateArtifact, CreateArtifact, history
  <2>2. /\ artifacts' \subseteq [chat : Chats, name : Names]
        /\ DOMAIN convs' \subseteq Chats
        /\ \A w \in writers' : w \in writers
    BY <1>3, <2>1
  <2> HIDE DEF SoundInv, AnswersInv, TypesInv, LastInv, TypedRow, TypedWriter
  <2> QED
    BY <1>1, <1>2, <2>1, <2>2, RowsTyped
<1> QED
  BY <1>4, <1>5, <1>6, <1>7

(* What the writers do. *)
LEMMA WriteStepTypes ==
  ASSUME SoundInv, AnswersInv, TypesInv, LastInv, NEW w \in writers,
         Write(w) \/ WriteFails(w)
  PROVE  TypesInv'
<1>1. /\ UNCHANGED <<turns, edits, artifacts>> /\ \A v \in writers' : v \in writers
  BY DEF Write, WriteFails, store
<1>2. /\ edits' \in 0..MaxEdits
      /\ artifacts' \subseteq [chat : Chats, name : Names]
      /\ DOMAIN convs \subseteq Chats
  BY <1>1 DEF TypesInv
<1>3. CASE Write(w)
  <2>1. Update(w.chat, w.read, w.sets)
    BY <1>3 DEF Write, UpdateConversationTitle, UpdateConversationMetadata,
                UpdateConversation
  <2> HIDE DEF SoundInv, AnswersInv, TypesInv, LastInv, TypedRow, TypedWriter
  <2>2. /\ DOMAIN convs' = DOMAIN convs
        /\ \A c \in DOMAIN convs :
             \/ convs'[c] = convs[c] /\ lost'[c] = lost[c]
             \/ TypedRow(convs'[c], Len(turns)) /\ lost'[c] \subseteq Columns
    BY <2>1, UpdateTypes
  <2> QED
    BY <1>1, <1>2, <2>2, RowsTyped
<1>4. CASE WriteFails(w)
  <2>1. UNCHANGED <<convs, lost>>
    BY <1>4 DEF WriteFails, store, history
  <2> HIDE DEF SoundInv, AnswersInv, TypesInv, LastInv, TypedRow, TypedWriter
  <2> QED
    BY <1>1, <1>2, <2>1, RowsTyped
<1> QED
  BY <1>3, <1>4

(* Every step keeps the types. *)
LEMMA NextTypes ==
  SoundInv /\ AnswersInv /\ LastInv /\ TypesInv /\ [Next]_vars => TypesInv'
<1> SUFFICES ASSUME SoundInv, AnswersInv, LastInv, TypesInv, [Next]_vars
             PROVE  TypesInv'
  OBVIOUS
<1>1. CASE ChatStep
  BY <1>1, ChatStepTypes DEF ChatStep
<1>2. CASE TurnStep
  <2> PICK t \in DOMAIN turns :
        \/ CallTool(t) \/ Exhaust(t) \/ ReadForTitle(t) \/ Respond(t) \/ Leave(t)
        \/ \E answer \in Answers : Finish(t, answer) \/ FinishLate(t, answer)
    BY <1>2 DEF TurnStep
  <2>1. CASE CallTool(t)
    BY <2>1, CallToolTypes
  <2>2. CASE \/ Exhaust(t) \/ ReadForTitle(t) \/ Respond(t) \/ Leave(t)
             \/ \E answer \in Answers : Finish(t, answer) \/ FinishLate(t, answer)
    BY <2>2, TurnStepTypes
  <2> QED
    BY <2>1, <2>2
<1>3. CASE WriteStep
  BY <1>3, WriteStepTypes DEF WriteStep
<1>4. CASE EditStep
  BY <1>4, EditStepTypes
<1>5. CASE UNCHANGED vars
  <2>1. UNCHANGED <<convs, lost, turns, edits, artifacts, writers>>
    BY <1>5 DEF vars
  <2>2. /\ edits' \in 0..MaxEdits
        /\ artifacts' \subseteq [chat : Chats, name : Names]
        /\ DOMAIN convs' \subseteq Chats
        /\ \A w \in writers' : w \in writers
    BY <2>1 DEF TypesInv
  <2> HIDE DEF SoundInv, AnswersInv, TypesInv, LastInv, TypedRow, TypedWriter
  <2> QED
    BY <2>1, <2>2, RowsTyped
<1> QED
  BY <1>1, <1>2, <1>3, <1>4, <1>5 DEF Next

(* Whatever is stored, read or about to be written is of its type, and no flow
   counts more steps than there were turns. *)
THEOREM ConversationsAreTyped == Spec => []TypesInv
<1>1. Init => TypesInv
  BY ConversationsAssumption DEF Init, TypesInv
<1> QED
  BY <1>1, NextTypes, ConversationsAreSound, AnswersStayOwn, RowsAreLast, PTL
     DEF Spec

(* A copy with no more steps than turns is metadata as the model has it. *)
LEMMA CopyIsMetadata ==
  ASSUME NEW meta \in CoherentCopies, meta.step <= MaxTurns
  PROVE  meta \in Metadata
<1>1. meta \in Copies /\ meta.step \in 0..MaxTurns
  BY CopyFields, ConversationsAssumption
<1> QED
  BY <1>1 DEF Copies, Metadata, FlowNames

(* The rows, the messages, the turns and the writers are of their types. *)
LEMMA TypesAreOK ==
  ASSUME SoundInv, AnswersInv, LastInv, TypesInv
  PROVE  TypeOK
<1>1. /\ MaxTurns \in Nat /\ Len(turns) \in Nat /\ Len(turns) <= MaxTurns
      /\ DOMAIN turns = 1..Len(turns)
  BY ConversationsAssumption, TurnsThere DEF AnswersInv
<1>2. ASSUME NEW c \in DOMAIN convs
      PROVE  convs[c] \in Row /\ lost[c] \subseteq Columns
  <2>1. TypedRow(convs[c], Len(turns)) /\ lost[c] \subseteq Columns
    BY DEF TypesInv
  <2>2. /\ convs[c] \in [title : AllTitles, status : Statuses, meta : CoherentCopies]
        /\ convs[c].meta.step <= Len(turns)
    BY <2>1 DEF TypedRow
  <2>3. convs[c].meta \in CoherentCopies
    BY <2>2
  <2>4. convs[c].meta.step <= MaxTurns
    BY <1>1, <2>2, <2>3, CopyFields
  <2>5. convs[c].meta \in Metadata
    BY <2>3, <2>4, CopyIsMetadata
  <2> HIDE DEF CoherentCopies, Metadata, AllTitles, Statuses
  <2> QED
    BY <2>1, <2>2, <2>5 DEF Row
<1>3. ASSUME NEW t \in DOMAIN turns
      PROVE  turns[t] \in Turn
  <2>1. turns[t] \in TypedTurns
    BY TurnIsSound DEF SoundTurns
  <2>2. turns[t].meta \in CoherentCopies
    BY <2>1 DEF TypedTurns
  <2>3. turns[t].meta.step <= MaxTurns
    BY <1>1, <2>2, CopyFields DEF TypesInv
  <2>4. turns[t].meta \in Metadata
    BY <2>2, <2>3, CopyIsMetadata
  <2> HIDE DEF CoherentCopies, Metadata
  <2> QED
    BY <2>1, <2>4 DEF TypedTurns, Turn, Places, FlowNames
<1>4. \A w \in writers : w.kind \in Kinds /\ w.chat \in DOMAIN convs
  BY DEF SoundInv, WritersInv, SoundWriter
<1>5. /\ DOMAIN messages = DOMAIN convs
      /\ \A c \in DOMAIN convs : messages[c] \in Seq(Message)
  BY DEF AnswersInv, Listings
<1>6. DOMAIN last = DOMAIN convs /\ DOMAIN lost = DOMAIN convs
  BY DEF LastInv
<1>7. /\ DOMAIN convs \subseteq Chats /\ edits \in 0..MaxEdits
      /\ artifacts \subseteq [chat : Chats, name : Names]
  BY DEF TypesInv
<1> HIDE DEF SoundInv, AnswersInv, LastInv, TypesInv, Row, Message, Turn, Kinds
<1> QED
  BY <1>2, <1>3, <1>4, <1>5, <1>6, <1>7 DEF TypeOK

(* What is stored of the conversations is of its type and is what was last
   written on purpose, whatever turns, edits and writers overlap, unless a
   writer put an older value back (ConversationStore.Update). *)
THEOREM RowsStaySound == Spec => []RowsAreSound
<1>1. SoundInv /\ AnswersInv /\ LastInv /\ TypesInv /\ RowKeepsLastWrite
        => RowsAreSound
  BY TypesAreOK DEF RowsAreSound
<1> QED
  BY <1>1, ConversationsAreSound, AnswersStayOwn, RowsAreLast,
     ConversationsAreTyped, RowsKeepLastWrites, PTL
=============================================================================
