------------------------------- MODULE Flows -------------------------------
(***************************************************************************)
(* internal/agent/flows: the guided conversations.  A flow is chosen for a *)
(* turn from what the conversation's metadata, the classifier and the      *)
(* flows' keywords say, and after the answer it writes its state into the  *)
(* metadata.  Metadata is one JSON object; a turn works on the copy it     *)
(* read when it began.                                                     *)
(***************************************************************************)
EXTENDS Integers, FiniteSets

CONSTANTS
  Required,   \* the fields an integration needs, eight in the code
  Inferable   \* those that words of the answer can fill in

ASSUME FlowsAssumption ==
  IsFiniteSet(Required) /\ Required # {} /\ Inferable \subseteq Required

NoFlow == ""
Onboarding == "onboarding"
Proposal == "proposal"
Contract == "contract"
CodeReview == "code_review"
APIIntegration == "api_integration"
Registered == {Onboarding, Proposal, Contract, CodeReview, APIIntegration}

Keywords == {"onboard", "proposal", "contract", "review", "api", "sync", "time"}
Status == {"", "collecting", "ready_to_generate", "generated"}

(* What the flows read of the metadata: "" and {} when a key is not there. *)
NoMetadata == [flow |-> NoFlow, step |-> 0, status |-> "", fields |-> {},
               missing |-> {}, deliverables |-> {}]

(* What the flows read of an answer: its state block ("none", one that does
   not parse, or a good one), the fields the block has values for, those its
   words give away, and whether it asks anything. *)
Answer == [block : {"none", "bad", "good"}, fields : SUBSET Required,
           infers : SUBSET Inferable, asks : BOOLEAN]

-----------------------------------------------------------------------------
(* Which flow: scores in hundredths, 0 when a flow does not match *)

DetectOnboarding(words, historyLen) ==
  IF historyLen = 0 THEN 95 ELSE IF "onboard" \in words THEN 85 ELSE 0
DetectProposal(words) == IF "proposal" \in words THEN 85 ELSE 0
DetectContract(words) == IF "contract" \in words THEN 85 ELSE 0
DetectCodeReview(words) == IF "review" \in words THEN 90 ELSE 0
DetectAPIIntegration(words) ==
  IF "api" \in words THEN 90 ELSE IF "sync" \in words THEN 85 ELSE 0

Detect(f, words, historyLen) ==
  CASE f = Onboarding -> DetectOnboarding(words, historyLen)
    [] f = Proposal -> DetectProposal(words)
    [] f = Contract -> DetectContract(words)
    [] f = CodeReview -> DetectCodeReview(words)
    [] f = APIIntegration -> DetectAPIIntegration(words)

(* The registry is a Go map: any flow with the best score may be the one. *)
DetectAll(words, historyLen) ==
  {f \in Registered :
     /\ Detect(f, words, historyLen) >= 85
     /\ \A g \in Registered :
          Detect(g, words, historyLen) <= Detect(f, words, historyLen)}

(* The metadata's flow, else the classifier's, else the best match. *)
ActiveFlows(meta, named, words, historyLen) ==
  IF meta.flow \in Registered THEN {meta.flow}
  ELSE IF named \in Registered THEN {named}
  ELSE IF DetectAll(words, historyLen) # {} THEN DetectAll(words, historyLen)
  ELSE {NoFlow}

-----------------------------------------------------------------------------
(* Flow state in the metadata *)

loadState(meta) ==
  [flow |-> IF meta.flow = NoFlow THEN APIIntegration ELSE meta.flow,
   status |-> IF meta.status = "" THEN "collecting" ELSE meta.status,
   fields |-> meta.fields,
   missing |-> IF meta.status = "" THEN Required ELSE meta.missing,
   deliverables |-> meta.deliverables]

saveState(state, meta) ==
  [flow |-> state.flow, step |-> meta.step, status |-> state.status,
   fields |-> state.fields, missing |-> state.missing,
   deliverables |-> state.deliverables]

parseFlowStateBlock(answer) ==
  IF answer.block = "good" THEN answer.fields ELSE {}

inferFieldsFromContent(fields, answer) == fields \union answer.infers

computeMissingFields(fields) == Required \ fields

(* Mutant: what the block says replaces what was collected. *)
CollectedBlockOnly(state, answer) ==
  inferFieldsFromContent(IF answer.block = "good" THEN answer.fields
                         ELSE state.fields, answer)

Collected(state, answer) ==
  inferFieldsFromContent(state.fields \union parseFlowStateBlock(answer), answer)

(* Mutant: the transition looks at the fields that were missing before. *)
TransitionLate(state, fields) ==
  IF state.missing = {} /\ state.status = "collecting"
  THEN "ready_to_generate" ELSE state.status

Transition(state, fields) ==
  IF computeMissingFields(fields) = {} /\ state.status = "collecting"
  THEN "ready_to_generate" ELSE state.status

UpdateAPIIntegration(meta, answer) ==
  LET state == loadState(meta)
      fields == Collected(state, answer)
  IN  saveState([flow |-> state.flow, status |-> Transition(state, fields),
                 fields |-> fields, missing |-> computeMissingFields(fields),
                 deliverables |-> state.deliverables], meta)

UpdateProposal(meta) == [meta EXCEPT !.flow = Proposal]
UpdateContract(meta) == [meta EXCEPT !.flow = Contract]
UpdateCodeReview(meta) == [meta EXCEPT !.flow = CodeReview]

UpdateOnboarding(meta, answer) ==
  LET onboarding == [meta EXCEPT !.flow = Onboarding]
  IN  IF answer.asks THEN [onboarding EXCEPT !.step = @ + 1] ELSE onboarding

UpdateState(f, meta, answer) ==
  CASE f = Onboarding -> UpdateOnboarding(meta, answer)
    [] f = Proposal -> UpdateProposal(meta)
    [] f = Contract -> UpdateContract(meta)
    [] f = CodeReview -> UpdateCodeReview(meta)
    [] f = APIIntegration -> UpdateAPIIntegration(meta, answer)

AddRealDeliverables(meta, files) ==
  LET state == loadState(meta)
      all == state.deliverables \union files
  IN  saveState([flow |-> state.flow,
                 status |-> IF all # {} THEN "generated" ELSE state.status,
                 fields |-> state.fields, missing |-> state.missing,
                 deliverables |-> all], meta)

(* What the prompt of a turn tells the model to ask about next; {} tells it to
   write the documents. *)
BuildMessages(meta) == loadState(meta).missing
=============================================================================
