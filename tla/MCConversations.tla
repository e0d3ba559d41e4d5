-------------------------- MODULE MCConversations --------------------------
EXTENDS Conversations

CONSTANTS c1, t1, f1, f2, n1

MCQuestions == {{"onboard"}, {"time"}}
MCNamed == {NoFlow, APIIntegration}
MCPatches == {[title |-> t1, status |-> "active"]}
A(block, fields, infers, asks) ==
  [block |-> block, fields |-> fields, infers |-> infers, asks |-> asks]
MCAnswers == {A("none", {}, {f1}, TRUE), A("good", {f2}, {}, FALSE)}
=============================================================================
