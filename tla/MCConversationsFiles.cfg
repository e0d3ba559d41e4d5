SPECIFICATION Spec
CONSTANTS
  c1 = c1  t1 = t1  f1 = f1  f2 = f2  n1 = n1
  Chats = {c1}
  Titles = {t1}
  Required = {f1, f2}
  Inferable = {f1}
  Questions <- MCQuestions
  Answers <- MCAnswers
  Names = {n1}
  MessageLimit = 5
  MaxTurns = 2
  MaxEdits = 1
  Named <- MCNamed
  Patches <- MCPatches
CHECK_DEADLOCK FALSE
INVARIANTS
  WrittenFilesAreKept
