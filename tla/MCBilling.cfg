SPECIFICATION FairSpec
CONSTANTS
  u1 = u1
  u2 = u2
  premium = premium
  registered = registered
  Users = {u1, u2}
  Visitors = {u1}
  MaxHooks = 1
  Priced = {premium}
  Unpriced = {registered}
  MaxSessions = 2
  MaxChanges <- MCMaxChanges
  OperatorLinks = TRUE
\* Every checkout of the bound may be over.
CHECK_DEADLOCK FALSE
INVARIANTS
  PremiumWasPaid
  RowsAreSound
PROPERTIES
  
  StaleTierLeaves
