SPECIFICATION Spec
CONSTANTS
  a = a
  b = b
  p1 = p1
  p2 = p2
  google = google
  github = github
  Users = {a, b}
  FirstAdmin = a
  Passwords = {p1, p2}
  GoogleUsers = {google}
  GitHubUsers = {github}
  Emails <- MCEmails
  Tiers = {"registered", "admin", "free"}
  MaxMade = 3
  MaxJobs = 2
SYMMETRY Symmetry
\* Every token of the bound may have been handed out.
CHECK_DEADLOCK FALSE
INVARIANTS
  RowsAreSound
  TokensAreSpent
  

  
