-------------------------- MODULE AccountsProofs ---------------------------
(***************************************************************************)
(* The safety properties of Accounts, for any accounts, passwords,         *)
(* subjects and bounds.                                                    *)
(*                                                                         *)
(* AccountsInv is inductive.  It adds to the properties what they rest on: *)
(* numbers are given out once, so that a token that is not made yet has    *)
(* never been used; a handler's reading has the OAuth subject that the row *)
(* still has, for nothing changes it; and a token or a subject that no two *)
(* handlers held at once is held by one handler, or spent.                 *)
(***************************************************************************)
EXTENDS Accounts, FiniteSetTheorems, TLAPS

(* Redis and the tables number what they hold. *)
MadeOK ==
  /\ made \in [tokens : Nat, resets : Nat, states : Nat, roles : Nat]
  /\ IsFiniteSet(DOMAIN keys)
  /\ Spent <= MaxMade

RowsOK ==
  /\ DOMAIN users \subseteq Accounts
  /\ \A u \in DOMAIN users : users[u] \in Row

RefreshOK ==
  \A t \in DOMAIN refresh : t \in 1..made.tokens /\ refresh[t] \in DOMAIN users

ResetsOK ==
  \A t \in DOMAIN resets : t \in 1..made.resets /\ resets[t] \in DOMAIN users

StatesOK == states \subseteq 1..made.states

AccessOK == \A a \in access : a.user \in DOMAIN users /\ a.role \in Roles

KeysOK == \A k \in DOMAIN keys : keys[k].user \in DOMAIN users

SignsIn(j) == j.kind \in {"sign in", "sign up"}
Refreshes(j, t) == j.kind = "refresh" /\ j.token = t
SignsUp(j, s) == j.kind = "sign up" /\ j.row.oauth = s

(* What a handler read of the row that nothing changes is still so. *)
JobOK(j) ==
  /\ j \in Job
  /\ j.kind # "sign up" =>
       j.user \in DOMAIN users /\ j.row.oauth = users[j.user].oauth
  /\ j.kind = "refresh" => j.token \in 1..made.tokens
  /\ SignsIn(j) => j.token \in 1..made.states
JobsOK == IsFiniteSet(jobs) /\ \A j \in jobs : JobOK(j)

LastOK ==
  /\ \A u \in DOMAIN last :
       /\ u \in DOMAIN users
       /\ last[u] \in [role : Roles, password : Passwords \union {NoPassword}]
  /\ RowKeepsLastWrite

(* A token that only ever one handler held is spent when it is used. *)
UsedUp(t) == t \notin DOMAIN refresh /\ \A j \in jobs : ~ Refreshes(j, t)
UsesOK ==
  /\ uses \in [Made -> Nat]
  /\ \A t \in Made : t > made.tokens => uses[t] = 0
  /\ \A t \in Made \ raced :
       /\ uses[t] = 0 \/ (uses[t] = 1 /\ UsedUp(t))
       /\ \A j, k \in jobs : Refreshes(j, t) /\ Refreshes(k, t) => j = k

(* A state is in Redis, or with one handler, or spent. *)
LoginsOK ==
  /\ logins \in [Made -> {0, 1}]
  /\ \A t \in Made : t > made.states \/ t \in states => logins[t] = 0
  /\ \A j \in jobs : SignsIn(j) => j.token \notin states /\ logins[j.token] = 0
  /\ \A j, k \in jobs :
       SignsIn(j) /\ SignsIn(k) /\ j.token = k.token => j = k

(* A subject without two first logins at once has an account, or one handler
   that is about to make it, or neither. *)
OwnersOK ==
  \A s \in Subjects \ raced :
    /\ \A u, v \in DOMAIN users : users[u].oauth = s /\ users[v].oauth = s => u = v
    /\ \A j \in jobs : SignsUp(j, s) => \A u \in DOMAIN users : users[u].oauth # s
    /\ \A j, k \in jobs : SignsUp(j, s) /\ SignsUp(k, s) => j = k

AccountsInv ==
  /\ MadeOK /\ RowsOK /\ RefreshOK /\ ResetsOK /\ StatesOK /\ AccessOK
  /\ KeysOK /\ JobsOK /\ LastOK /\ UsesOK /\ LoginsOK /\ OwnersOK

-----------------------------------------------------------------------------
(* Lemmas about the operators. *)

(* The numbers given out are within the bound. *)
LEMMA MadeFacts ==
  ASSUME MadeOK
  PROVE  /\ made.tokens \in Nat /\ made.resets \in Nat
         /\ made.states \in Nat /\ made.roles \in Nat
         /\ Cardinality(DOMAIN keys) \in Nat
         /\ MaxMade \in Nat
         /\ 1..made.tokens \subseteq Made /\ 1..made.resets \subseteq Made
         /\ 1..made.states \subseteq Made
<1>1. Cardinality(DOMAIN keys) \in Nat
  BY FS_CardinalityType DEF MadeOK
<1>2. /\ made.tokens \in Nat /\ made.resets \in Nat
      /\ made.states \in Nat /\ made.roles \in Nat
  BY DEF MadeOK
<1>3. MaxMade \in Nat
  BY AccountsAssumption
<1>4. /\ made.tokens <= MaxMade /\ made.resets <= MaxMade
      /\ made.states <= MaxMade
  BY <1>1, <1>2, <1>3 DEF MadeOK, Spent
<1> QED
  BY <1>1, <1>2, <1>3, <1>4 DEF Made

(* What a new refresh token counts as. *)
LEMMA CountedTokens ==
  ASSUME MadeOK, Counted("tokens"), UNCHANGED keys
  PROVE  /\ MadeOK'
         /\ made'.tokens = made.tokens + 1
         /\ made'.resets = made.resets /\ made'.states = made.states
<1>1. /\ made'.tokens = made.tokens + 1
      /\ made'.resets = made.resets /\ made'.states = made.states
      /\ made'.roles = made.roles
      /\ made' \in [tokens : Nat, resets : Nat, states : Nat, roles : Nat]
  BY DEF MadeOK, Counted
<1>2. (DOMAIN keys)' = DOMAIN keys
  OBVIOUS
<1>3. Spent' <= MaxMade
  BY <1>1, <1>2, MadeFacts DEF Spent, Counted
<1> QED
  BY <1>1, <1>2, <1>3 DEF MadeOK

(* What a new reset token counts as. *)
LEMMA CountedResets ==
  ASSUME MadeOK, Counted("resets"), UNCHANGED keys
  PROVE  /\ MadeOK'
         /\ made'.resets = made.resets + 1
         /\ made'.tokens = made.tokens /\ made'.states = made.states
<1>1. /\ made'.resets = made.resets + 1
      /\ made'.tokens = made.tokens /\ made'.states = made.states
      /\ made'.roles = made.roles
      /\ made' \in [tokens : Nat, resets : Nat, states : Nat, roles : Nat]
  BY DEF MadeOK, Counted
<1>2. (DOMAIN keys)' = DOMAIN keys
  OBVIOUS
<1>3. Spent' <= MaxMade
  BY <1>1, <1>2, MadeFacts DEF Spent, Counted
<1> QED
  BY <1>1, <1>2, <1>3 DEF MadeOK

(* What a new OAuth state counts as. *)
LEMMA CountedStates ==
  ASSUME MadeOK, Counted("states"), UNCHANGED keys
  PROVE  /\ MadeOK'
         /\ made'.states = made.states + 1
         /\ made'.tokens = made.tokens /\ made'.resets = made.resets
<1>1. /\ made'.states = made.states + 1
      /\ made'.tokens = made.tokens /\ made'.resets = made.resets
      /\ made'.roles = made.roles
      /\ made' \in [tokens : Nat, resets : Nat, states : Nat, roles : Nat]
  BY DEF MadeOK, Counted
<1>2. (DOMAIN keys)' = DOMAIN keys
  OBVIOUS
<1>3. Spent' <= MaxMade
  BY <1>1, <1>2, MadeFacts DEF Spent, Counted
<1> QED
  BY <1>1, <1>2, <1>3 DEF MadeOK

(* What a change of a role counts as. *)
LEMMA CountedRoles ==
  ASSUME MadeOK, Counted("roles"), UNCHANGED keys
  PROVE  /\ MadeOK'
         /\ made'.tokens = made.tokens /\ made'.resets = made.resets
         /\ made'.states = made.states
<1>1. /\ made'.roles = made.roles + 1
      /\ made'.tokens = made.tokens /\ made'.resets = made.resets
      /\ made'.states = made.states
      /\ made' \in [tokens : Nat, resets : Nat, states : Nat, roles : Nat]
  BY DEF MadeOK, Counted
<1>2. (DOMAIN keys)' = DOMAIN keys
  OBVIOUS
<1>3. Spent' <= MaxMade
  BY <1>1, <1>2, MadeFacts DEF Spent, Counted
<1> QED
  BY <1>1, <1>2, <1>3 DEF MadeOK

(* There is a free slot for a handler that may start. *)
LEMMA SlotFree ==
  ASSUME IsFiniteSet(jobs), Cardinality(jobs) < MaxJobs
  PROVE  Slot \in 1..MaxJobs
<1> DEFINE f == [j \in jobs |-> j.slot]
<1>1. MaxJobs \in Nat
  BY AccountsAssumption
<1>2. f \in [jobs -> Busy] /\ \A b \in Busy : \E j \in jobs : f[j] = b
  BY DEF Busy
<1>3. f \in Surjection(jobs, Busy)
  BY <1>2 DEF Surjection
<1>4. IsFiniteSet(Busy) /\ Cardinality(Busy) <= Cardinality(jobs)
  BY <1>3, FS_Surjection
<1>5. Cardinality(jobs) \in Nat /\ Cardinality(Busy) \in Nat
  BY <1>4, FS_CardinalityType
<1>6. Cardinality(1..MaxJobs) = MaxJobs
  BY <1>1, FS_Interval
<1>7. ~ (1..MaxJobs \subseteq Busy)
  <2> SUFFICES ASSUME 1..MaxJobs \subseteq Busy PROVE FALSE
    OBVIOUS
  <2>1. Cardinality(1..MaxJobs) <= Cardinality(Busy)
    BY <1>4, FS_Subset
  <2> QED
    BY <2>1, <1>1, <1>4, <1>5, <1>6
<1>8. \E n \in 1..MaxJobs : n \notin Busy
  BY <1>7
<1> QED
  BY <1>8 DEF Slot

(* Google's address and GitHub's are of an account, or there is none. *)
LEMMA UserInfoFacts ==
  ASSUME NEW s \in Subjects
  PROVE  UserInfo(s) \subseteq Accounts
<1> DEFINE E == [email : Users, primary : BOOLEAN, verified : BOOLEAN]
<1>1. Emails[s] \in Seq(E)
  BY AccountsAssumption
<1>2. \A i \in DOMAIN Emails[s] : Emails[s][i].email \in Users
  <2> SUFFICES ASSUME NEW i \in DOMAIN Emails[s]
               PROVE  Emails[s][i].email \in Users
    OBVIOUS
  <2>1. Emails[s][i] \in E
    <3> HIDE DEF E
    <3> QED
      BY <1>1
  <2> QED
    BY <2>1
<1>3. \A W : W \subseteq DOMAIN Emails[s] => First(s, W) \subseteq Accounts
  BY <1>2 DEF First, Accounts
<1>4. PrimaryEmail(s) \subseteq Accounts
  BY <1>3 DEF PrimaryEmail
<1>5. s \in GoogleUsers => Emails[s][1].email \in Users
  <2> SUFFICES ASSUME s \in GoogleUsers PROVE 1 \in DOMAIN Emails[s]
    BY <1>2
  <2> HIDE DEF E
  <2>1. Emails[s] # <<>>
    BY AccountsAssumption
  <2> QED
    BY <1>1, <2>1
<1> QED
  BY <1>4, <1>5 DEF UserInfo, FetchGoogleUserInfo, FetchGitHubUserInfo, Accounts

-----------------------------------------------------------------------------
(* What a step keeps when it does not touch what a conjunct is about: rows
   are never removed and keep their OAuth subject, and numbers only rise. *)

Grows ==
  /\ \A u \in DOMAIN users :
       u \in DOMAIN users' /\ users'[u].oauth = users[u].oauth
  /\ made.tokens <= made'.tokens /\ made.resets <= made'.resets
  /\ made.states <= made'.states

SameOwners ==
  /\ DOMAIN users' = DOMAIN users
  /\ \A u \in DOMAIN users : users'[u].oauth = users[u].oauth

(* No number is given out. *)
LEMMA MadeKept ==
  ASSUME MadeOK, UNCHANGED <<made, keys>>
  PROVE  MadeOK'
BY DEF MadeOK, Spent

(* Nothing is numbered, and no row gained or lost. *)
LEMMA GrowsUnchanged ==
  ASSUME MadeOK, SameOwners, UNCHANGED made
  PROVE  Grows
BY MadeFacts DEF Grows, SameOwners

(* No row is written. *)
LEMMA SameUnchanged ==
  ASSUME UNCHANGED users
  PROVE  SameOwners
BY DEF SameOwners

(* No row is written. *)
LEMMA RowsKept ==
  ASSUME RowsOK, UNCHANGED users
  PROVE  RowsOK'
BY DEF RowsOK

(* Refresh tokens are only taken away. *)
LEMMA RefreshKept ==
  ASSUME MadeOK, MadeOK', RefreshOK, Grows,
         \A t \in DOMAIN refresh' : t \in DOMAIN refresh /\ refresh'[t] = refresh[t]
  PROVE  RefreshOK'
<1>1. made.tokens \in Nat /\ made'.tokens \in Nat
  BY DEF MadeOK
<1> QED
  BY <1>1 DEF RefreshOK, Grows

(* Reset tokens are only taken away. *)
LEMMA ResetsKept ==
  ASSUME MadeOK, MadeOK', ResetsOK, Grows,
         \A t \in DOMAIN resets' : t \in DOMAIN resets /\ resets'[t] = resets[t]
  PROVE  ResetsOK'
<1>1. made.resets \in Nat /\ made'.resets \in Nat
  BY DEF MadeOK
<1> QED
  BY <1>1 DEF ResetsOK, Grows

(* States are only taken away. *)
LEMMA StatesKept ==
  ASSUME MadeOK, MadeOK', StatesOK, Grows, states' \subseteq states
  PROVE  StatesOK'
<1>1. made.states \in Nat /\ made'.states \in Nat
  BY DEF MadeOK
<1> QED
  BY <1>1 DEF StatesOK, Grows

(* Access tokens are only taken away. *)
LEMMA AccessKept ==
  ASSUME AccessOK, Grows, access' \subseteq access
  PROVE  AccessOK'
BY DEF AccessOK, Grows

(* No key is made, and no owner removed. *)
LEMMA KeysKept ==
  ASSUME KeysOK, Grows, UNCHANGED keys
  PROVE  KeysOK'
BY DEF KeysOK, Grows

(* What a handler read stays as it was. *)
LEMMA JobKept ==
  ASSUME MadeOK, MadeOK', Grows, NEW j, JobOK(j)
  PROVE  JobOK(j)'
<1>1. /\ made.tokens \in Nat /\ made'.tokens \in Nat
      /\ made.states \in Nat /\ made'.states \in Nat
  BY DEF MadeOK
<1>2. \A t : t \in 1..made.tokens => t \in 1..made'.tokens
  BY <1>1 DEF Grows
<1>3. \A t : t \in 1..made.states => t \in 1..made'.states
  BY <1>1 DEF Grows
<1>4. j.kind # "sign up" =>
        j.user \in DOMAIN users' /\ j.row.oauth = users'[j.user].oauth
  BY DEF JobOK, Grows
<1> QED
  BY <1>2, <1>3, <1>4 DEF JobOK, SignsIn

(* Handlers only end. *)
LEMMA JobsKept ==
  ASSUME MadeOK, MadeOK', JobsOK, Grows, jobs' \subseteq jobs
  PROVE  JobsOK'
<1>1. IsFiniteSet(jobs')
  BY FS_Subset DEF JobsOK
<1>2. \A j \in jobs' : JobOK(j)'
  BY JobKept DEF JobsOK
<1> QED
  BY <1>1, <1>2 DEF JobsOK

(* No row is written. *)
LEMMA LastKept ==
  ASSUME LastOK, UNCHANGED <<users, last>>
  PROVE  LastOK'
BY DEF LastOK, RowKeepsLastWrite

(* Nobody uses a refresh token, and no new one is saved. *)
LEMMA UsesKept ==
  ASSUME MadeOK, MadeOK', Grows, UsesOK, UNCHANGED uses,
         jobs' \subseteq jobs, DOMAIN refresh' \subseteq DOMAIN refresh,
         raced \subseteq raced'
  PROVE  UsesOK'
<1>1. made.tokens \in Nat /\ made'.tokens \in Nat /\ MaxMade \in Nat
  BY AccountsAssumption DEF MadeOK
<1>2. \A t \in Made : t > made'.tokens => t > made.tokens
  BY <1>1 DEF Grows, Made
<1>3. \A t \in Made : UsedUp(t) => UsedUp(t)'
  BY <1>1 DEF UsedUp, Grows, Made
<1>4. \A j, k \in jobs' : j \in jobs /\ k \in jobs
  OBVIOUS
<1>5. \A t \in Made \ raced' : t \in Made \ raced
  OBVIOUS
<1>6. \A t \in Made : t > made'.tokens => uses'[t] = 0
  BY <1>2 DEF UsesOK
<1>7. \A t \in Made \ raced' :
        /\ uses'[t] = 0 \/ (uses'[t] = 1 /\ UsedUp(t)')
        /\ \A j, k \in jobs' : Refreshes(j, t) /\ Refreshes(k, t) => j = k
  BY <1>3, <1>4, <1>5 DEF UsesOK
<1> QED
  BY <1>6, <1>7 DEF UsesOK, Refreshes

(* Nobody logs in, and no new state is saved. *)
LEMMA LoginsKept ==
  ASSUME MadeOK, MadeOK', Grows, LoginsOK, UNCHANGED logins,
         jobs' \subseteq jobs, states' \subseteq states
  PROVE  LoginsOK'
<1>1. made.states \in Nat /\ made'.states \in Nat /\ MaxMade \in Nat
  BY AccountsAssumption DEF MadeOK
<1>2. \A t \in Made : t > made'.states \/ t \in states' => logins[t] = 0
  BY <1>1 DEF LoginsOK, Grows, Made
<1>3. \A j \in jobs' : SignsIn(j) => j.token \notin states' /\ logins[j.token] = 0
  BY DEF LoginsOK
<1>4. \A j, k \in jobs' :
        SignsIn(j) /\ SignsIn(k) /\ j.token = k.token => j = k
  BY DEF LoginsOK
<1> QED
  BY <1>2, <1>3, <1>4 DEF LoginsOK, SignsIn

(* No subject gains an account or a handler. *)
LEMMA OwnersKept ==
  ASSUME OwnersOK, SameOwners, jobs' \subseteq jobs, raced \subseteq raced'
  PROVE  OwnersOK'
BY DEF OwnersOK, SameOwners, SignsUp

(* A pair is made: an access token with the role of a row, and a refresh token
   with a number of its own. *)
LEMMA PairFacts ==
  ASSUME MadeOK, NEW u, NEW row, NEW rest,
         GenerateTokenPair(u, row, rest), UNCHANGED keys
  PROVE  /\ MadeOK'
         /\ made'.tokens = made.tokens + 1
         /\ made'.resets = made.resets /\ made'.states = made.states
         /\ access' = access \union {[user |-> u, role |-> row.role]}
         /\ DOMAIN refresh' = DOMAIN rest \union {made.tokens + 1}
         /\ refresh'[made.tokens + 1] = u
         /\ \A t \in DOMAIN rest : t # made.tokens + 1 => refresh'[t] = rest[t]
<1>1. /\ Counted("tokens") /\ refresh' = With(rest, made.tokens + 1, u)
      /\ access' = access \union {[user |-> u, role |-> row.role]}
  BY DEF GenerateTokenPair, GenerateToken, Save
<1>2. /\ MadeOK' /\ made'.tokens = made.tokens + 1
      /\ made'.resets = made.resets /\ made'.states = made.states
  BY <1>1, CountedTokens
<1>3. /\ DOMAIN refresh' = DOMAIN rest \union {made.tokens + 1}
      /\ refresh'[made.tokens + 1] = u
      /\ \A t \in DOMAIN rest : t # made.tokens + 1 => refresh'[t] = rest[t]
  BY <1>1 DEF With
<1> QED
  BY <1>1, <1>2, <1>3

(* The access token of a pair is of an account that exists. *)
LEMMA PairAccess ==
  ASSUME AccessOK, Grows, NEW u \in DOMAIN users', NEW row, row.role \in Roles,
         access' = access \union {[user |-> u, role |-> row.role]}
  PROVE  AccessOK'
BY DEF AccessOK, Grows

(* And so is the refresh token. *)
LEMMA PairRefresh ==
  ASSUME MadeOK, MadeOK', RefreshOK, Grows, NEW u \in DOMAIN users',
         made'.tokens = made.tokens + 1,
         NEW rest,
         \A t \in DOMAIN rest : t \in DOMAIN refresh /\ rest[t] = refresh[t],
         DOMAIN refresh' = DOMAIN rest \union {made.tokens + 1},
         refresh'[made.tokens + 1] = u,
         \A t \in DOMAIN rest : t # made.tokens + 1 => refresh'[t] = rest[t]
  PROVE  RefreshOK'
<1>1. made.tokens \in Nat
  BY DEF MadeOK
<1> QED
  BY <1>1 DEF RefreshOK, Grows

(* The new token has never been used. *)
LEMMA PairUses ==
  ASSUME MadeOK, MadeOK', UsesOK, UNCHANGED uses, RefreshOK, JobsOK,
         made'.tokens = made.tokens + 1, raced \subseteq raced',
         jobs' \subseteq jobs,
         DOMAIN refresh' \subseteq DOMAIN refresh \union {made.tokens + 1}
  PROVE  UsesOK'
<1>1. made.tokens \in Nat /\ MaxMade \in Nat
  BY AccountsAssumption DEF MadeOK
<1>2. \A t \in Made : uses[t] \in Nat
  BY DEF UsesOK
<1> QED
  BY <1>1, <1>2 DEF UsesOK, UsedUp, Refreshes, Made

-----------------------------------------------------------------------------
(* What is written into the table. *)

(* A new row is that of an account without one, and the others stay. *)
LEMMA CreateFacts ==
  ASSUME NEW u, NEW row, Create(u, row)
  PROVE  /\ DOMAIN users' = DOMAIN users \union {u} /\ u \notin DOMAIN users
         /\ users'[u] = row
         /\ \A v \in DOMAIN users : users'[v] = users[v]
BY DEF Create, With, GetByEmail

(* A new row is of its type, and is what was written last. *)
LEMMA CreateKeeps ==
  ASSUME RowsOK, LastOK, NEW u \in Accounts, NEW row \in Row, Create(u, row)
  PROVE  RowsOK' /\ LastOK'
<1>0. /\ DOMAIN users' = DOMAIN users \union {u} /\ u \notin DOMAIN users
      /\ users'[u] = row
      /\ \A v \in DOMAIN users : users'[v] = users[v]
  BY CreateFacts
<1>1. RowsOK'
  BY <1>0 DEF RowsOK
<1>2. /\ DOMAIN last' = DOMAIN last \union {u}
      /\ last'[u] = [role |-> row.role, password |-> row.password]
      /\ \A v \in DOMAIN last : v # u => last'[v] = last[v]
  BY DEF Create, With
<1>3. row.role \in Roles /\ row.password \in Passwords \union {NoPassword}
  BY DEF Row
<1>4. last'[u].role = row.role /\ last'[u].password = row.password
  BY <1>2
<1>5. last'[u] \in [role : Roles, password : Passwords \union {NoPassword}]
  BY <1>2, <1>3
<1>6. \A v \in DOMAIN last' : v # u => v \in DOMAIN last /\ v \in DOMAIN users
  BY <1>2 DEF LastOK
<1>7. RowKeepsLastWrite'
  BY <1>0, <1>2, <1>4, <1>6 DEF LastOK, RowKeepsLastWrite
<1> QED
  BY <1>0, <1>1, <1>2, <1>5, <1>6, <1>7 DEF LastOK

(* A row written back has the role that was read, and is given no other
   subject: what was written last on purpose is in it, or no longer said to
   be. *)
LEMMA UpdateKeeps ==
  ASSUME RowsOK, LastOK, NEW u \in DOMAIN users, NEW row \in Row, NEW read,
         row.role = read.role, row.oauth = users[u].oauth,
         NEW password, row.password = password,
         Update(u, row, read, password)
  PROVE  RowsOK' /\ LastOK' /\ SameOwners
<1>1. /\ DOMAIN users' = DOMAIN users
      /\ users'[u] = row
      /\ \A v \in DOMAIN users : v # u => users'[v] = users[v]
  BY DEF Update, With
<1>2. RowsOK' /\ SameOwners
  BY <1>1 DEF RowsOK, SameOwners
<1>3. CASE users[u] # read
  <2>1. /\ DOMAIN last' = DOMAIN last \ {u}
        /\ \A v \in DOMAIN last' : last'[v] = last[v]
    BY <1>3 DEF Update, Without
  <2> QED
    BY <1>1, <1>2, <2>1 DEF LastOK, RowKeepsLastWrite
<1>4. CASE users[u] = read
  <2>1. /\ DOMAIN last' = DOMAIN last
        /\ \A v \in DOMAIN last : v # u => last'[v] = last[v]
        /\ u \in DOMAIN last => last'[u] = [last[u] EXCEPT !.password = password]
    BY <1>4 DEF Update
  <2>2. password \in Passwords \union {NoPassword}
    BY DEF Row
  <2>3. ASSUME u \in DOMAIN last
        PROVE  /\ last'[u] \in
                    [role : Roles, password : Passwords \union {NoPassword}]
               /\ last'[u].role = users'[u].role
               /\ last'[u].password = users'[u].password
    <3>1. last[u] \in [role : Roles, password : Passwords \union {NoPassword}]
      BY <2>3 DEF LastOK
    <3>2. last[u].role = row.role
      BY <1>4, <2>3 DEF LastOK, RowKeepsLastWrite
    <3>3. last'[u].role = last[u].role /\ last'[u].password = password
      BY <2>1, <2>3, <3>1
    <3>4. last'[u] \in [role : Roles, password : Passwords \union {NoPassword}]
      BY <2>1, <2>2, <2>3, <3>1
    <3> QED
      BY <1>1, <3>2, <3>3, <3>4
  <2> QED
    BY <1>1, <1>2, <2>1, <2>3 DEF LastOK, RowKeepsLastWrite
<1> QED
  BY <1>2, <1>3, <1>4

(* A new role changes neither the password nor the subject of a row. *)
LEMMA RoleKeeps ==
  ASSUME RowsOK, LastOK, NEW u \in DOMAIN users, NEW role,
         UpdateUserRole(u, role)
  PROVE  RowsOK' /\ LastOK' /\ SameOwners
<1> DEFINE row == users'[u]
<1>1. /\ DOMAIN users' = DOMAIN users
      /\ row = [users[u] EXCEPT !.role = role]
      /\ \A v \in DOMAIN users : v # u => users'[v] = users[v]
  BY DEF UpdateUserRole
<1>2. users[u] \in Row /\ role \in Roles
  BY DEF RowsOK, UpdateUserRole
<1>3. /\ row \in Row /\ row.role = role
      /\ row.oauth = users[u].oauth /\ row.password = users[u].password
  <2> HIDE DEF row
  <2> QED
    BY <1>1, <1>2 DEF Row
<1>4. RowsOK' /\ SameOwners
  BY <1>1, <1>3 DEF RowsOK, SameOwners
<1>5. /\ DOMAIN last' = DOMAIN last
      /\ \A v \in DOMAIN last : v # u => last'[v] = last[v]
      /\ u \in DOMAIN last => last'[u] = [last[u] EXCEPT !.role = role]
  BY DEF UpdateUserRole
<1>6. ASSUME u \in DOMAIN last
      PROVE  /\ last'[u] \in [role : Roles, password : Passwords \union {NoPassword}]
             /\ last'[u].role = users'[u].role
             /\ last'[u].password = users'[u].password
  <2>1. /\ last[u] \in [role : Roles, password : Passwords \union {NoPassword}]
        /\ last[u].password = users[u].password
    BY <1>6 DEF LastOK, RowKeepsLastWrite
  <2> QED
    BY <1>2, <1>3, <1>5, <1>6, <2>1
<1> QED
  BY <1>1, <1>4, <1>5, <1>6 DEF LastOK, RowKeepsLastWrite

(* Without another handler about to make an account for the subject, a new row
   is its only one; a row with no subject changes nothing. *)
LEMMA CreateOwners ==
  ASSUME OwnersOK, JobsOK, NEW u, NEW row, Create(u, row), jobs' \subseteq jobs,
         UNCHANGED raced,
         \/ row.oauth = Local
         \/ \E j \in jobs : /\ j.kind = "sign up" /\ j.row = row
                            /\ j \notin jobs'
  PROVE  OwnersOK'
<1>0. /\ DOMAIN users' = DOMAIN users \union {u} /\ u \notin DOMAIN users
      /\ users'[u] = row
      /\ \A v \in DOMAIN users : users'[v] = users[v]
  BY CreateFacts
<1>1. Local \notin Subjects
  BY AccountsAssumption DEF Local
<1>2. ASSUME NEW s \in Subjects \ raced, row.oauth = s
      PROVE  /\ \A v \in DOMAIN users : users[v].oauth # s
             /\ \A j \in jobs' : ~ SignsUp(j, s)
  BY <1>1, <1>2 DEF OwnersOK, SignsUp
<1> SUFFICES ASSUME NEW s \in Subjects \ raced
             PROVE  /\ \A v, w \in DOMAIN users' :
                         users'[v].oauth = s /\ users'[w].oauth = s => v = w
                    /\ \A j \in jobs' : SignsUp(j, s) =>
                         \A v \in DOMAIN users' : users'[v].oauth # s
                    /\ \A j, k \in jobs' : SignsUp(j, s) /\ SignsUp(k, s) => j = k
  BY DEF OwnersOK, SignsUp
<1>3. CASE row.oauth = s
  BY <1>0, <1>2, <1>3 DEF OwnersOK, SignsUp
<1>4. CASE row.oauth # s
  <2>1. \A v \in DOMAIN users' :
          users'[v].oauth = s => v \in DOMAIN users /\ users[v].oauth = s
    BY <1>0, <1>4
  <2>2. \A v, w \in DOMAIN users' :
          users'[v].oauth = s /\ users'[w].oauth = s => v = w
    BY <2>1 DEF OwnersOK
  <2>3. \A j \in jobs' : SignsUp(j, s) => \A v \in DOMAIN users : users[v].oauth # s
    BY DEF OwnersOK, SignsUp
  <2>4. \A j, k \in jobs' : SignsUp(j, s) /\ SignsUp(k, s) => j = k
    BY DEF OwnersOK, SignsUp
  <2> QED
    BY <2>1, <2>2, <2>3, <2>4
<1> QED
  BY <1>3, <1>4

-----------------------------------------------------------------------------
(* The handlers that need no reading of a row. *)

LEMMA InitAccounts == Init => AccountsInv
<1> SUFFICES ASSUME Init PROVE AccountsInv
  OBVIOUS
<1> USE DEF Init
<1>1. MaxMade \in Nat /\ MaxJobs \in Nat /\ FirstAdmin \in Users
      /\ Local \notin Subjects
  BY AccountsAssumption DEF Local
<1>2. DOMAIN keys = {} /\ DOMAIN refresh = {} /\ DOMAIN resets = {}
  OBVIOUS
<1>3. MadeOK
  <2>1. IsFiniteSet(DOMAIN keys) /\ Cardinality(DOMAIN keys) = 0
    BY <1>2, FS_EmptySet
  <2> QED
    BY <1>1, <2>1 DEF MadeOK, Spent
<1>4. DOMAIN users = {FirstAdmin} /\ DOMAIN last = {FirstAdmin}
  OBVIOUS
<1>5. /\ users[FirstAdmin] \in Row
      /\ users[FirstAdmin].role = "admin" /\ users[FirstAdmin].oauth = Local
      /\ users[FirstAdmin].password \in Passwords
  BY DEF Row, Roles
<1>6. RowsOK
  BY <1>1, <1>4, <1>5 DEF RowsOK, Accounts
<1>7. LastOK
  <2>1. last[FirstAdmin] = [role |-> "admin",
                            password |-> users[FirstAdmin].password]
    OBVIOUS
  <2> QED
    BY <1>4, <1>5, <2>1 DEF LastOK, RowKeepsLastWrite, Roles
<1>8. RefreshOK /\ ResetsOK /\ StatesOK /\ AccessOK /\ KeysOK
  BY <1>2 DEF RefreshOK, ResetsOK, StatesOK, AccessOK, KeysOK
<1>9. JobsOK
  BY FS_EmptySet DEF JobsOK
<1>10. UsesOK
  BY DEF UsesOK, UsedUp
<1>11. LoginsOK
  BY DEF LoginsOK
<1>12. OwnersOK
  BY <1>1, <1>4, <1>5 DEF OwnersOK
<1> QED
  BY <1>3, <1>6, <1>7, <1>8, <1>9, <1>10, <1>11, <1>12 DEF AccountsInv

(* Registering makes an account without a subject, and its first session. *)
LEMMA RegisterKeeps ==
  ASSUME AccountsInv, NEW u \in Users, NEW password \in Passwords,
         HandleRegister(u, password)
  PROVE  AccountsInv'
<1> DEFINE row == NewUser(password, Local)
<1>1. /\ Create(u, row)
      /\ \/ GenerateTokenPair(u, row, refresh)
         \/ UNCHANGED <<access, refresh, made>>
      /\ UNCHANGED <<resets, states, keys, jobs, uses, raced, logins>>
  BY DEF HandleRegister, Register, counts
<1>2. /\ row \in Row /\ row.role \in Roles /\ row.oauth = Local
      /\ u \in Accounts
  BY DEF Row, NewUser, Roles, Accounts
<1> HIDE DEF row
<1> USE DEF AccountsInv
<1>3. RowsOK' /\ LastOK'
  BY <1>1, <1>2, CreateKeeps
<1>4. /\ DOMAIN users' = DOMAIN users \union {u}
      /\ \A v \in DOMAIN users : users'[v] = users[v]
  BY <1>1, CreateFacts
<1>5. OwnersOK'
  BY <1>1, <1>2, CreateOwners
<1>6. CASE UNCHANGED <<access, refresh, made>>
  <2>1. MadeOK'
    BY <1>1, <1>6, MadeKept
  <2>2. Grows
    BY <1>4, <1>6, MadeFacts DEF Grows
  <2>3. RefreshOK'
    BY <1>6, <2>1, <2>2, RefreshKept
  <2>4. ResetsOK' /\ StatesOK' /\ AccessOK' /\ KeysOK' /\ JobsOK'
    BY <1>1, <1>6, <2>1, <2>2, ResetsKept, StatesKept, AccessKept, KeysKept,
       JobsKept
  <2>5. UsesOK' /\ LoginsOK'
    BY <1>1, <1>6, <2>1, <2>2, UsesKept, LoginsKept
  <2> QED
    BY <1>3, <1>5, <2>1, <2>3, <2>4, <2>5
<1>7. CASE GenerateTokenPair(u, row, refresh)
  <2>1. /\ MadeOK'
        /\ made'.tokens = made.tokens + 1
        /\ made'.resets = made.resets /\ made'.states = made.states
        /\ access' = access \union {[user |-> u, role |-> row.role]}
        /\ DOMAIN refresh' = DOMAIN refresh \union {made.tokens + 1}
        /\ refresh'[made.tokens + 1] = u
        /\ \A t \in DOMAIN refresh :
             t # made.tokens + 1 => refresh'[t] = refresh[t]
    BY <1>1, <1>7, PairFacts
  <2>2. Grows
    BY <1>4, <2>1, MadeFacts DEF Grows
  <2>3. u \in DOMAIN users'
    BY <1>4
  <2>4. AccessOK'
    BY <1>2, <2>1, <2>2, <2>3, PairAccess
  <2>5. RefreshOK'
    BY <2>1, <2>2, <2>3, PairRefresh
  <2>6. ResetsOK' /\ StatesOK' /\ KeysOK' /\ JobsOK'
    BY <1>1, <2>1, <2>2, ResetsKept, StatesKept, KeysKept, JobsKept
  <2>7. UsesOK'
    BY <1>1, <2>1, PairUses
  <2>8. LoginsOK'
    BY <1>1, <2>1, <2>2, LoginsKept
  <2> QED
    BY <1>3, <1>5, <2>1, <2>4, <2>5, <2>6, <2>7, <2>8
<1> QED
  BY <1>1, <1>6, <1>7

(* Logging in makes a pair of tokens. *)
LEMMA LoginKeeps ==
  ASSUME AccountsInv, NEW u \in Users, NEW password, HandleLogin(u, password)
  PROVE  AccountsInv'
<1> DEFINE row == users[u]
<1>1. /\ u \in DOMAIN users
      /\ GenerateTokenPair(u, row, refresh)
      /\ UNCHANGED <<users, resets, states, keys, jobs, last, uses, raced, logins>>
  BY DEF HandleLogin, Login, counts, GetByEmail
<1> USE DEF AccountsInv
<1>2. row.role \in Roles
  BY <1>1 DEF RowsOK, Row
<1> HIDE DEF row
<1>3. /\ MadeOK'
      /\ made'.tokens = made.tokens + 1
      /\ made'.resets = made.resets /\ made'.states = made.states
      /\ access' = access \union {[user |-> u, role |-> row.role]}
      /\ DOMAIN refresh' = DOMAIN refresh \union {made.tokens + 1}
      /\ refresh'[made.tokens + 1] = u
      /\ \A t \in DOMAIN refresh :
           t # made.tokens + 1 => refresh'[t] = refresh[t]
  BY <1>1, PairFacts
<1>4. SameOwners
  BY <1>1, SameUnchanged
<1>5. Grows
  BY <1>3, <1>4, MadeFacts DEF Grows, SameOwners
<1>6. AccessOK'
  BY <1>1, <1>2, <1>3, <1>5, PairAccess
<1>7. RefreshOK'
  BY <1>1, <1>3, <1>5, PairRefresh
<1>8. RowsOK' /\ LastOK' /\ OwnersOK'
  BY <1>1, <1>4, RowsKept, LastKept, OwnersKept
<1>9. ResetsOK' /\ StatesOK' /\ KeysOK' /\ JobsOK'
  BY <1>1, <1>3, <1>5, ResetsKept, StatesKept, KeysKept, JobsKept
<1>10. UsesOK'
  BY <1>1, <1>3, PairUses
<1>11. LoginsOK'
  BY <1>1, <1>3, <1>5, LoginsKept
<1> QED
  BY <1>3, <1>6, <1>7, <1>8, <1>9, <1>10, <1>11

(* What only takes away, tokens, states or handlers, takes nothing from what
   is so. *)
LEMMA ShrinkKeeps ==
  ASSUME AccountsInv, UNCHANGED <<users, made, keys, last, uses, logins>>,
         jobs' \subseteq jobs, access' \subseteq access, states' \subseteq states,
         raced \subseteq raced',
         \A t \in DOMAIN refresh' : t \in DOMAIN refresh /\ refresh'[t] = refresh[t],
         \A t \in DOMAIN resets' : t \in DOMAIN resets /\ resets'[t] = resets[t]
  PROVE  AccountsInv'
<1> USE DEF AccountsInv
<1>1. SameOwners
  BY SameUnchanged
<1>2. MadeOK'
  BY MadeKept
<1>3. Grows
  BY <1>1, GrowsUnchanged
<1>4. RowsOK' /\ LastOK' /\ OwnersOK'
  BY <1>1, RowsKept, LastKept, OwnersKept
<1>5. RefreshOK' /\ ResetsOK'
  BY <1>2, <1>3, RefreshKept, ResetsKept
<1>6. StatesOK' /\ AccessOK' /\ KeysOK' /\ JobsOK'
  BY <1>2, <1>3, StatesKept, AccessKept, KeysKept, JobsKept
<1>7. UsesOK'
  BY <1>2, <1>3, UsesKept
<1>8. LoginsOK'
  BY <1>2, <1>3, LoginsKept
<1> QED
  BY <1>2, <1>4, <1>5, <1>6, <1>7, <1>8

(* A handler starts: with the row as it is, or for a subject that has none. *)
LEMMA StartKeeps ==
  ASSUME AccountsInv, UNCHANGED <<users, refresh, access, resets, made, keys,
                                  last, uses, logins>>,
         NEW kind \in Kinds, NEW u \in Accounts, NEW t \in Made \union {0},
         NEW row \in Row, Start(kind, u, t, row),
         states' \subseteq states, raced \subseteq raced',
         kind # "sign up" => u \in DOMAIN users /\ row.oauth = users[u].oauth,
         kind = "refresh" =>
           /\ t \in DOMAIN refresh
           /\ t \in raced' \/ \A j \in jobs : ~ Refreshes(j, t),
         kind \in {"sign in", "sign up"} => t \in states /\ t \notin states',
         kind = "sign up" =>
           \/ row.oauth \in raced'
           \/ /\ \A j \in jobs : ~ SignsUp(j, row.oauth)
              /\ \A v \in DOMAIN users : users[v].oauth # row.oauth
  PROVE  AccountsInv'
<1>0. JobsOK
  BY DEF AccountsInv
<1>1. PICK n : /\ n.kind = kind /\ n.user = u /\ n.token = t /\ n.row = row
               /\ n \in Job
               /\ jobs' = jobs \union {n}
               /\ IsFiniteSet(jobs')
  <2> DEFINE m == [kind |-> kind, slot |-> Slot, user |-> u, token |-> t,
                   row |-> row]
  <2>1. jobs' = jobs \union {m} /\ Slot \in 1..MaxJobs
    BY <1>0, SlotFree DEF Start, JobsOK
  <2>2. m \in Job
    BY <2>1 DEF Job
  <2>3. m.kind = kind /\ m.user = u /\ m.token = t /\ m.row = row
    OBVIOUS
  <2> HIDE DEF m
  <2>4. IsFiniteSet(jobs')
    BY <1>0, <2>1, FS_AddElement DEF JobsOK
  <2> QED
    BY <2>1, <2>2, <2>3, <2>4
<1> USE DEF AccountsInv
<1>2. SameOwners /\ MadeOK'
  BY SameUnchanged, MadeKept
<1>3. Grows
  BY <1>2, GrowsUnchanged
<1>4. RowsOK' /\ LastOK' /\ RefreshOK' /\ ResetsOK'
  BY <1>2, <1>3, RowsKept, LastKept, RefreshKept, ResetsKept
<1>5. StatesOK' /\ AccessOK' /\ KeysOK'
  BY <1>2, <1>3, StatesKept, AccessKept, KeysKept
<1>6. JobsOK'
  <2>2. JobOK(n)'
    BY <1>1 DEF JobOK, RefreshOK, StatesOK, SignsIn
  <2>3. \A j \in jobs : JobOK(j)'
    BY <1>2, <1>3, JobKept DEF JobsOK
  <2> QED
    BY <1>1, <2>2, <2>3 DEF JobsOK
<1>7. UsesOK'
  <2> SUFFICES ASSUME NEW w \in Made \ raced'
               PROVE  /\ uses[w] = 0 \/ (uses[w] = 1 /\ UsedUp(w)')
                      /\ \A j, k \in jobs' :
                           Refreshes(j, w) /\ Refreshes(k, w) => j = k
    BY DEF UsesOK, Refreshes
  <2>1. CASE Refreshes(n, w)
    <3>1. w \in DOMAIN refresh /\ \A j \in jobs : ~ Refreshes(j, w)
      BY <1>1, <2>1 DEF Refreshes
    <3>2. uses[w] = 0
      BY <3>1 DEF UsesOK, UsedUp
    <3> QED
      BY <1>1, <3>1, <3>2 DEF Refreshes
  <2>2. CASE ~ Refreshes(n, w)
    <3>1. \A j \in jobs' : Refreshes(j, w) => j \in jobs
      BY <1>1, <2>2
    <3>2. w \in Made \ raced
      OBVIOUS
    <3>3. UsedUp(w) => UsedUp(w)'
      BY <3>1 DEF UsedUp, Refreshes
    <3> QED
      BY <3>1, <3>2, <3>3 DEF UsesOK
  <2> QED
    BY <2>1, <2>2
<1>8. LoginsOK'
  <2>1. CASE SignsIn(n)
    <3>1. t \in states /\ t \notin states' /\ t \in Made
      BY <1>1, <2>1, MadeFacts DEF SignsIn, StatesOK
    <3>2. \A j \in jobs : SignsIn(j) => j.token # t
      BY <3>1 DEF LoginsOK
    <3>3. logins[t] = 0
      BY <3>1 DEF LoginsOK
    <3>4. \A j \in jobs' : j # n => j \in jobs
      BY <1>1
    <3>5. \A j \in jobs' : SignsIn(j) => j.token \notin states' /\ logins[j.token] = 0
      BY <1>1, <3>1, <3>3, <3>4 DEF LoginsOK
    <3>6. \A j, k \in jobs' :
            SignsIn(j) /\ SignsIn(k) /\ j.token = k.token => j = k
      BY <1>1, <3>2, <3>4 DEF LoginsOK
    <3> QED
      BY <3>5, <3>6 DEF LoginsOK, SignsIn
  <2>2. CASE ~ SignsIn(n)
    <3>1. \A j \in jobs' : SignsIn(j) => j \in jobs
      BY <1>1, <2>2
    <3>5. \A j \in jobs' : SignsIn(j) => j.token \notin states' /\ logins[j.token] = 0
      BY <3>1 DEF LoginsOK
    <3>6. \A j, k \in jobs' :
            SignsIn(j) /\ SignsIn(k) /\ j.token = k.token => j = k
      BY <3>1 DEF LoginsOK
    <3> QED
      BY <3>5, <3>6 DEF LoginsOK, SignsIn
  <2> QED
    BY <2>1, <2>2
<1>9. OwnersOK'
  <2> SUFFICES ASSUME NEW s \in Subjects \ raced'
               PROVE  /\ \A v, w \in DOMAIN users :
                           users[v].oauth = s /\ users[w].oauth = s => v = w
                      /\ \A j \in jobs' : SignsUp(j, s) =>
                           \A v \in DOMAIN users : users[v].oauth # s
                      /\ \A j, k \in jobs' : SignsUp(j, s) /\ SignsUp(k, s) => j = k
    BY DEF OwnersOK, SignsUp
  <2>0. s \in Subjects \ raced
    OBVIOUS
  <2>1. CASE SignsUp(n, s)
    <3>1. /\ \A j \in jobs : ~ SignsUp(j, s)
          /\ \A v \in DOMAIN users : users[v].oauth # s
      BY <1>1, <2>1 DEF SignsUp
    <3> QED
      BY <1>1, <3>1
  <2>2. CASE ~ SignsUp(n, s)
    <3>1. \A j \in jobs' : SignsUp(j, s) => j \in jobs
      BY <1>1, <2>2
    <3> QED
      BY <2>0, <3>1 DEF OwnersOK
  <2> QED
    BY <2>1, <2>2
<1> QED
  BY <1>2, <1>4, <1>5, <1>6, <1>7, <1>8, <1>9

(* Logging out takes a refresh token away. *)
LEMMA LogoutKeeps ==
  ASSUME AccountsInv, NEW t, HandleLogout(t)
  PROVE  AccountsInv'
<1>1. \A v \in DOMAIN refresh' : v \in DOMAIN refresh /\ refresh'[v] = refresh[v]
  BY DEF HandleLogout, Logout, Delete, Without
<1> QED
  BY <1>1, ShrinkKeeps DEF HandleLogout, counts

(* A pair that is not made leaves the old token out of Redis all the same. *)
LEMMA RefreshFailsKeeps ==
  ASSUME AccountsInv, NEW j \in jobs, RefreshFails(j)
  PROVE  AccountsInv'
<1>1. \A v \in DOMAIN refresh' : v \in DOMAIN refresh /\ refresh'[v] = refresh[v]
  BY DEF RefreshFails, Delete, Without
<1> QED
  BY <1>1, ShrinkKeeps DEF RefreshFails, Ends, counts

(* An access token goes by itself. *)
LEMMA AccessExpiresKeeps ==
  ASSUME AccountsInv, NEW a, AccessExpires(a)
  PROVE  AccountsInv'
BY ShrinkKeeps DEF AccessExpires, counts

(* A handler that returns early writes nothing. *)
LEMMA JobFailsKeeps ==
  ASSUME AccountsInv, NEW j, JobFails(j)
  PROVE  AccountsInv'
BY ShrinkKeeps DEF JobFails, Ends, tokens, counts

(* A callback that fails spends its state. *)
LEMMA CallbackFailsKeeps ==
  ASSUME AccountsInv, NEW t, CallbackFails(t)
  PROVE  AccountsInv'
BY ShrinkKeeps DEF CallbackFails, ValidateState, tokens, counts

(* Nothing happens. *)
LEMMA StutterKeeps ==
  ASSUME AccountsInv, UNCHANGED vars
  PROVE  AccountsInv'
BY ShrinkKeeps DEF vars

(* A refresh token that another handler holds is noted as raced. *)
LEMMA BeginRefreshKeeps ==
  ASSUME AccountsInv, NEW t, BeginRefresh(t)
  PROVE  AccountsInv'
<1>1. t \in DOMAIN refresh /\ refresh[t] \in DOMAIN users /\ t \in Made
  BY MadeFacts DEF BeginRefresh, Get, GetByID, AccountsInv, RefreshOK
<1>2. /\ refresh[t] \in Accounts /\ users[refresh[t]] \in Row
      /\ "refresh" \in Kinds
  BY <1>1 DEF AccountsInv, RowsOK, Kinds
<1>3. /\ raced \subseteq raced'
      /\ t \in raced' \/ \A j \in jobs : ~ Refreshes(j, t)
  BY DEF BeginRefresh, Refreshes
<1>4. /\ Start("refresh", refresh[t], t, users[refresh[t]])
      /\ UNCHANGED <<users, refresh, access, resets, states, made, keys, last,
                     uses, logins>>
  BY DEF BeginRefresh, tokens
<1> DEFINE u == refresh[t]
           row == users[u]
<1>5. row.oauth = users[u].oauth
  OBVIOUS
<1> HIDE DEF row, u
<1> QED
  BY <1>1, <1>2, <1>3, <1>4, <1>5, StartKeeps DEF row, u

(* A reset reads the row its token stands for. *)
LEMMA BeginResetKeeps ==
  ASSUME AccountsInv, NEW t, BeginReset(t)
  PROVE  AccountsInv'
<1>1. t \in DOMAIN resets /\ resets[t] \in DOMAIN users /\ t \in Made
  BY MadeFacts DEF BeginReset, GetByID, AccountsInv, ResetsOK
<1>2. /\ resets[t] \in Accounts /\ users[resets[t]] \in Row
      /\ "reset" \in Kinds
  BY <1>1 DEF AccountsInv, RowsOK, Kinds
<1>3. /\ Start("reset", resets[t], t, users[resets[t]])
      /\ UNCHANGED <<users, refresh, access, resets, states, made, keys, last,
                     uses, raced, logins>>
  BY DEF BeginReset, tokens, counts
<1> QED
  BY <1>1, <1>2, <1>3, StartKeeps

(* A profile's change reads the row of the user of the JWT. *)
LEMMA BeginProfileKeeps ==
  ASSUME AccountsInv, NEW cookie, NEW bearer, NEW k,
         BeginProfile(cookie, bearer, k)
  PROVE  AccountsInv'
<1>1. PICK u \in DOMAIN users : Start("profile", u, 0, users[u])
  BY DEF BeginProfile, GetByID
<1>2. u \in Accounts /\ users[u] \in Row /\ "profile" \in Kinds
  BY <1>1 DEF AccountsInv, RowsOK, Kinds
<1>3. UNCHANGED <<users, refresh, access, resets, states, made, keys, last,
                  uses, raced, logins>>
  BY DEF BeginProfile, tokens, counts
<1> QED
  BY <1>1, <1>2, <1>3, StartKeeps

(* A state is spent before anything is read, and a subject that another first
   login is about to give an account is noted as raced. *)
LEMMA CallbackKeeps ==
  ASSUME AccountsInv, NEW served, served \subseteq Subjects, NEW t, NEW s,
         HandleCallback(served, t, s)
  PROVE  AccountsInv'
<1>1. /\ s \in Subjects /\ t \in states /\ states' = states \ {t}
      /\ UNCHANGED <<users, refresh, access, resets, made, keys, last, uses,
                     logins>>
  BY DEF HandleCallback, ValidateState, tokens
<1>2. t \in Made
  BY <1>1, MadeFacts DEF AccountsInv, StatesOK
<1>3. /\ raced \subseteq raced'
      /\ s \in raced' \/ \A j \in jobs : ~ SignsUp(j, s)
  BY DEF HandleCallback, SignsUp
<1>4. CASE \E u \in GetByOAuth(s) : Start("sign in", u, t, users[u])
  <2>1. PICK u \in DOMAIN users : Start("sign in", u, t, users[u])
    BY <1>4 DEF GetByOAuth
  <2>2. u \in Accounts /\ users[u] \in Row /\ "sign in" \in Kinds
    BY <2>1 DEF AccountsInv, RowsOK, Kinds
  <2> QED
    BY <1>1, <1>2, <1>3, <2>1, <2>2, StartKeeps
<1>5. CASE /\ GetByOAuth(s) = {}
           /\ \E u \in UserInfo(s) :
                Start("sign up", u, t, NewUser(NoPassword, s))
  <2>1. PICK u \in UserInfo(s) : Start("sign up", u, t, NewUser(NoPassword, s))
    BY <1>5
  <2> DEFINE row == NewUser(NoPassword, s)
  <2>2. u \in Accounts /\ "sign up" \in Kinds
    BY <1>1, <2>1, UserInfoFacts DEF Kinds
  <2>3. row \in Row /\ row.oauth = s
    BY <1>1 DEF Row, NewUser, Roles
  <2>4. \A v \in DOMAIN users : users[v].oauth # s
    BY <1>5 DEF GetByOAuth
  <2>5. Start("sign up", u, t, row)
    BY <2>1
  <2> HIDE DEF row
  <2> QED
    BY <1>1, <1>2, <1>3, <2>2, <2>3, <2>4, <2>5, StartKeeps
<1> QED
  BY <1>4, <1>5 DEF HandleCallback

(* A new reset token is of an account that exists. *)
LEMMA ForgotPasswordKeeps ==
  ASSUME AccountsInv, NEW u, ForgotPassword(u)
  PROVE  AccountsInv'
<1>1. /\ u \in DOMAIN users /\ Counted("resets")
      /\ resets' = With(resets, made.resets + 1, u)
      /\ UNCHANGED <<users, refresh, access, states, keys, jobs, last, uses,
                     raced, logins>>
  BY DEF ForgotPassword, RequestPasswordReset, GetByEmail, tokens, counts
<1> USE DEF AccountsInv
<1>2. /\ MadeOK' /\ made'.resets = made.resets + 1
      /\ made'.tokens = made.tokens /\ made'.states = made.states
  BY <1>1, CountedResets
<1>3. SameOwners
  BY <1>1, SameUnchanged
<1>4. Grows
  BY <1>2, <1>3, MadeFacts DEF Grows, SameOwners
<1>5. ResetsOK'
  <2>1. /\ DOMAIN resets' = DOMAIN resets \union {made.resets + 1}
        /\ \A t \in DOMAIN resets' :
             resets'[t] = IF t = made.resets + 1 THEN u ELSE resets[t]
    BY <1>1 DEF With
  <2> QED
    BY <1>1, <1>2, <2>1, MadeFacts DEF ResetsOK
<1>6. RowsOK' /\ LastOK' /\ OwnersOK'
  BY <1>1, <1>3, RowsKept, LastKept, OwnersKept
<1>7. RefreshOK' /\ UsesOK' /\ LoginsOK'
  BY <1>1, <1>2, <1>4, RefreshKept, UsesKept, LoginsKept
<1>8. StatesOK' /\ AccessOK' /\ KeysOK' /\ JobsOK'
  BY <1>1, <1>2, <1>4, StatesKept, AccessKept, KeysKept, JobsKept
<1> QED
  BY <1>2, <1>5, <1>6, <1>7, <1>8

(* A new state has never been used. *)
LEMMA RedirectKeeps ==
  ASSUME AccountsInv, Redirect
  PROVE  AccountsInv'
<1>1. /\ Counted("states") /\ states' = states \union {made.states + 1}
      /\ UNCHANGED <<users, refresh, access, resets, keys, jobs, last, uses,
                     raced, logins>>
  BY DEF Redirect, SaveState, tokens, counts
<1> USE DEF AccountsInv
<1>2. /\ MadeOK' /\ made'.states = made.states + 1
      /\ made'.tokens = made.tokens /\ made'.resets = made.resets
  BY <1>1, CountedStates
<1>3. SameOwners
  BY <1>1, SameUnchanged
<1>4. Grows
  BY <1>2, <1>3, MadeFacts DEF Grows, SameOwners
<1>5. StatesOK'
  <2>1. made.states \in Nat
    BY MadeFacts
  <2> SUFFICES ASSUME NEW t \in states' PROVE t \in 1..made'.states
    BY DEF StatesOK
  <2>2. t \in 1..made.states \/ t = made.states + 1
    BY <1>1 DEF StatesOK
  <2> QED
    BY <1>2, <2>1, <2>2
<1>6. LoginsOK'
  <2>1. \A j \in jobs : SignsIn(j) => j.token # made.states + 1
    <3> SUFFICES ASSUME NEW j \in jobs, SignsIn(j)
                 PROVE  j.token # made.states + 1
      OBVIOUS
    <3>1. j.token \in 1..made.states
      BY DEF JobsOK, JobOK
    <3> QED
      BY <3>1, MadeFacts
  <2>2. \A w \in Made : w > made'.states \/ w \in states' => logins[w] = 0
    BY <1>1, <1>2, MadeFacts DEF LoginsOK, Made
  <2>3. \A j \in jobs : SignsIn(j) => j.token \notin states' /\ logins[j.token] = 0
    BY <1>1, <2>1 DEF LoginsOK
  <2>4. \A j, k \in jobs :
          SignsIn(j) /\ SignsIn(k) /\ j.token = k.token => j = k
    BY DEF LoginsOK
  <2> QED
    BY <1>1, <2>2, <2>3, <2>4 DEF LoginsOK, SignsIn
<1>7. RowsOK' /\ LastOK' /\ OwnersOK'
  BY <1>1, <1>3, RowsKept, LastKept, OwnersKept
<1>8. RefreshOK' /\ ResetsOK' /\ UsesOK'
  BY <1>1, <1>2, <1>4, RefreshKept, ResetsKept, UsesKept
<1>9. AccessOK' /\ KeysOK' /\ JobsOK'
  BY <1>1, <1>2, <1>4, AccessKept, KeysKept, JobsKept
<1> QED
  BY <1>2, <1>5, <1>6, <1>7, <1>8, <1>9

(* What the middleware lets through is a token that has not expired. *)
LEMMA AuthFacts ==
  ASSUME NEW cookie, NEW bearer, NEW who \in JWTAuth(cookie, bearer)
  PROVE  who \in access
BY DEF JWTAuth, ValidateToken

(* A new key is its administrator's. *)
LEMMA CreateKeyKeeps ==
  ASSUME AccountsInv, NEW who \in access, CreateKey(who)
  PROVE  AccountsInv'
<1> USE DEF AccountsInv
<1>1. /\ Spent < MaxMade
      /\ UNCHANGED <<users, refresh, access, resets, states, jobs, made, last,
                     uses, raced, logins>>
  BY DEF CreateKey, tokens, counts
<1> DEFINE k == Cardinality(DOMAIN keys) + 1
<1>2. keys' = [z \in DOMAIN keys \union {k} |->
                 IF z = k THEN [user |-> who.user, revoked |-> FALSE] ELSE keys[z]]
  BY DEF CreateKey, GenerateKey, With
<1>3. DOMAIN keys' = DOMAIN keys \union {k}
  BY <1>2
<1>4. who.user \in DOMAIN users
  BY DEF AccessOK
<1>5. KeysOK'
  <2>1. keys'[k].user = who.user
    BY <1>2
  <2>2. \A z \in DOMAIN keys : z # k => keys'[z] = keys[z]
    BY <1>2
  <2> HIDE DEF k
  <2> QED
    BY <1>1, <1>3, <1>4, <2>1, <2>2 DEF KeysOK
<1>6. MadeOK'
  <2>1. IsFiniteSet(DOMAIN keys)
    BY DEF MadeOK
  <2> HIDE DEF k
  <2>2. /\ IsFiniteSet(DOMAIN keys')
        /\ Cardinality(DOMAIN keys') =
             IF k \in DOMAIN keys THEN Cardinality(DOMAIN keys)
                                  ELSE Cardinality(DOMAIN keys) + 1
    BY <1>3, <2>1, FS_AddElement
  <2>3. Spent' <= MaxMade
    BY <1>1, <2>2, MadeFacts DEF Spent
  <2> QED
    BY <1>1, <2>2, <2>3 DEF MadeOK
<1>7. SameOwners
  BY <1>1, SameUnchanged
<1>8. Grows
  BY <1>1, <1>7, GrowsUnchanged
<1>9. RowsOK' /\ LastOK' /\ OwnersOK'
  BY <1>1, <1>7, RowsKept, LastKept, OwnersKept
<1>10. RefreshOK' /\ ResetsOK' /\ UsesOK' /\ LoginsOK'
  BY <1>1, <1>6, <1>8, RefreshKept, ResetsKept, UsesKept, LoginsKept
<1>11. StatesOK' /\ AccessOK' /\ JobsOK'
  BY <1>1, <1>6, <1>8, StatesKept, AccessKept, JobsKept
<1> QED
  BY <1>5, <1>6, <1>9, <1>10, <1>11

(* A key that is revoked keeps its owner. *)
LEMMA RevokeKeyKeeps ==
  ASSUME AccountsInv, NEW who, NEW k, RevokeKey(who, k)
  PROVE  AccountsInv'
<1> USE DEF AccountsInv
<1>1. /\ k \in DOMAIN keys
      /\ keys' = [keys EXCEPT ![k].revoked = TRUE]
      /\ UNCHANGED <<users, refresh, access, resets, states, jobs, made, last,
                     uses, raced, logins>>
  BY DEF RevokeKey, Revoke, tokens, counts
<1>2. DOMAIN keys' = DOMAIN keys
  BY <1>1
<1>3. MadeOK'
  BY <1>1, <1>2 DEF MadeOK, Spent
<1>4. KeysOK'
  <2>1. \A z \in DOMAIN keys : z # k => keys'[z] = keys[z]
    BY <1>1
  <2>2. keys'[k] = [keys[k] EXCEPT !.revoked = TRUE]
    BY <1>1
  <2>3. keys'[k].user = keys[k].user
    BY <2>2
  <2> QED
    BY <1>1, <1>2, <2>1, <2>3 DEF KeysOK
<1>7. SameOwners
  BY <1>1, SameUnchanged
<1>8. Grows
  BY <1>1, <1>7, GrowsUnchanged
<1>9. RowsOK' /\ LastOK' /\ OwnersOK'
  BY <1>1, <1>7, RowsKept, LastKept, OwnersKept
<1>10. RefreshOK' /\ ResetsOK' /\ UsesOK' /\ LoginsOK'
  BY <1>1, <1>3, <1>8, RefreshKept, ResetsKept, UsesKept, LoginsKept
<1>11. StatesOK' /\ AccessOK' /\ JobsOK'
  BY <1>1, <1>3, <1>8, StatesKept, AccessKept, JobsKept
<1> QED
  BY <1>3, <1>4, <1>9, <1>10, <1>11

(* An administrator's change of a role. *)
LEMMA SubscriptionKeeps ==
  ASSUME AccountsInv, NEW who, NEW u, NEW tier,
         UpdateUserSubscription(who, u, tier)
  PROVE  AccountsInv'
<1>1. /\ u \in DOMAIN users /\ UpdateUserRole(u, tier) /\ Counted("roles")
      /\ UNCHANGED <<refresh, access, resets, states, keys, jobs, uses, raced,
                     logins>>
  BY DEF UpdateUserSubscription, GetByID, tokens, counts
<1> USE DEF AccountsInv
<1>2. /\ MadeOK' /\ made'.tokens = made.tokens
      /\ made'.resets = made.resets /\ made'.states = made.states
  BY <1>1, CountedRoles
<1>3. RowsOK' /\ LastOK' /\ SameOwners
  BY <1>1, RoleKeeps
<1>4. Grows
  BY <1>2, <1>3, MadeFacts DEF Grows, SameOwners
<1>5. OwnersOK'
  BY <1>1, <1>3, OwnersKept
<1>6. RefreshOK' /\ ResetsOK' /\ UsesOK' /\ LoginsOK'
  BY <1>1, <1>2, <1>4, RefreshKept, ResetsKept, UsesKept, LoginsKept
<1>7. StatesOK' /\ AccessOK' /\ KeysOK' /\ JobsOK'
  BY <1>1, <1>2, <1>4, StatesKept, AccessKept, KeysKept, JobsKept
<1> QED
  BY <1>2, <1>3, <1>5, <1>6, <1>7

-----------------------------------------------------------------------------
(* The handlers that come to their end. *)

(* The token that was held by one handler only is gone from Redis when its
   use is counted; otherwise it is noted as raced. *)
LEMMA FinishRefreshKeeps ==
  ASSUME AccountsInv, NEW j \in jobs, FinishRefresh(j)
  PROVE  AccountsInv'
<1> USE DEF AccountsInv
<1>1. PICK deleted \in BOOLEAN : Rotate(j, deleted)
  BY DEF FinishRefresh
<1>2. PICK rest :
        /\ GenerateTokenPair(j.user, j.row, rest)
        /\ \A t \in DOMAIN rest : t \in DOMAIN refresh /\ rest[t] = refresh[t]
        /\ deleted => j.token \notin DOMAIN rest
  <2>1. CASE deleted
    <3>1. GenerateTokenPair(j.user, j.row, Delete(j.token))
      BY <1>1, <2>1 DEF Rotate
    <3>2. /\ \A t \in DOMAIN Delete(j.token) :
               t \in DOMAIN refresh /\ Delete(j.token)[t] = refresh[t]
          /\ j.token \notin DOMAIN Delete(j.token)
      BY DEF Delete, Without
    <3> QED
      BY <3>1, <3>2
  <2>2. CASE ~ deleted
    BY <1>1, <2>2 DEF Rotate
  <2> QED
    BY <2>1, <2>2
<1>3. /\ j.kind = "refresh"
      /\ Ends(j)
      /\ uses' = [uses EXCEPT ![j.token] = @ + 1]
      /\ raced' = IF deleted THEN raced ELSE raced \union {j.token}
      /\ UNCHANGED <<users, resets, states, keys, last, logins>>
  BY <1>1 DEF FinishRefresh, Rotate
<1>4. /\ j.user \in DOMAIN users /\ j.token \in 1..made.tokens
      /\ j.row.role \in Roles
  BY <1>3 DEF JobsOK, JobOK, Job, Row
<1>5. /\ MadeOK'
      /\ made'.tokens = made.tokens + 1
      /\ made'.resets = made.resets /\ made'.states = made.states
      /\ access' = access \union {[user |-> j.user, role |-> j.row.role]}
      /\ DOMAIN refresh' = DOMAIN rest \union {made.tokens + 1}
      /\ refresh'[made.tokens + 1] = j.user
      /\ \A t \in DOMAIN rest : t # made.tokens + 1 => refresh'[t] = rest[t]
  BY <1>2, <1>3, PairFacts
<1>6. jobs' = jobs \ {j} /\ raced \subseteq raced'
  BY <1>3 DEF Ends
<1>7. SameOwners
  BY <1>3, SameUnchanged
<1>8. Grows
  BY <1>5, <1>7, MadeFacts DEF Grows, SameOwners
<1>9. j.user \in DOMAIN users'
  BY <1>3, <1>4
<1>10. AccessOK'
  BY <1>4, <1>5, <1>8, <1>9, PairAccess
<1>11. RefreshOK'
  BY <1>2, <1>5, <1>8, <1>9, PairRefresh
<1>12. RowsOK' /\ LastOK' /\ OwnersOK'
  BY <1>3, <1>6, <1>7, RowsKept, LastKept, OwnersKept
<1>13. ResetsOK' /\ StatesOK' /\ KeysOK' /\ JobsOK'
  BY <1>3, <1>5, <1>6, <1>8, ResetsKept, StatesKept, KeysKept, JobsKept
<1>14. LoginsOK'
  BY <1>3, <1>5, <1>6, <1>8, LoginsKept
<1>15. UsesOK'
  <2>1. /\ made.tokens \in Nat /\ MaxMade \in Nat /\ j.token \in Made
        /\ j.token # made.tokens + 1
    BY <1>4, MadeFacts
  <2>2. /\ uses' \in [Made -> Nat]
        /\ uses'[j.token] = uses[j.token] + 1
        /\ \A w \in Made : w # j.token => uses'[w] = uses[w]
    BY <1>3, <2>1 DEF UsesOK
  <2>3. \A w \in Made : w > made'.tokens => uses'[w] = 0
    <3> SUFFICES ASSUME NEW w \in Made, w > made'.tokens
                 PROVE  uses'[w] = 0
      OBVIOUS
    <3>1. w > made.tokens /\ w # j.token
      BY <1>4, <1>5, <2>1 DEF Made
    <3> QED
      BY <2>2, <3>1 DEF UsesOK
  <2>4. ASSUME NEW w \in Made \ raced'
        PROVE  /\ uses'[w] = 0 \/ (uses'[w] = 1 /\ UsedUp(w)')
               /\ \A i, k \in jobs' : Refreshes(i, w) /\ Refreshes(k, w) => i = k
    <3>1. w \in Made \ raced
      BY <1>6
    <3>2. \A i, k \in jobs : Refreshes(i, w) /\ Refreshes(k, w) => i = k
      BY <3>1 DEF UsesOK
    <3>3. CASE w = j.token
      <4>1. deleted
        BY <1>3, <3>3
      <4>2. Refreshes(j, w)
        BY <1>3, <3>3 DEF Refreshes
      <4>3. uses[w] = 0
        BY <3>1, <4>2 DEF UsesOK, UsedUp
      <4>4. w \notin DOMAIN refresh'
        BY <1>2, <1>5, <2>1, <3>3, <4>1
      <4>5. \A i \in jobs' : ~ Refreshes(i, w)
        BY <1>6, <3>2, <4>2
      <4>6. UsedUp(w)'
        BY <4>4, <4>5 DEF UsedUp, Refreshes
      <4> QED
        BY <2>2, <3>2, <3>3, <4>3, <4>5, <4>6
    <3>4. CASE w # j.token
      <4>1. uses'[w] = uses[w]
        BY <2>2, <3>4
      <4>2. CASE w = made.tokens + 1
        BY <1>6, <2>1, <3>2, <4>1, <4>2 DEF UsesOK, Made
      <4>3. CASE w # made.tokens + 1
        <5>1. UsedUp(w) => UsedUp(w)'
          BY <1>2, <1>5, <1>6, <4>3 DEF UsedUp, Refreshes
        <5> QED
          BY <1>6, <3>1, <3>2, <4>1, <5>1 DEF UsesOK
      <4> QED
        BY <4>2, <4>3
    <3> QED
      BY <3>3, <3>4
  <2> QED
    BY <2>2, <2>3, <2>4 DEF UsesOK, Refreshes
<1> QED
  BY <1>5, <1>10, <1>11, <1>12, <1>13, <1>14, <1>15

(* What a reading is written back with: nothing but the password changes. *)
LEMMA WriteBackKeeps ==
  ASSUME AccountsInv, NEW j \in jobs, j.kind \in {"reset", "profile"},
         NEW row \in Row, row.role = j.row.role, row.oauth = j.row.oauth,
         NEW password, row.password = password,
         Update(j.user, row, j.row, password), Ends(j),
         \A t \in DOMAIN resets' : t \in DOMAIN resets /\ resets'[t] = resets[t],
         UNCHANGED <<refresh, access, states, keys, made, uses, raced, logins>>
  PROVE  AccountsInv'
<1> USE DEF AccountsInv
<1>1. j.user \in DOMAIN users /\ row.oauth = users[j.user].oauth
  BY DEF JobsOK, JobOK
<1>2. RowsOK' /\ LastOK' /\ SameOwners
  BY <1>1, UpdateKeeps
<1>3. jobs' \subseteq jobs
  BY DEF Ends
<1>4. MadeOK'
  BY MadeKept
<1>5. Grows
  BY <1>2, GrowsUnchanged
<1>6. OwnersOK'
  BY <1>2, <1>3, OwnersKept
<1>7. RefreshOK' /\ ResetsOK' /\ UsesOK' /\ LoginsOK'
  BY <1>3, <1>4, <1>5, RefreshKept, ResetsKept, UsesKept, LoginsKept
<1>8. StatesOK' /\ AccessOK' /\ KeysOK' /\ JobsOK'
  BY <1>3, <1>4, <1>5, StatesKept, AccessKept, KeysKept, JobsKept
<1> QED
  BY <1>2, <1>4, <1>6, <1>7, <1>8

(* A new password goes with the rest of the row that was read. *)
LEMMA FinishResetKeeps ==
  ASSUME AccountsInv, NEW j \in jobs, NEW password \in Passwords,
         FinishReset(j, password)
  PROVE  AccountsInv'
<1> DEFINE row == [j.row EXCEPT !.password = password]
<1>1. j.row \in Row
  BY DEF AccountsInv, JobsOK, JobOK, Job
<1>2. /\ row \in Row /\ row.role = j.row.role /\ row.oauth = j.row.oauth
      /\ row.password = password
  BY <1>1 DEF Row
<1>3. /\ j.kind \in {"reset", "profile"} /\ Ends(j)
      /\ Update(j.user, row, j.row, password)
      /\ UNCHANGED <<refresh, access, states, keys, made, uses, raced, logins>>
  BY DEF FinishReset, ResetPassword, tokens, counts
<1>4. \A t \in DOMAIN resets' : t \in DOMAIN resets /\ resets'[t] = resets[t]
  BY DEF FinishReset, DeleteReset, Without
<1> HIDE DEF row
<1> QED
  BY <1>2, <1>3, <1>4, WriteBackKeeps

(* A profile goes with the whole of the row that was read. *)
LEMMA UpdateProfileKeeps ==
  ASSUME AccountsInv, NEW j \in jobs, UpdateProfile(j)
  PROVE  AccountsInv'
<1>1. j.row \in Row
  BY DEF AccountsInv, JobsOK, JobOK, Job
<1>2. /\ j.kind \in {"reset", "profile"} /\ Ends(j)
      /\ Update(j.user, j.row, j.row, j.row.password)
      /\ UNCHANGED <<refresh, access, resets, states, keys, made, uses, raced,
                     logins>>
  BY DEF UpdateProfile, tokens, counts
<1> QED
  BY <1>1, <1>2, WriteBackKeeps

(* Signing up makes the row; and a login from an OAuth state is counted once,
   for the state was taken before. *)
LEMMA FindOrCreateKeeps ==
  ASSUME AccountsInv, NEW j \in jobs, FindOrCreateOAuthUser(j)
  PROVE  AccountsInv'
<1> USE DEF AccountsInv
<1>1. /\ SignsIn(j)
      /\ \/ j.kind = "sign in" /\ UNCHANGED <<users, last>>
         \/ j.kind = "sign up" /\ Create(j.user, j.row)
      /\ Generate(j) \/ UNCHANGED <<refresh, access, made, logins>>
      /\ UNCHANGED <<resets, states, keys, uses, raced>>
  BY DEF FindOrCreateOAuthUser, SignsIn, tokens
<1>2. jobs' = jobs \ {j}
  BY DEF FindOrCreateOAuthUser, Ends
<1>3. /\ j.row \in Row /\ j.row.role \in Roles /\ j.user \in Accounts
      /\ j.token \in 1..made.states
  BY <1>1 DEF JobsOK, JobOK, Job, Row
<1>4. /\ RowsOK' /\ LastOK' /\ OwnersOK' /\ j.user \in DOMAIN users'
      /\ \A v \in DOMAIN users :
           v \in DOMAIN users' /\ users'[v].oauth = users[v].oauth
  <2>1. CASE j.kind = "sign in" /\ UNCHANGED <<users, last>>
    <3>1. SameOwners
      BY <2>1, SameUnchanged
    <3>2. j.user \in DOMAIN users
      BY <2>1 DEF JobsOK, JobOK
    <3> QED
      BY <1>1, <1>2, <2>1, <3>1, <3>2, RowsKept, LastKept, OwnersKept
  <2>2. CASE j.kind = "sign up" /\ Create(j.user, j.row)
    <3>1. RowsOK' /\ LastOK'
      BY <1>3, <2>2, CreateKeeps
    <3>2. OwnersOK'
      BY <1>1, <1>2, <2>2, CreateOwners
    <3>3. /\ DOMAIN users' = DOMAIN users \union {j.user}
          /\ \A v \in DOMAIN users : users'[v] = users[v]
      BY <2>2, CreateFacts
    <3> QED
      BY <3>1, <3>2, <3>3
  <2> QED
    BY <1>1, <2>1, <2>2
<1>5. CASE UNCHANGED <<refresh, access, made, logins>>
  <2>1. MadeOK'
    BY <1>1, <1>5, MadeKept
  <2>2. Grows
    BY <1>4, <1>5, MadeFacts DEF Grows
  <2>3. RefreshOK' /\ ResetsOK' /\ UsesOK' /\ LoginsOK'
    BY <1>1, <1>2, <1>5, <2>1, <2>2, RefreshKept, ResetsKept, UsesKept, LoginsKept
  <2>4. StatesOK' /\ AccessOK' /\ KeysOK' /\ JobsOK'
    BY <1>1, <1>2, <1>5, <2>1, <2>2, StatesKept, AccessKept, KeysKept, JobsKept
  <2> QED
    BY <1>4, <2>1, <2>3, <2>4
<1>6. CASE Generate(j)
  <2>1. /\ GenerateTokenPair(j.user, j.row, refresh)
        /\ logins' = [logins EXCEPT ![j.token] = @ + 1]
    BY <1>6 DEF Generate
  <2>2. /\ MadeOK'
        /\ made'.tokens = made.tokens + 1
        /\ made'.resets = made.resets /\ made'.states = made.states
        /\ access' = access \union {[user |-> j.user, role |-> j.row.role]}
        /\ DOMAIN refresh' = DOMAIN refresh \union {made.tokens + 1}
        /\ refresh'[made.tokens + 1] = j.user
        /\ \A t \in DOMAIN refresh :
             t # made.tokens + 1 => refresh'[t] = refresh[t]
    BY <1>1, <2>1, PairFacts
  <2>3. Grows
    BY <1>4, <2>2, MadeFacts DEF Grows
  <2>4. AccessOK'
    BY <1>3, <1>4, <2>2, <2>3, PairAccess
  <2>5. RefreshOK'
    BY <1>4, <2>2, <2>3, PairRefresh
  <2>6. ResetsOK' /\ StatesOK' /\ KeysOK' /\ JobsOK'
    BY <1>1, <1>2, <2>2, <2>3, ResetsKept, StatesKept, KeysKept, JobsKept
  <2>7. UsesOK'
    BY <1>1, <1>2, <2>2, PairUses
  <2>8. LoginsOK'
    <3>1. /\ j.token \in Made /\ made.states \in Nat /\ logins[j.token] = 0
          /\ j.token \notin states
      BY <1>1, <1>3, MadeFacts DEF LoginsOK
    <3>2. /\ logins' \in [Made -> {0, 1}]
          /\ \A w \in Made : w # j.token => logins'[w] = logins[w]
      BY <2>1, <3>1 DEF LoginsOK
    <3>3. ASSUME NEW w \in Made, w > made'.states \/ w \in states'
          PROVE  logins'[w] = 0
      <4>1. w # j.token
        <5>1. CASE w \in states'
          BY <1>1, <3>1, <5>1
        <5>2. CASE w > made'.states
          <6>1. w > made.states /\ j.token <= made.states
            BY <1>3, <2>2, <3>1, <5>2
          <6> QED
            BY <3>1, <6>1 DEF Made
        <5> QED
          BY <3>3, <5>1, <5>2
      <4> QED
        BY <1>1, <2>2, <3>2, <3>3, <4>1 DEF LoginsOK
    <3>4. ASSUME NEW k \in jobs', SignsIn(k)
          PROVE  k.token \notin states' /\ logins'[k.token] = 0
      <4>1. k \in jobs /\ k # j
        BY <1>2
      <4>2. k.token # j.token
        BY <1>1, <3>4, <4>1 DEF LoginsOK
      <4>3. k.token \in Made /\ k.token \notin states /\ logins[k.token] = 0
        BY <3>4, <4>1, MadeFacts DEF LoginsOK, JobsOK, JobOK
      <4> QED
        BY <1>1, <3>2, <4>2, <4>3
    <3>5. \A i, k \in jobs' :
            SignsIn(i) /\ SignsIn(k) /\ i.token = k.token => i = k
      BY <1>2 DEF LoginsOK
    <3> QED
      BY <3>2, <3>3, <3>4, <3>5 DEF LoginsOK, SignsIn
  <2> QED
    BY <1>4, <2>2, <2>4, <2>5, <2>6, <2>7, <2>8
<1> QED
  BY <1>1, <1>5, <1>6

-----------------------------------------------------------------------------
(* Every step is one of these. *)
Reads ==
  \/ \E t \in DOMAIN refresh : BeginRefresh(t)
  \/ \E t \in DOMAIN resets : BeginReset(t)
  \/ \E cookie, bearer, k : BeginProfile(cookie, bearer, k)
  \/ \E served \in SUBSET Subjects : \E t, s : HandleCallback(served, t, s)
  \/ \E t : CallbackFails(t)
Direct ==
  \/ \E u \in Users, p \in Passwords : HandleRegister(u, p) \/ HandleLogin(u, p)
  \/ \E t : HandleLogout(t)
  \/ \E u : ForgotPassword(u)
  \/ Redirect
  \/ \E a : AccessExpires(a)
Ruled ==
  \E who \in access :
    \/ \E u, tier : UpdateUserSubscription(who, u, tier)
    \/ CreateKey(who)
    \/ \E k : RevokeKey(who, k)

(* The routes, put together by what they change. *)
LEMMA NextCases ==
  ASSUME Next
  PROVE  Reads \/ Direct \/ Ruled \/ \E j \in jobs : Finish(j)
<1>1. CASE Public
  BY <1>1 DEF Public, Reads, Direct
<1>2. CASE OAuth
  <2>1. /\ GoogleUsers \in SUBSET Subjects /\ GitHubUsers \in SUBSET Subjects
    BY DEF Subjects
  <2>2. CASE Redirect
    BY <2>2 DEF Direct
  <2>3. ASSUME NEW t \in states, CallbackFails(t)
        PROVE  Reads
    BY <2>3 DEF Reads
  <2>4. ASSUME NEW t \in states, NEW s \in Subjects,
               \/ HandleGoogleCallback(t, s) \/ HandleGitHubCallback(t, s)
               \/ \E hint \in {"google", "github", ""} : GenericCallback(hint, t, s)
        PROVE  Reads
    <3>1. HandleGoogleCallback(t, s) \/ HandleGitHubCallback(t, s)
      BY <2>4 DEF GenericCallback
    <3> QED
      BY <2>1, <3>1 DEF HandleGoogleCallback, HandleGitHubCallback, Reads
  <2> QED
    BY <1>2, <2>2, <2>3, <2>4 DEF OAuth
<1>3. CASE Protected
  BY <1>3, AuthFacts DEF Protected, Reads, Ruled
<1>4. CASE \E a \in access : AccessExpires(a)
  BY <1>4 DEF Direct
<1> QED
  BY <1>1, <1>2, <1>3, <1>4 DEF Next

(* Each step, or none, keeps the invariant. *)
LEMMA NextAccounts == AccountsInv /\ [Next]_vars => AccountsInv'
<1> SUFFICES ASSUME AccountsInv, [Next]_vars
             PROVE  AccountsInv'
  OBVIOUS
<1>1. CASE UNCHANGED vars
  BY <1>1, StutterKeeps
<1>2. CASE Reads
  <2>1. ASSUME NEW t, BeginRefresh(t) \/ BeginReset(t) \/ CallbackFails(t)
        PROVE  AccountsInv'
    BY <2>1, BeginRefreshKeeps, BeginResetKeeps, CallbackFailsKeeps
  <2>2. ASSUME NEW cookie, NEW bearer, NEW k, BeginProfile(cookie, bearer, k)
        PROVE  AccountsInv'
    BY <2>2, BeginProfileKeeps
  <2>3. ASSUME NEW served \in SUBSET Subjects, NEW t, NEW s,
               HandleCallback(served, t, s)
        PROVE  AccountsInv'
    BY <2>3, CallbackKeeps
  <2> QED
    BY <1>2, <2>1, <2>2, <2>3 DEF Reads
<1>3. CASE Direct
  <2>1. ASSUME NEW u \in Users, NEW p \in Passwords,
               HandleRegister(u, p) \/ HandleLogin(u, p)
        PROVE  AccountsInv'
    BY <2>1, RegisterKeeps, LoginKeeps
  <2>2. ASSUME NEW t, HandleLogout(t) \/ ForgotPassword(t) \/ AccessExpires(t)
        PROVE  AccountsInv'
    BY <2>2, LogoutKeeps, ForgotPasswordKeeps, AccessExpiresKeeps
  <2> QED
    BY <1>3, <2>1, <2>2, RedirectKeeps DEF Direct
<1>4. CASE Ruled
  BY <1>4, SubscriptionKeeps, CreateKeyKeeps, RevokeKeyKeeps DEF Ruled
<1>5. ASSUME NEW j \in jobs, Finish(j)
      PROVE  AccountsInv'
  BY <1>5, FinishRefreshKeeps, RefreshFailsKeeps, FinishResetKeeps,
     UpdateProfileKeeps, FindOrCreateKeeps, JobFailsKeeps DEF Finish
<1> QED
  BY <1>1, <1>2, <1>3, <1>4, <1>5, NextCases

(* The invariant holds at all times. *)
THEOREM AccountsInvariant == Spec => []AccountsInv
BY InitAccounts, NextAccounts, PTL DEF Spec

(* The rows, tokens, keys and handlers are of accounts that exist; and a row
   holds the role and the password that were written last on purpose, unless
   an older reading of it was written back. *)
THEOREM AccountsRows == Spec => []RowsAreSound
<1>1. AccountsInv => RowsAreSound
  <2> SUFFICES ASSUME AccountsInv PROVE RowsAreSound
    OBVIOUS
  <2> USE DEF AccountsInv
  <2>1. DOMAIN users \subseteq Accounts /\ \A u \in DOMAIN users : users[u] \in Row
    BY DEF RowsOK
  <2>2. /\ DOMAIN refresh \subseteq Made /\ DOMAIN resets \subseteq Made
        /\ states \subseteq Made
    BY MadeFacts DEF RefreshOK, ResetsOK, StatesOK
  <2>3. /\ \A t \in DOMAIN refresh : refresh[t] \in DOMAIN users
        /\ \A t \in DOMAIN resets : resets[t] \in DOMAIN users
        /\ \A a \in access : a.user \in DOMAIN users /\ a.role \in Roles
        /\ \A k \in DOMAIN keys : keys[k].user \in DOMAIN users
    BY DEF RefreshOK, ResetsOK, AccessOK, KeysOK
  <2>4. /\ jobs \subseteq Job
        /\ \A j \in jobs : j.kind # "sign up" => j.user \in DOMAIN users
    BY DEF JobsOK, JobOK
  <2>5. DOMAIN last \subseteq DOMAIN users /\ RowKeepsLastWrite
    BY DEF LastOK
  <2>6. uses \in [Made -> Nat] /\ logins \in [Made -> Nat]
    BY DEF UsesOK, LoginsOK
  <2> QED
    BY <2>1, <2>2, <2>3, <2>4, <2>5, <2>6
       DEF RowsAreSound, TypeOK, GetByEmail, GetByID
<1> QED
  BY <1>1, AccountsInvariant, PTL

(* A refresh token is used twice only by requests that held it at the same
   time, or after Redis failed to delete it; an OAuth state is used once. *)
THEOREM AccountsTokens == Spec => []TokensAreSpent
<1>1. AccountsInv => TokensAreSpent
  <2> SUFFICES ASSUME AccountsInv PROVE TokensAreSpent
    OBVIOUS
  <2>1. ReuseIsOverlap
    <3> SUFFICES ASSUME NEW t \in Made, t \notin raced PROVE ~ uses[t] > 1
      BY DEF ReuseIsOverlap
    <3>1. uses[t] = 0 \/ uses[t] = 1
      BY DEF AccountsInv, UsesOK
    <3> QED
      BY <3>1
  <2>2. StateIsSingleUse
    <3> SUFFICES ASSUME NEW t \in Made PROVE logins[t] <= 1
      BY DEF StateIsSingleUse
    <3>1. logins[t] = 0 \/ logins[t] = 1
      BY DEF AccountsInv, LoginsOK
    <3> QED
      BY <3>1
  <2> QED
    BY <2>1, <2>2 DEF TokensAreSpent
<1> QED
  BY <1>1, AccountsInvariant, PTL

(* A person who comes through OAuth has one account, although the table has
   no constraint that says so, unless two first logins ran at once. *)
THEOREM AccountsOwners == Spec => []OneAccountPerSubject
<1>1. AccountsInv => OneAccountPerSubject
  <2> SUFFICES ASSUME AccountsInv, NEW s \in Subjects \ raced
               PROVE  Cardinality({u \in DOMAIN users : users[u].oauth = s}) <= 1
    BY DEF OneAccountPerSubject
  <2> DEFINE own == {u \in DOMAIN users : users[u].oauth = s}
  <2>1. \A u, v \in own : u = v
    BY DEF AccountsInv, OwnersOK
  <2>2. own = {} \/ \E u : own = {u}
    BY <2>1
  <2> HIDE DEF own
  <2>3. Cardinality(own) = 0 \/ Cardinality(own) = 1
    BY <2>2, FS_EmptySet, FS_Singleton
  <2>4. Cardinality(own) <= 1
    BY <2>3
  <2> QED
    BY <2>4 DEF own
<1> QED
  BY <1>1, AccountsInvariant, PTL

-----------------------------------------------------------------------------
(* Who becomes an administrator. *)

ByAdmin == \E a \in access : a.role = "admin"
Rises ==
  /\ \A u \in Accounts : (IsAdmin(u))' /\ ~ IsAdmin(u) => Held(u) \/ ByAdmin
  /\ \A a \in access' \ access : a.role = "admin" => IsAdmin(a.user) \/ Held(a.user)
  /\ keys' # keys => ByAdmin

(* A step that writes no row and makes no token raises nobody. *)
LEMMA QuietRises ==
  ASSUME UNCHANGED <<users, keys>>, access' \subseteq access
  PROVE  Rises
BY DEF Rises, IsAdmin

(* A pair gives its user the role of the row that was read. *)
LEMMA PairRises ==
  ASSUME NEW u, NEW row, NEW rest, GenerateTokenPair(u, row, rest),
         row.role = "admin" => IsAdmin(u) \/ Held(u)
  PROVE  \A a \in access' \ access :
           a.role = "admin" => IsAdmin(a.user) \/ Held(a.user)
<1>1. access' = access \union {[user |-> u, role |-> row.role]}
  BY DEF GenerateTokenPair, GenerateToken
<1> QED
  BY <1>1

(* A row that is written is that of its account only. *)
LEMMA RowRises ==
  ASSUME RowsOK, NEW u, NEW row, users' = With(users, u, row),
         row.role = "admin" => IsAdmin(u) \/ Held(u)
  PROVE  \A v \in Accounts : (IsAdmin(v))' /\ ~ IsAdmin(v) => Held(v)
<1>1. /\ DOMAIN users' = DOMAIN users \union {u}
      /\ users'[u] = row
      /\ \A v \in DOMAIN users : v # u => users'[v] = users[v]
  BY DEF With
<1> SUFFICES ASSUME NEW v \in Accounts, v \in DOMAIN users',
                    users'[v].role = "admin", ~ IsAdmin(v)
             PROVE  Held(v)
  BY DEF IsAdmin
<1>2. CASE v = u
  BY <1>1, <1>2
<1>3. CASE v # u
  BY <1>1, <1>3 DEF IsAdmin
<1> QED
  BY <1>2, <1>3

(* A handler that reads raises nobody. *)
LEMMA ReadsRise ==
  ASSUME Reads
  PROVE  Rises
<1>1. UNCHANGED <<users, access, keys>>
  BY DEF Reads, BeginRefresh, BeginReset, BeginProfile, HandleCallback,
         CallbackFails, tokens
<1> QED
  BY <1>1, QuietRises

(* A registration is of a user, and a login of what the row says. *)
LEMMA DirectRises ==
  ASSUME AccountsInv, Direct
  PROVE  Rises
<1>0. RowsOK
  BY DEF AccountsInv
<1>1. ASSUME NEW u \in Users, NEW p \in Passwords, HandleRegister(u, p)
      PROVE  Rises
  <2> DEFINE row == NewUser(p, Local)
  <2>1. row.role # "admin"
    BY DEF NewUser
  <2>2. users' = With(users, u, row) /\ UNCHANGED keys
    BY <1>1 DEF HandleRegister, Register, Create
  <2>3. GenerateTokenPair(u, row, refresh) \/ UNCHANGED access
    BY <1>1 DEF HandleRegister
  <2> HIDE DEF row
  <2>4. \A v \in Accounts : (IsAdmin(v))' /\ ~ IsAdmin(v) => Held(v)
    BY <1>0, <2>1, <2>2, RowRises
  <2>5. \A a \in access' \ access :
          a.role = "admin" => IsAdmin(a.user) \/ Held(a.user)
    BY <2>1, <2>3, PairRises
  <2> QED
    BY <2>2, <2>4, <2>5 DEF Rises
<1>2. ASSUME NEW u \in Users, NEW p \in Passwords, HandleLogin(u, p)
      PROVE  Rises
  <2>1. /\ GenerateTokenPair(u, users[u], refresh)
        /\ users[u].role = "admin" => IsAdmin(u)
        /\ UNCHANGED <<users, keys>>
    BY <1>2 DEF HandleLogin, Login, GetByEmail, IsAdmin
  <2> DEFINE row == users[u]
  <2>2. GenerateTokenPair(u, row, refresh) /\ (row.role = "admin" => IsAdmin(u))
    BY <2>1
  <2> HIDE DEF row
  <2>3. \A a \in access' \ access :
          a.role = "admin" => IsAdmin(a.user) \/ Held(a.user)
    BY <2>2, PairRises
  <2> QED
    BY <2>1, <2>3 DEF Rises, IsAdmin
<1>3. ASSUME NEW t, HandleLogout(t) \/ ForgotPassword(t) \/ AccessExpires(t)
      PROVE  Rises
  <2>1. UNCHANGED <<users, keys>> /\ access' \subseteq access
    BY <1>3 DEF HandleLogout, ForgotPassword, AccessExpires, tokens
  <2> QED
    BY <2>1, QuietRises
<1>4. CASE Redirect
  <2>1. UNCHANGED <<users, access, keys>>
    BY <1>4 DEF Redirect, tokens
  <2> QED
    BY <2>1, QuietRises
<1> QED
  BY <1>1, <1>2, <1>3, <1>4 DEF Direct

(* The routes behind AdminOnly are an administrator's, for no token says
   super_admin. *)
LEMMA RuledRises ==
  ASSUME AccountsInv, Ruled
  PROVE  Rises
<1>1. PICK who \in access :
        \/ \E u, tier : UpdateUserSubscription(who, u, tier)
        \/ CreateKey(who)
        \/ \E k : RevokeKey(who, k)
  BY DEF Ruled
<1>2. AdminOnly(who) /\ UNCHANGED access
  BY <1>1 DEF UpdateUserSubscription, CreateKey, RevokeKey, tokens
<1>3. who.role = "admin"
  <2>1. who.role \in Roles
    BY DEF AccountsInv, AccessOK
  <2> QED
    BY <1>2, <2>1 DEF AdminOnly, Roles
<1> QED
  BY <1>2, <1>3 DEF Rises, ByAdmin

(* A handler that writes raises nobody but whom it read as one. *)
LEMMA FinishRises ==
  ASSUME AccountsInv, NEW j \in jobs, Finish(j)
  PROVE  Rises
<1>0. RowsOK /\ j.row \in Row
  BY DEF AccountsInv, JobsOK, JobOK, Job
<1>1. j.row.role = "admin" => Held(j.user)
  BY DEF Held
<1>2. CASE FinishRefresh(j)
  <2>1. PICK deleted \in BOOLEAN : Rotate(j, deleted)
    BY <1>2 DEF FinishRefresh
  <2> DEFINE rest == IF deleted THEN Delete(j.token) ELSE refresh
  <2>2. GenerateTokenPair(j.user, j.row, rest) /\ UNCHANGED <<users, keys>>
    BY <1>2, <2>1 DEF FinishRefresh, Rotate
  <2> HIDE DEF rest
  <2>3. \A a \in access' \ access :
          a.role = "admin" => IsAdmin(a.user) \/ Held(a.user)
    BY <1>1, <2>2, PairRises
  <2> QED
    BY <2>2, <2>3 DEF Rises, IsAdmin
<1>3. ASSUME NEW p \in Passwords, FinishReset(j, p)
      PROVE  Rises
  <2> DEFINE row == [j.row EXCEPT !.password = p]
  <2>1. row.role = j.row.role
    BY <1>0 DEF Row
  <2>2. users' = With(users, j.user, row) /\ UNCHANGED <<access, keys>>
    BY <1>3 DEF FinishReset, ResetPassword, Update, tokens
  <2> HIDE DEF row
  <2>3. \A v \in Accounts : (IsAdmin(v))' /\ ~ IsAdmin(v) => Held(v)
    BY <1>0, <1>1, <2>1, <2>2, RowRises
  <2> QED
    BY <2>2, <2>3 DEF Rises
<1>4. CASE UpdateProfile(j)
  <2>1. users' = With(users, j.user, j.row) /\ UNCHANGED <<access, keys>>
    BY <1>4 DEF UpdateProfile, Update, tokens
  <2>2. \A v \in Accounts : (IsAdmin(v))' /\ ~ IsAdmin(v) => Held(v)
    BY <1>0, <1>1, <2>1, RowRises
  <2> QED
    BY <2>1, <2>2 DEF Rises
<1>5. CASE FindOrCreateOAuthUser(j)
  <2>1. /\ UNCHANGED users \/ users' = With(users, j.user, j.row)
        /\ GenerateTokenPair(j.user, j.row, refresh) \/ UNCHANGED access
        /\ UNCHANGED keys
    BY <1>5 DEF FindOrCreateOAuthUser, Create, Generate, tokens
  <2>2. \A v \in Accounts : (IsAdmin(v))' /\ ~ IsAdmin(v) => Held(v)
    <3>1. CASE UNCHANGED users
      BY <3>1 DEF IsAdmin
    <3>2. CASE users' = With(users, j.user, j.row)
      BY <1>0, <1>1, <3>2, RowRises
    <3> QED
      BY <2>1, <3>1, <3>2
  <2>3. \A a \in access' \ access :
          a.role = "admin" => IsAdmin(a.user) \/ Held(a.user)
    BY <1>1, <2>1, PairRises
  <2> QED
    BY <2>1, <2>2, <2>3 DEF Rises
<1>6. CASE RefreshFails(j) \/ JobFails(j)
  <2>1. UNCHANGED <<users, access, keys>>
    BY <1>6 DEF RefreshFails, JobFails, tokens
  <2> QED
    BY <2>1, QuietRises
<1> QED
  BY <1>2, <1>3, <1>4, <1>5, <1>6 DEF Finish

(* Nobody becomes an administrator, in the table or in a token, except by an
   administrator's request or by a handler that read the row while its user
   was one; keys are made and revoked by administrators only. *)
THEOREM AccountsRoles == Spec => RoleRisesByAdmin
<1>1. AccountsInv /\ [Next]_vars => [Rises]_vars
  BY NextCases, ReadsRise, DirectRises, RuledRises, FinishRises
<1>2. Rises =>
        /\ \A u \in Accounts :
             (IsAdmin(u))' /\ ~ IsAdmin(u) =>
                Held(u) \/ \E a \in access : a.role = "admin"
        /\ \A a \in access' \ access :
             a.role = "admin" => IsAdmin(a.user) \/ Held(a.user)
        /\ keys' # keys => \E a \in access : a.role = "admin"
  BY DEF Rises, ByAdmin
<1> QED
  BY <1>1, <1>2, AccountsInvariant, PTL DEF Spec, RoleRisesByAdmin
=============================================================================
