------------------------------ MODULE Accounts ------------------------------
(***************************************************************************)
(* internal/auth, internal/apikey and the middleware in front of them:     *)
(* accounts, the tokens that stand for them, and what a request may do     *)
(* with a token.                                                           *)
(*                                                                         *)
(* A row of users is changed in two ways.  An administrator's change of a  *)
(* role is one UPDATE of one column; a new password and a new profile are  *)
(* written by reading the row, changing a field and writing every column   *)
(* back, so that either undoes what happened in between.  Refresh tokens,  *)
(* reset tokens and OAuth states are keys in Redis; access tokens are JWTs *)
(* that carry the role they were made with until they expire.              *)
(***************************************************************************)
EXTENDS Integers, FiniteSets, Sequences

CONSTANTS
  Users,        \* accounts, named by their e-mail, which never changes
  FirstAdmin,   \* the administrator the database starts with
  Passwords,
  GoogleUsers,  \* subjects of OAuth, with what their provider says of them
  GitHubUsers,
  Emails,       \* a subject's addresses: email, primary, verified
  Tiers,        \* bound: what administrators ask for
  MaxMade,      \* bound: tokens of all kinds, keys and changes of roles
  MaxJobs       \* bound: handlers between their reads and their writes

Subjects == GoogleUsers \union GitHubUsers

ASSUME AccountsAssumption ==
  /\ IsFiniteSet(Users) /\ FirstAdmin \in Users
  /\ Passwords # {}
  /\ GoogleUsers \intersect GitHubUsers = {} /\ "local" \notin Subjects
  /\ Emails \in [Subjects -> Seq([email : Users, primary : BOOLEAN,
                                  verified : BOOLEAN])]
  /\ \A g \in GoogleUsers : Emails[g] # <<>>
  /\ MaxMade \in Nat /\ MaxJobs \in Nat

VARIABLES
  users,        \* the rows: a function on the e-mails that have one
  refresh,      \* Redis refresh:*  token -> user
  resets,       \* Redis pwdreset:* token -> user
  states,       \* Redis oauth_state:*
  access,       \* access tokens that have not expired: user and role
  keys,         \* api_keys: owner and whether revoked
  jobs,         \* handlers that have read and not yet written
  made,         \* numbers of tokens, resets, states and changes of roles
  last,         \* history: the role and the password written last on purpose,
                \* of the users whose row no job wrote over a newer one
  uses,         \* history: pairs issued for a refresh token
  raced,        \* history: refresh tokens two requests held at once, or whose
                \* deletion failed, and subjects that signed up twice at once
  logins        \* history: logins made from an OAuth state

vars == <<users, refresh, resets, states, access, keys, jobs, made, last,
          uses, raced, logins>>
tokens == <<refresh, access>>
counts == <<uses, raced, logins>>

Local == "local"
NoPassword == "no password"
NoEmail == "no e-mail"          \* GitHub said none: the column holds ''
Accounts == Users \union {NoEmail}
Roles == {"registered", "premium", "admin"}             \* the CHECK
ValidTiers == Roles \union {"free", "super_admin"}
Made == 1..MaxMade
Row == [role : Roles, password : Passwords \union {NoPassword},
        oauth : Subjects \union {Local}]
Kinds == {"refresh", "reset", "profile", "sign in", "sign up"}
Job == [kind : Kinds, slot : 1..MaxJobs, user : Accounts, token : Made \union {0},
        row : Row]

With(f, x, y) == [z \in DOMAIN f \union {x} |-> IF z = x THEN y ELSE f[z]]
Without(f, x) == [z \in DOMAIN f \ {x} |-> f[z]]

Spent == made.tokens + made.resets + made.states + made.roles
         + Cardinality(DOMAIN keys)
Counted(what) == Spent < MaxMade /\ made' = [made EXCEPT ![what] = @ + 1]

-----------------------------------------------------------------------------
(* PostgresUserStore *)

NewUser(password, oauth) ==
  [role |-> "registered", password |-> password, oauth |-> oauth]

GetByEmail(u) == u \in DOMAIN users
GetByID(u) == u \in DOMAIN users

(* Mutant: whoever set a password is no longer found. *)
GetByOAuthOnly(s) ==
  {u \in DOMAIN users : users[u].oauth = s /\ users[u].password = NoPassword}
GetByOAuth(s) == {u \in DOMAIN users : users[u].oauth = s}

(* The UNIQUE on the e-mail refuses a second row. *)
Create(u, row) ==
  /\ ~ GetByEmail(u)
  /\ users' = With(users, u, row)
  /\ last' = With(last, u, [role |-> row.role, password |-> row.password])

(* Update writes every column of what was read. *)
Update(u, row, read, password) ==
  /\ users' = With(users, u, row)
  /\ last' = IF users[u] # read THEN Without(last, u)
             ELSE [v \in DOMAIN last |->
                     IF v = u THEN [last[v] EXCEPT !.password = password]
                              ELSE last[v]]

UpdateUserRole(u, role) ==
  /\ role \in Roles
  /\ users' = [users EXCEPT ![u].role = role]
  /\ last' = [v \in DOMAIN last |->
                IF v = u THEN [last[v] EXCEPT !.role = role] ELSE last[v]]

-----------------------------------------------------------------------------
(* Redis, and the tokens *)

Save(rest, u) ==
  /\ Counted("tokens")
  /\ refresh' = With(rest, made.tokens + 1, u)
Get(t) == t \in DOMAIN refresh
Delete(t) == Without(refresh, t)
DeleteReset(t) == Without(resets, t)

(* A JWT with the role of the row that was read. *)
GenerateToken(u, row) == access' = access \union {[user |-> u, role |-> row.role]}

GenerateTokenPair(u, row, rest) == GenerateToken(u, row) /\ Save(rest, u)

Register(u, password) ==
  /\ ~ GetByEmail(u)
  /\ Create(u, NewUser(password, Local))

(* The row is written and the user logged in; or only the row, when making the
   tokens fails. *)
HandleRegister(u, password) ==
  /\ Register(u, password)
  /\ \/ GenerateTokenPair(u, NewUser(password, Local), refresh)
     \/ UNCHANGED <<access, refresh, made>>
  /\ UNCHANGED <<resets, states, keys, jobs, counts>>

Login(u, password) ==
  /\ GetByEmail(u) /\ users[u].password = password
  /\ GenerateTokenPair(u, users[u], refresh)
HandleLogin(u, password) ==
  /\ Login(u, password)
  /\ UNCHANGED <<users, resets, states, keys, jobs, last, counts>>

Logout(t) == refresh' = Delete(t)
HandleLogout(t) ==
  /\ Get(t)
  /\ Logout(t)
  /\ UNCHANGED <<users, resets, states, access, keys, jobs, made, last,
                 counts>>

(* The handlers below read first: a token, and the row it stands for.  Each
   takes a free slot. *)
Busy == {j.slot : j \in jobs}
Slot == CHOOSE n \in 1..MaxJobs : n \notin Busy
Start(kind, u, t, row) ==
  /\ Cardinality(jobs) < MaxJobs
  /\ jobs' = jobs \union {[kind |-> kind, slot |-> Slot, user |-> u, token |-> t,
                           row |-> row]}
Ends(j) == jobs' = jobs \ {j}

BeginRefresh(t) ==
  /\ Get(t)
  /\ GetByID(refresh[t])
  /\ Start("refresh", refresh[t], t, users[refresh[t]])
  /\ raced' = IF \E j \in jobs : j.kind = "refresh" /\ j.token = t
              THEN raced \union {t} ELSE raced
  /\ UNCHANGED <<users, tokens, resets, states, keys, made, last, uses,
                 logins>>

(* Mutant: the old token is left in Redis. *)
RotateKeeps(j, deleted) ==
  /\ GenerateTokenPair(j.user, j.row, refresh)
  /\ uses' = [uses EXCEPT ![j.token] = @ + 1]
  /\ raced' = raced

(* The error of the deletion is dropped. *)
Rotate(j, deleted) ==
  /\ GenerateTokenPair(j.user, j.row,
       IF deleted THEN Delete(j.token) ELSE refresh)
  /\ uses' = [uses EXCEPT ![j.token] = @ + 1]
  /\ raced' = IF deleted THEN raced ELSE raced \union {j.token}

FinishRefresh(j) ==
  /\ j.kind = "refresh"
  /\ Ends(j)
  /\ \E deleted \in BOOLEAN : Rotate(j, deleted)
  /\ UNCHANGED <<users, resets, states, keys, last, logins>>

(* The old token is gone and the new one was not saved: logged out. *)
RefreshFails(j) ==
  /\ j.kind = "refresh"
  /\ Ends(j)
  /\ refresh' = Delete(j.token)
  /\ UNCHANGED <<users, resets, states, access, keys, made, last, counts>>

(* exp *)
AccessExpires(a) ==
  /\ access' = access \ {a}
  /\ UNCHANGED <<users, refresh, resets, states, keys, jobs, made, last,
                 counts>>

-----------------------------------------------------------------------------
(* Passwords and profiles *)

(* The token is saved; whether the mail goes out makes no difference to it. *)
RequestPasswordReset(u) ==
  /\ GetByEmail(u)
  /\ Counted("resets")
  /\ resets' = With(resets, made.resets + 1, u)
ForgotPassword(u) ==
  /\ RequestPasswordReset(u)
  /\ UNCHANGED <<users, tokens, states, keys, jobs, last, counts>>

BeginReset(t) ==
  /\ t \in DOMAIN resets
  /\ GetByID(resets[t])
  /\ Start("reset", resets[t], t, users[resets[t]])
  /\ UNCHANGED <<users, tokens, resets, states, keys, made, last, counts>>

(* Mutant: the row is built anew from what the form says. *)
ResetPasswordAnew(j, password) ==
  Update(j.user, NewUser(password, j.row.oauth), j.row, password)

ResetPassword(j, password) ==
  Update(j.user, [j.row EXCEPT !.password = password], j.row, password)

(* The sessions of the user stay; the token goes last, and may stay. *)
FinishReset(j, password) ==
  /\ j.kind = "reset"
  /\ Ends(j)
  /\ ResetPassword(j, password)
  /\ resets' \in {resets, DeleteReset(j.token)}
  /\ UNCHANGED <<tokens, states, keys, made, counts>>

(* The name is all a profile changes; what matters is the rest of the row. *)
UpdateProfile(j) ==
  /\ j.kind = "profile"
  /\ Ends(j)
  /\ Update(j.user, j.row, j.row, j.row.password)
  /\ UNCHANGED <<tokens, resets, states, keys, made, counts>>

(* An early return of any of them. *)
JobFails(j) ==
  /\ Ends(j)
  /\ UNCHANGED <<users, tokens, resets, states, keys, made, last, counts>>

-----------------------------------------------------------------------------
(* The middleware.  A request carries a cookie, a header, an API key, or any
   of the three; a JWT that has expired is one that is not in access. *)

None == [user |-> "none", role |-> "none"]
Expired == [user |-> "expired", role |-> "none"]
NoKey == 0

ExtractToken(cookie, bearer) == IF cookie # None THEN cookie ELSE bearer
ValidateToken(a) == IF a \in access THEN {a} ELSE {}

IsActive(k) == ~ keys[k].revoked
ValidateKey(k) ==
  {[user |-> keys[l].user, role |-> "api_key"] :
     l \in {m \in {k} \intersect DOMAIN keys : IsActive(m)}}

(* Whom the request speaks for: nobody, or one. *)
JWTAuth(cookie, bearer) == ValidateToken(ExtractToken(cookie, bearer))
JWTOrAPIKeyAuth(cookie, bearer, k) ==
  LET who == JWTAuth(cookie, bearer)
  IN  IF who # {} THEN who ELSE ValidateKey(k)

(* Mutant: whoever has logged in. *)
AdminOnlyAnyone(who) == who.role # "api_key"
AdminOnly(who) == who.role \in {"admin", "super_admin"}

(* PUT /users/profile: the gateway takes a key as well, auth-service does
   not, so that a key alone never gets to the handler. *)
BeginProfile(cookie, bearer, k) ==
  /\ JWTOrAPIKeyAuth(cookie, bearer, k) # {}
  /\ \E who \in JWTAuth(cookie, bearer) :
       GetByID(who.user) /\ Start("profile", who.user, 0, users[who.user])
  /\ UNCHANGED <<users, tokens, resets, states, keys, made, last, counts>>

(* POST /admin/users/:id/subscription.  Two of the tiers the handler knows the
   table refuses. *)
UpdateUserSubscription(who, u, tier) ==
  /\ AdminOnly(who)
  /\ tier \in ValidTiers
  /\ GetByID(u)
  /\ UpdateUserRole(u, tier)
  /\ Counted("roles")
  /\ UNCHANGED <<tokens, resets, states, keys, jobs, counts>>

(* /api-keys sits behind AdminOnly at the gateway. *)
GenerateKey(u) ==
  keys' = With(keys, Cardinality(DOMAIN keys) + 1, [user |-> u, revoked |-> FALSE])
CreateKey(who) ==
  /\ AdminOnly(who)
  /\ Spent < MaxMade
  /\ GenerateKey(who.user)
  /\ UNCHANGED <<users, tokens, resets, states, jobs, made, last, counts>>

(* Any key: the id is all that is asked. *)
Revoke(k) == k \in DOMAIN keys /\ keys' = [keys EXCEPT ![k].revoked = TRUE]
RevokeKey(who, k) ==
  /\ AdminOnly(who)
  /\ Revoke(k)
  /\ UNCHANGED <<users, tokens, resets, states, jobs, made, last, counts>>

-----------------------------------------------------------------------------
(* OAuth *)

SaveState == Counted("states") /\ states' = states \union {made.states + 1}
(* To Google and to GitHub alike: a state does not say for whom it is. *)
Redirect ==
  /\ SaveState
  /\ UNCHANGED <<users, tokens, resets, keys, jobs, last, counts>>

(* GETDEL: whoever asks first has it. *)
ValidateState(t) == t \in states /\ states' = states \ {t}

First(s, wanted) ==
  {Emails[s][i].email : i \in {i \in wanted : \A k \in wanted : i <= k}}

(* The first primary one that is verified, else the first primary one, else
   the first; none is an error. *)
PrimaryEmail(s) ==
  LET primary  == {i \in DOMAIN Emails[s] : Emails[s][i].primary}
      verified == {i \in primary : Emails[s][i].verified}
  IN  IF verified # {} THEN First(s, verified)
      ELSE IF primary # {} THEN First(s, primary)
      ELSE First(s, DOMAIN Emails[s])

(* The address of the profile if it is public, else the primary one, else, or
   when asking for the list fails, none at all. *)
FetchGitHubUserInfo(s) == PrimaryEmail(s) \union {NoEmail}
FetchGoogleUserInfo(s) == {Emails[s][1].email}
UserInfo(s) == IF s \in GoogleUsers THEN FetchGoogleUserInfo(s)
                                    ELSE FetchGitHubUserInfo(s)

(* The code was given by the provider of the subject; with the other one the
   exchange fails. *)
HandleCallback(served, t, s) ==
  /\ s \in served
  /\ ValidateState(t)
  /\ LET found == GetByOAuth(s) IN
     \/ \E u \in found : Start("sign in", u, t, users[u])
     \/ found = {} /\ \E u \in UserInfo(s) :
          Start("sign up", u, t, NewUser(NoPassword, s))
  /\ raced' = IF \E j \in jobs : j.kind = "sign up" /\ j.row.oauth = s
              THEN raced \union {s} ELSE raced
  /\ UNCHANGED <<users, tokens, resets, keys, made, last, uses, logins>>
HandleGoogleCallback(t, s) == HandleCallback(GoogleUsers, t, s)
HandleGitHubCallback(t, s) == HandleCallback(GitHubUsers, t, s)

(* The exchange or the profile fails: the state is spent. *)
CallbackFails(t) ==
  /\ ValidateState(t)
  /\ UNCHANGED <<users, tokens, resets, keys, jobs, made, last, counts>>

(* Without a hint both are tried.  The first attempt spends the state, so that
   the second gets anywhere only if Redis failed to answer the first. *)
GenericCallback(hint, t, s) ==
  \/ hint # "github" /\ HandleGoogleCallback(t, s)
  \/ hint # "google" /\ HandleGitHubCallback(t, s)

Generate(j) ==
  /\ GenerateTokenPair(j.user, j.row, refresh)
  /\ logins' = [logins EXCEPT ![j.token] = @ + 1]
FindOrCreateOAuthUser(j) ==
  /\ j.kind \in {"sign in", "sign up"}
  /\ Ends(j)
  /\ \/ j.kind = "sign in" /\ UNCHANGED <<users, last>>
     \/ j.kind = "sign up" /\ Create(j.user, j.row)
  /\ \/ Generate(j)
     \/ UNCHANGED <<tokens, made, logins>>
  /\ UNCHANGED <<resets, states, keys, uses, raced>>

-----------------------------------------------------------------------------
Init ==
  /\ \E p \in Passwords :
       users = [u \in {FirstAdmin} |->
                  [role |-> "admin", password |-> p, oauth |-> Local]]
  /\ refresh = [t \in {} |-> FirstAdmin]
  /\ resets = [t \in {} |-> FirstAdmin]
  /\ states = {}
  /\ access = {}
  /\ keys = [k \in {} |-> [user |-> FirstAdmin, revoked |-> FALSE]]
  /\ jobs = {}
  /\ made = [tokens |-> 0, resets |-> 0, states |-> 0, roles |-> 0]
  /\ last = [u \in {FirstAdmin} |->
               [role |-> "admin", password |-> users[u].password]]
  /\ uses = [t \in Made |-> 0]
  /\ raced = {}
  /\ logins = [t \in Made |-> 0]

Public ==
  \/ \E u \in Users, p \in Passwords : HandleRegister(u, p) \/ HandleLogin(u, p)
  \/ \E t \in DOMAIN refresh : HandleLogout(t) \/ BeginRefresh(t)
  \/ \E u \in Users : ForgotPassword(u)
  \/ \E t \in DOMAIN resets : BeginReset(t)

OAuth ==
  \/ Redirect
  \/ \E t \in states :
       \/ CallbackFails(t)
       \/ \E s \in Subjects :
            \/ HandleGoogleCallback(t, s) \/ HandleGitHubCallback(t, s)
            \/ \E hint \in {"google", "github", ""} : GenericCallback(hint, t, s)

Protected ==
  \E cookie, bearer \in access \union {None, Expired} :
    \/ \E k \in DOMAIN keys \union {NoKey} : BeginProfile(cookie, bearer, k)
    \/ \E who \in JWTAuth(cookie, bearer) :
         \/ \E u \in Accounts, tier \in Tiers : UpdateUserSubscription(who, u, tier)
         \/ CreateKey(who)
         \/ \E k \in DOMAIN keys : RevokeKey(who, k)

Finish(j) ==
  \/ FinishRefresh(j) \/ RefreshFails(j)
  \/ \E p \in Passwords : FinishReset(j, p)
  \/ UpdateProfile(j)
  \/ FindOrCreateOAuthUser(j)
  \/ JobFails(j)

Next ==
  \/ Public
  \/ OAuth
  \/ Protected
  \/ \E j \in jobs : Finish(j)
  \/ \E a \in access : AccessExpires(a)

Spec == Init /\ [][Next]_vars

-----------------------------------------------------------------------------
(* The types of the variables; and every token, key and handler is of an
   account that exists, but for a handler that is about to make one. *)
TypeOK ==
  /\ DOMAIN users \subseteq Accounts
  /\ \A u \in DOMAIN users : users[u] \in Row /\ GetByEmail(u)
  /\ DOMAIN refresh \subseteq Made
  /\ \A t \in DOMAIN refresh : refresh[t] \in DOMAIN users
  /\ DOMAIN resets \subseteq Made
  /\ \A t \in DOMAIN resets : resets[t] \in DOMAIN users
  /\ states \subseteq Made
  /\ \A a \in access : a.user \in DOMAIN users /\ a.role \in Roles
  /\ \A k \in DOMAIN keys : keys[k].user \in DOMAIN users
  /\ jobs \subseteq Job
  /\ \A j \in jobs : j.kind # "sign up" => GetByID(j.user)
  /\ DOMAIN last \subseteq DOMAIN users
  /\ uses \in [Made -> Nat] /\ logins \in [Made -> Nat]

(* A row holds the role an administrator gave last and the password its user
   set last, unless a profile or a password was saved from a reading of the
   row older than that. *)
RowKeepsLastWrite ==
  \A u \in DOMAIN last :
    users[u].role = last[u].role /\ users[u].password = last[u].password

(* The tables refer to rows there are, and these hold what was written last. *)
RowsAreSound == TypeOK /\ RowKeepsLastWrite

(* A refresh token yields a second pair only when two requests held it at the
   same time, or Redis failed to delete it. *)
ReuseIsOverlap == \A t \in Made : uses[t] > 1 => t \in raced

(* An OAuth state stands for one login, however often and by whichever route
   it is presented. *)
StateIsSingleUse == \A t \in Made : logins[t] <= 1

(* What Redis keeps for a client to come back with is good once. *)
TokensAreSpent == ReuseIsOverlap /\ StateIsSingleUse

(* A person who comes through OAuth has one account, although no constraint of
   the table says so: unless two first logins ran at the same time. *)
OneAccountPerSubject ==
  \A s \in Subjects \ raced :
    Cardinality({u \in DOMAIN users : users[u].oauth = s}) <= 1

(* Nobody becomes an administrator, in the table or in a token, except by an
   administrator's request or by a handler that had read the row while its
   user was one; and keys are created by administrators only. *)
IsAdmin(u) == u \in DOMAIN users /\ users[u].role = "admin"
Held(u) == \E j \in jobs : j.user = u /\ j.row.role = "admin"
RoleRisesByAdmin ==
  [][/\ \A u \in Accounts :
          (IsAdmin(u))' /\ ~ IsAdmin(u) =>
             Held(u) \/ \E a \in access : a.role = "admin"
     /\ \A a \in access' \ access :
          a.role = "admin" => IsAdmin(a.user) \/ Held(a.user)
     /\ keys' # keys => \E a \in access : a.role = "admin"]_vars
=============================================================================
