---------------------------- MODULE RateLimiter ----------------------------
(***************************************************************************)
(* internal/platform/ratelimit with the gateway's middleware over it: a    *)
(* sorted set of Redis per user holds the times of its requests.  A check  *)
(* is a pipeline of four commands, which other pipelines' commands may     *)
(* come between, and which ends in the second it began.  A request that is *)
(* refused is counted like one that is let through; without Redis every    *)
(* request is let through.                                                 *)
(***************************************************************************)
EXTENDS Integers, FiniteSets

CONSTANTS
  Requests,  \* bound: the requests that are made, of one user
  LimitOf,   \* a tier's limit
  Window,    \* the window, in seconds
  MaxTime,   \* bound: seconds
  InFlight   \* bound: pipelines at a time

ASSUME RateLimiterAssumption ==
  /\ IsFiniteSet(Requests)
  /\ LimitOf \in [{"registered", "premium"} -> Nat]
  /\ Window \in Nat \ {0} /\ MaxTime \in Nat /\ InFlight \in Nat \ {0}

VARIABLES
  now,      \* the time, in seconds
  zset,     \* members: a request and its score
  expires,  \* when Redis drops the key, 0 for never
  at,       \* where a request is
  asked,    \* the request's own time
  count,    \* what ZCARD gave it
  limit,    \* its tier's limit
  passed    \* history: requests that the count let through

rateLimiterVars == <<now, zset, expires, at, asked, count, limit, passed>>

RateLimiterInit ==
  /\ now = 0 /\ zset = {} /\ expires = 0
  /\ at = [r \in Requests |-> "new"]
  /\ asked = [r \in Requests |-> 0]
  /\ count = [r \in Requests |-> 0]
  /\ limit = [r \in Requests |-> 0]
  /\ passed = {}

(* resolveLimit: a tier that cannot be resolved is registered. *)
resolveLimit(tier) == IF tier = "premium" THEN LimitOf["premium"]
                      ELSE LimitOf["registered"]

Piped == {r \in Requests : at[r] \in {"card", "add", "expire"}}

(* The pipeline begins: ZREMRANGEBYSCORE. *)
Allow(r, tier) ==
  /\ at[r] = "new" /\ Cardinality(Piped) < InFlight
  /\ at' = [at EXCEPT ![r] = "card"]
  /\ asked' = [asked EXCEPT ![r] = now]
  /\ limit' = [limit EXCEPT ![r] = resolveLimit(tier)]
  /\ zset' = {m \in zset : m.score > now - Window}
  /\ expires' = IF zset' = {} THEN 0 ELSE expires
  /\ UNCHANGED <<now, count, passed>>

ZCard(r) ==
  /\ at[r] = "card"
  /\ count' = [count EXCEPT ![r] = Cardinality(zset)]
  /\ at' = [at EXCEPT ![r] = "add"]
  /\ UNCHANGED <<now, zset, expires, asked, limit, passed>>

(* Members are named by nanosecond: no two are the same. *)
ZAdd(r) ==
  /\ at[r] = "add"
  /\ zset' = zset \union {[of |-> r, score |-> asked[r]]}
  /\ at' = [at EXCEPT ![r] = "expire"]
  /\ UNCHANGED <<now, expires, asked, count, limit, passed>>

(* Mutant: a request more than the limit. *)
AllowedOneMore(r) == count[r] <= limit[r]

Allowed(r) == count[r] < limit[r]

(* EXPIRE, and the request goes on or is refused. *)
RateLimit(r) ==
  /\ at[r] = "expire"
  /\ expires' = now + Window
  /\ at' = [at EXCEPT ![r] = "end"]
  /\ passed' = IF Allowed(r) THEN passed \union {r} ELSE passed
  /\ UNCHANGED <<now, zset, asked, count, limit>>

(* A pipeline that fails, anywhere, lets the request through. *)
RedisFails(r) ==
  /\ r \in Piped
  /\ at' = [at EXCEPT ![r] = "open"]
  /\ UNCHANGED <<now, zset, expires, asked, count, limit, passed>>

(* The key is dropped when nothing was added for a window. *)
Tick ==
  /\ Piped = {}
  /\ now < MaxTime
  /\ now' = now + 1
  /\ LET drop == expires # 0 /\ expires <= now'
     IN  /\ zset' = IF drop THEN {} ELSE zset
         /\ expires' = IF drop THEN 0 ELSE expires
  /\ UNCHANGED <<at, asked, count, limit, passed>>

RateLimiterNext ==
  \/ Tick
  \/ \E r \in Requests :
       \/ \E tier \in {"registered", "premium", ""} : Allow(r, tier)
       \/ ZCard(r) \/ ZAdd(r) \/ RateLimit(r) \/ RedisFails(r)

RateLimiterSpec == RateLimiterInit /\ [][RateLimiterNext]_rateLimiterVars

-----------------------------------------------------------------------------
(* In a window the count lets no more requests through than the highest limit
   they were held to, but for those whose pipelines ran into one another's:
   they are counted before either is added (ratelimiter.go:34-65). *)
PassedWith(r) ==
  {s \in passed : asked[s] <= asked[r] /\ asked[s] > asked[r] - Window}

LimitHolds ==
  \A r \in passed :
    \E s \in PassedWith(r) :
      Cardinality(PassedWith(r)) <= limit[s] + InFlight - 1
=============================================================================
