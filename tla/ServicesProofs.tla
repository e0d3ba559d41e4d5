--------------------------- MODULE ServicesProofs ---------------------------
(***************************************************************************)
(* The safety properties of the smaller parts of the system, each apart    *)
(* from the others: the rate limiter, the administration of providers and  *)
(* models, the frontend's store of chats, and uploaded files.              *)
(***************************************************************************)
EXTENDS RateLimiter, Providers, ChatStore, Uploads, FiniteSetTheorems,
        SequenceTheorems, TLAPS

(* The requests whose count has been taken. *)
Counted == {r \in Requests : at[r] \in {"add", "expire", "end"}}
Member(r) == [of |-> r, score |-> asked[r]]

RateLimiterTypeOK ==
  /\ now \in Nat /\ expires \in Nat
  /\ IsFiniteSet(zset)
  /\ at \in [Requests -> {"new", "card", "add", "expire", "end", "open"}]
  /\ asked \in [Requests -> Nat]
  /\ count \in [Requests -> Nat]
  /\ limit \in [Requests -> Nat]
  /\ passed \subseteq Requests

(* A pipeline ends in the second it began, and there are not too many; nobody
   is ahead of the time. *)
PipedInv ==
  /\ Cardinality(Piped) <= InFlight
  /\ \A r \in Requests : asked[r] <= now
  /\ \A r \in Piped : asked[r] = now

(* Who was added less than a window ago is in the set, and the key will not be
   dropped before that window is over. *)
AddedInv ==
  \A r \in Requests : at[r] \in {"expire", "end"} /\ asked[r] > now - Window =>
    /\ Member(r) \in zset
    /\ at[r] = "end" => expires = 0 \/ expires >= asked[r] + Window

(* Of requests made within a window of one another, one, the last that was
   counted, has counted all but those that were in flight with it. *)
Together(C) ==
  \A r, s \in C : asked[r] - asked[s] < Window
CountInv ==
  \A C \in SUBSET Counted : C # {} /\ Together(C) =>
    \E s \in C : Cardinality(C) <= count[s] + InFlight

PassedInv == \A r \in passed : at[r] = "end" /\ count[r] < limit[r]

RateLimiterInv ==
  RateLimiterTypeOK /\ PipedInv /\ AddedInv /\ CountInv /\ PassedInv

-----------------------------------------------------------------------------
(* The requests are finitely many, and so are those in a pipeline. *)
LEMMA PipedFinite ==
  /\ IsFiniteSet(Piped) /\ Cardinality(Piped) \in Nat
  /\ \A C \in SUBSET Requests : IsFiniteSet(C) /\ Cardinality(C) \in Nat
<1>1. ASSUME NEW C \in SUBSET Requests
      PROVE  IsFiniteSet(C) /\ Cardinality(C) \in Nat
  BY RateLimiterAssumption, FS_Subset, FS_CardinalityType
<1>2. Piped \in SUBSET Requests
  BY DEF Piped
<1> QED
  BY <1>1, <1>2

(* A set of requests that have been added has no more elements than the sorted
   set: the members are named by the request. *)
LEMMA AddedAreCounted ==
  ASSUME IsFiniteSet(zset), NEW D \in SUBSET Requests,
         \A r \in D : Member(r) \in zset
  PROVE  /\ Cardinality(zset) \in Nat
         /\ Cardinality(D) <= Cardinality(zset)
<1> DEFINE f == [r \in D |-> Member(r)]
<1>1. f \in [D -> zset]
  OBVIOUS
<1>2. \A r, s \in D : f[r] = f[s] => r = s
  <2> SUFFICES ASSUME NEW r \in D, NEW s \in D, f[r] = f[s] PROVE r = s
    OBVIOUS
  <2>1. Member(r) = Member(s)
    OBVIOUS
  <2>2. Member(r).of = r /\ Member(s).of = s
    BY DEF Member
  <2> QED
    BY <2>1, <2>2
<1> HIDE DEF f
<1>3. f \in Injection(D, zset)
  BY <1>1, <1>2 DEF Injection, IsInjective
<1> QED
  BY <1>3, FS_Injection, FS_CardinalityType

(* What the lemmas below need of the steps that take no count. *)
LEMMA CountKept ==
  ASSUME CountInv, UNCHANGED count, Counted' \subseteq Counted,
         \A r \in Counted : asked'[r] = asked[r]
  PROVE  CountInv'
<1> SUFFICES ASSUME NEW C \in SUBSET Counted', C # {}, Together(C)'
             PROVE  \E s \in C : Cardinality(C) <= count[s] + InFlight
  BY DEF CountInv
<1>1. C \in SUBSET Counted
  OBVIOUS
<1>2. Together(C)
  BY <1>1 DEF Together
<1> QED
  BY <1>1, <1>2 DEF CountInv

(* A request's first command: the members that are too old go, and nothing
   says yet that the request passes. *)
LEMMA AllowKeeps ==
  ASSUME RateLimiterInv, NEW r \in Requests, NEW tier, Allow(r, tier)
  PROVE  RateLimiterInv'
<1> USE DEF RateLimiterInv
<1>1. /\ at[r] = "new" /\ Cardinality(Piped) < InFlight
      /\ at' = [at EXCEPT ![r] = "card"]
      /\ asked' = [asked EXCEPT ![r] = now]
      /\ limit' = [limit EXCEPT ![r] = resolveLimit(tier)]
      /\ zset' = {m \in zset : m.score > now - Window}
      /\ expires' = IF zset' = {} THEN 0 ELSE expires
      /\ UNCHANGED <<now, count, passed>>
  BY DEF Allow
<1>2. resolveLimit(tier) \in Nat
  BY RateLimiterAssumption DEF resolveLimit
<1>3. IsFiniteSet(zset')
  BY <1>1, FS_Subset DEF RateLimiterTypeOK
<1>4. RateLimiterTypeOK'
  BY <1>1, <1>2, <1>3 DEF RateLimiterTypeOK
<1>5. /\ \A q \in Requests : q # r =>
           /\ at'[q] = at[q] /\ asked'[q] = asked[q] /\ limit'[q] = limit[q]
      /\ at'[r] = "card" /\ asked'[r] = now
  BY <1>1 DEF RateLimiterTypeOK
<1>6. PipedInv'
  <2>1. Piped' = Piped \union {r} /\ r \notin Piped
    BY <1>1, <1>5 DEF Piped
  <2>2. Cardinality(Piped') <= InFlight
    <3>1. Cardinality(Piped \union {r}) = Cardinality(Piped) + 1
      BY <2>1, PipedFinite, FS_AddElement
    <3> QED
      BY <1>1, <2>1, <3>1, PipedFinite, RateLimiterAssumption
  <2>3. \A q \in Requests : asked'[q] <= now'
    BY <1>1, <1>5 DEF PipedInv, RateLimiterTypeOK
  <2>4. \A q \in Piped' : asked'[q] = now'
    <3> SUFFICES ASSUME NEW q \in Piped' PROVE asked'[q] = now
      BY <1>1
    <3>1. q \in Requests /\ (q = r \/ q \in Piped)
      BY <2>1 DEF Piped
    <3> QED
      BY <1>5, <3>1 DEF PipedInv
  <2> QED
    BY <2>2, <2>3, <2>4 DEF PipedInv
<1>7. AddedInv'
  <2> SUFFICES ASSUME NEW q \in Requests, at'[q] \in {"expire", "end"},
                      asked'[q] > now - Window
               PROVE  /\ Member(q)' \in zset'
                      /\ at'[q] = "end" =>
                           expires' = 0 \/ expires' >= asked'[q] + Window
    BY <1>1 DEF AddedInv
  <2>1. q # r /\ at'[q] = at[q] /\ asked'[q] = asked[q]
    BY <1>5
  <2>2. /\ Member(q) \in zset
        /\ at[q] = "end" => expires = 0 \/ expires >= asked[q] + Window
    BY <2>1 DEF AddedInv
  <2>3. Member(q)' = Member(q) /\ Member(q).score = asked[q]
    BY <2>1 DEF Member
  <2>4. Member(q) \in zset'
    BY <1>1, <2>1, <2>2, <2>3
  <2> QED
    BY <1>1, <2>1, <2>2, <2>3, <2>4
<1>8. CountInv'
  <2>1. Counted' \subseteq Counted /\ r \notin Counted
    BY <1>1, <1>5 DEF Counted
  <2>2. \A q \in Counted : asked'[q] = asked[q]
    BY <1>5, <2>1 DEF Counted
  <2> QED
    BY <1>1, <2>1, <2>2, CountKept
<1>9. PassedInv'
  <2>1. r \notin passed
    BY <1>1 DEF PassedInv
  <2> QED
    BY <1>1, <1>5, <2>1 DEF PassedInv, RateLimiterTypeOK
<1> QED
  BY <1>4, <1>6, <1>7, <1>8, <1>9

(* Whoever has been counted has either been added, and is in the set if that
   was less than a window ago, or is in flight with the request that counts
   now. *)
LEMMA ZCardKeeps ==
  ASSUME RateLimiterInv, NEW r \in Requests, ZCard(r)
  PROVE  RateLimiterInv'
<1> USE DEF RateLimiterInv
<1>1. /\ at[r] = "card"
      /\ count' = [count EXCEPT ![r] = Cardinality(zset)]
      /\ at' = [at EXCEPT ![r] = "add"]
      /\ UNCHANGED <<now, zset, expires, asked, limit, passed>>
  BY DEF ZCard
<1>2. Cardinality(zset) \in Nat
  BY FS_CardinalityType DEF RateLimiterTypeOK
<1>3. RateLimiterTypeOK'
  BY <1>1, <1>2 DEF RateLimiterTypeOK
<1>4. /\ \A q \in Requests : q # r => at'[q] = at[q] /\ count'[q] = count[q]
      /\ at'[r] = "add" /\ count'[r] = Cardinality(zset)
  BY <1>1 DEF RateLimiterTypeOK
<1>5. PipedInv'
  <2>1. Piped' = Piped
    BY <1>1, <1>4 DEF Piped
  <2> QED
    BY <1>1, <2>1 DEF PipedInv
<1>6. AddedInv'
  <2>1. \A q \in Requests : Member(q)' = Member(q)
    BY <1>1 DEF Member
  <2> QED
    BY <1>1, <1>4, <2>1 DEF AddedInv
<1>7. CountInv'
  <2> SUFFICES ASSUME NEW C \in SUBSET Counted', C # {}, Together(C)
               PROVE  \E s \in C : Cardinality(C) <= count'[s] + InFlight
    BY <1>1 DEF CountInv, Together
  <2>1. \A q \in C : q \in Requests /\ (q = r \/ q \in Counted)
    BY <1>4 DEF Counted
  <2>2. CASE r \notin C
    <3>1. C \in SUBSET Counted
      BY <2>1, <2>2
    <3>2. PICK s \in C : Cardinality(C) <= count[s] + InFlight
      BY <3>1 DEF CountInv
    <3> QED
      BY <1>4, <2>1, <2>2, <3>2
  <2>3. CASE r \in C
    <3> DEFINE D == {q \in C : at[q] \in {"expire", "end"}}
               E == C \ D
    <3>1. \A q \in D : Member(q) \in zset
      <4> SUFFICES ASSUME NEW q \in D PROVE Member(q) \in zset
        OBVIOUS
      <4>1. r \in Piped
        BY <1>1 DEF Piped
      <4>2. q \in C /\ q \in Requests /\ asked[r] = now
        BY <2>1, <4>1 DEF PipedInv
      <4>3. asked[r] - asked[q] < Window
        BY <2>3, <4>2 DEF Together
      <4>4. asked[q] > now - Window
        BY <4>2, <4>3, RateLimiterAssumption DEF RateLimiterTypeOK
      <4> QED
        BY <4>2, <4>4 DEF AddedInv
    <3>2. D \in SUBSET Requests /\ E \in SUBSET Requests /\ C = D \union E
      BY <2>1
    <3>3. Cardinality(D) <= Cardinality(zset)
      BY <3>1, <3>2, AddedAreCounted DEF RateLimiterTypeOK
    <3>4. E \subseteq Piped
      <4> SUFFICES ASSUME NEW q \in E PROVE q \in Piped
        OBVIOUS
      <4>1. q \in Requests /\ (q = r \/ at[q] = "add")
        BY <2>1 DEF Counted
      <4> QED
        BY <1>1, <4>1 DEF Piped
    <3>5. Cardinality(E) <= InFlight
      <4> HIDE DEF E
      <4>1. Cardinality(E) <= Cardinality(Piped)
        BY <3>4, PipedFinite, FS_Subset
      <4> QED
        BY <3>2, <4>1, PipedFinite, RateLimiterAssumption DEF PipedInv
    <3>6. Cardinality(C) <= Cardinality(D) + Cardinality(E)
      <4>1. /\ IsFiniteSet(D) /\ IsFiniteSet(E) /\ D \intersect E = {}
            /\ Cardinality(D) \in Nat /\ Cardinality(E) \in Nat
        BY <3>2, PipedFinite
      <4> HIDE DEF D, E
      <4>2. Cardinality(D \union E) =
              Cardinality(D) + Cardinality(E) - Cardinality(D \intersect E)
        BY <4>1, FS_Union
      <4>3. Cardinality(D \intersect E) = 0
        BY <4>1, FS_EmptySet, Zenon
      <4>4. C = D \union E
        BY <3>2
      <4> QED
        BY <4>1, <4>2, <4>3, <4>4
    <3>7. Cardinality(C) <= count'[r] + InFlight
      <4>1. /\ Cardinality(C) \in Nat /\ Cardinality(D) \in Nat
            /\ Cardinality(E) \in Nat
        BY <2>1, <3>2, PipedFinite
      <4> HIDE DEF D, E
      <4> QED
        BY <1>2, <1>4, <3>3, <3>5, <3>6, <4>1, RateLimiterAssumption
    <3> QED
      BY <2>3, <3>7
  <2> QED
    BY <2>2, <2>3
<1>8. PassedInv'
  <2>1. r \notin passed
    BY <1>1 DEF PassedInv
  <2> QED
    BY <1>1, <1>4, <2>1 DEF PassedInv, RateLimiterTypeOK
<1> QED
  BY <1>3, <1>5, <1>6, <1>7, <1>8

(* The pipeline adds the member that stands for the request. *)
LEMMA ZAddKeeps ==
  ASSUME RateLimiterInv, NEW r \in Requests, ZAdd(r)
  PROVE  RateLimiterInv'
<1> USE DEF RateLimiterInv
<1>1. /\ at[r] = "add"
      /\ zset' = zset \union {Member(r)}
      /\ at' = [at EXCEPT ![r] = "expire"]
      /\ UNCHANGED <<now, expires, asked, count, limit, passed>>
  BY DEF ZAdd, Member
<1>2. IsFiniteSet(zset')
  BY <1>1, FS_AddElement DEF RateLimiterTypeOK
<1>3. RateLimiterTypeOK'
  BY <1>1, <1>2 DEF RateLimiterTypeOK
<1>4. /\ \A q \in Requests : q # r => at'[q] = at[q]
      /\ at'[r] = "expire"
  BY <1>1 DEF RateLimiterTypeOK
<1>5. PipedInv'
  <2>1. Piped' = Piped
    BY <1>1, <1>4 DEF Piped
  <2> QED
    BY <1>1, <2>1 DEF PipedInv
<1>6. AddedInv'
  <2>1. \A q \in Requests : Member(q)' = Member(q)
    BY <1>1 DEF Member
  <2> QED
    BY <1>1, <1>4, <2>1 DEF AddedInv
<1>7. CountInv'
  <2>1. Counted' \subseteq Counted
    BY <1>1, <1>4 DEF Counted
  <2> QED
    BY <1>1, <2>1, CountKept DEF Counted
<1>8. PassedInv'
  <2>1. r \notin passed
    BY <1>1 DEF PassedInv
  <2> QED
    BY <1>1, <1>4, <2>1 DEF PassedInv, RateLimiterTypeOK
<1> QED
  BY <1>3, <1>5, <1>6, <1>7, <1>8

(* EXPIRE gives the key a window from now, and nobody asked later. *)
LEMMA RateLimitKeeps ==
  ASSUME RateLimiterInv, NEW r \in Requests, RateLimit(r)
  PROVE  RateLimiterInv'
<1> USE DEF RateLimiterInv
<1>1. /\ at[r] = "expire"
      /\ expires' = now + Window
      /\ at' = [at EXCEPT ![r] = "end"]
      /\ passed' = IF count[r] < limit[r] THEN passed \union {r} ELSE passed
      /\ UNCHANGED <<now, zset, asked, count, limit>>
  BY DEF RateLimit, Allowed
<1>2. RateLimiterTypeOK'
  BY <1>1, RateLimiterAssumption DEF RateLimiterTypeOK
<1>3. /\ \A q \in Requests : q # r => at'[q] = at[q]
      /\ at'[r] = "end"
  BY <1>1 DEF RateLimiterTypeOK
<1>4. PipedInv'
  <2>1. Piped' \subseteq Piped
    BY <1>1, <1>3 DEF Piped
  <2>2. Cardinality(Piped') <= Cardinality(Piped) /\ Cardinality(Piped') \in Nat
    BY <2>1, PipedFinite, FS_Subset, FS_CardinalityType
  <2>3. Cardinality(Piped') <= InFlight
    BY <2>2, PipedFinite, RateLimiterAssumption DEF PipedInv
  <2> QED
    BY <1>1, <2>1, <2>3 DEF PipedInv
<1>5. AddedInv'
  <2> SUFFICES ASSUME NEW q \in Requests, at'[q] \in {"expire", "end"},
                      asked[q] > now - Window
               PROVE  /\ Member(q)' \in zset
                      /\ at'[q] = "end" => expires' >= asked[q] + Window
    BY <1>1 DEF AddedInv
  <2>1. at[q] \in {"expire", "end"}
    BY <1>1, <1>3
  <2>2. Member(q)' \in zset
    BY <1>1, <2>1 DEF AddedInv, Member
  <2>3. expires' >= asked[q] + Window
    BY <1>1, RateLimiterAssumption DEF PipedInv, RateLimiterTypeOK
  <2> QED
    BY <2>2, <2>3
<1>6. CountInv'
  <2>1. Counted' \subseteq Counted
    BY <1>1, <1>3 DEF Counted
  <2> QED
    BY <1>1, <2>1, CountKept DEF Counted
<1>7. PassedInv'
  BY <1>1, <1>3 DEF PassedInv, RateLimiterTypeOK
<1> QED
  BY <1>2, <1>4, <1>5, <1>6, <1>7

(* A pipeline that fails has been counted by others, or not at all. *)
LEMMA RedisFailsKeeps ==
  ASSUME RateLimiterInv, NEW r \in Requests, RedisFails(r)
  PROVE  RateLimiterInv'
<1> USE DEF RateLimiterInv
<1>1. /\ r \in Piped
      /\ at' = [at EXCEPT ![r] = "open"]
      /\ UNCHANGED <<now, zset, expires, asked, count, limit, passed>>
  BY DEF RedisFails
<1>2. RateLimiterTypeOK'
  BY <1>1 DEF RateLimiterTypeOK
<1>3. /\ \A q \in Requests : q # r => at'[q] = at[q]
      /\ at'[r] = "open" /\ at[r] \in {"card", "add", "expire"}
  BY <1>1 DEF RateLimiterTypeOK, Piped
<1>4. PipedInv'
  <2>1. Piped' \subseteq Piped
    BY <1>1, <1>3 DEF Piped
  <2>2. Cardinality(Piped') <= Cardinality(Piped) /\ Cardinality(Piped') \in Nat
    BY <2>1, PipedFinite, FS_Subset, FS_CardinalityType
  <2>3. Cardinality(Piped') <= InFlight
    BY <2>2, PipedFinite, RateLimiterAssumption DEF PipedInv
  <2> QED
    BY <1>1, <2>1, <2>3 DEF PipedInv
<1>5. AddedInv'
  <2>1. \A q \in Requests : Member(q)' = Member(q)
    BY <1>1 DEF Member
  <2> QED
    BY <1>1, <1>3, <2>1 DEF AddedInv
<1>6. CountInv'
  <2>1. Counted' \subseteq Counted
    BY <1>1, <1>3 DEF Counted
  <2> QED
    BY <1>1, <2>1, CountKept DEF Counted
<1>7. PassedInv'
  <2>1. r \notin passed
    BY <1>3 DEF PassedInv
  <2> QED
    BY <1>1, <1>3, <2>1 DEF PassedInv, RateLimiterTypeOK
<1> QED
  BY <1>2, <1>4, <1>5, <1>6, <1>7

(* When the key is dropped its members are a window old. *)
LEMMA TickKeeps ==
  ASSUME RateLimiterInv, Tick
  PROVE  RateLimiterInv'
<1> USE DEF RateLimiterInv
<1>1. /\ Piped = {} /\ now' = now + 1
      /\ \/ zset' = zset /\ expires' = expires
         \/ /\ expires # 0 /\ expires <= now'
            /\ zset' = {} /\ expires' = 0
      /\ UNCHANGED <<at, asked, count, limit, passed>>
  BY DEF Tick
<1>2. RateLimiterTypeOK'
  <2>1. IsFiniteSet(zset')
    BY <1>1, FS_EmptySet DEF RateLimiterTypeOK
  <2>2. now' \in Nat /\ expires' \in Nat
    BY <1>1 DEF RateLimiterTypeOK
  <2> QED
    BY <1>1, <2>1, <2>2 DEF RateLimiterTypeOK
<1>3. Piped' = {}
  BY <1>1 DEF Piped
<1>4. PipedInv'
  <2>1. Cardinality(Piped') <= InFlight
    BY <1>1, <1>3 DEF PipedInv
  <2> QED
    BY <1>1, <1>3, <2>1 DEF PipedInv, RateLimiterTypeOK
<1>5. AddedInv'
  <2> SUFFICES ASSUME NEW q \in Requests, at[q] \in {"expire", "end"},
                      asked[q] > now' - Window
               PROVE  /\ Member(q) \in zset'
                      /\ at[q] = "end" => expires' = 0
                                         \/ expires' >= asked[q] + Window
    BY <1>1 DEF AddedInv, Member
  <2>1. at[q] = "end"
    BY <1>1 DEF Piped
  <2>2. asked[q] > now - Window /\ asked[q] \in Nat /\ now \in Nat
    BY <1>1, RateLimiterAssumption DEF RateLimiterTypeOK
  <2>3. /\ Member(q) \in zset
        /\ expires = 0 \/ expires >= asked[q] + Window
    BY <2>1, <2>2 DEF AddedInv
  <2>4. ~ (expires # 0 /\ expires <= now')
    BY <1>1, <2>2, <2>3, RateLimiterAssumption DEF RateLimiterTypeOK
  <2> QED
    BY <1>1, <2>3, <2>4
<1>6. CountInv'
  <2>1. Counted' \subseteq Counted
    BY <1>1 DEF Counted
  <2> QED
    BY <1>1, <2>1, CountKept
<1>7. PassedInv'
  BY <1>1 DEF PassedInv
<1> QED
  BY <1>2, <1>4, <1>5, <1>6, <1>7

(* In every behaviour the last of the requests of a window has counted all of
   them that were not in flight with it. *)
THEOREM RateLimiterInvariant == RateLimiterSpec => []RateLimiterInv
<1>1. RateLimiterInit => RateLimiterInv
  <2> SUFFICES ASSUME RateLimiterInit PROVE RateLimiterInv
    OBVIOUS
  <2> USE DEF RateLimiterInit
  <2>1. RateLimiterTypeOK
    BY FS_EmptySet DEF RateLimiterTypeOK
  <2>2. Piped = {} /\ Counted = {}
    BY DEF Piped, Counted
  <2>3. PipedInv
    BY <2>2, FS_EmptySet, RateLimiterAssumption DEF PipedInv
  <2>4. AddedInv /\ PassedInv
    BY DEF AddedInv, PassedInv
  <2>5. CountInv
    BY <2>2 DEF CountInv
  <2> QED
    BY <2>1, <2>3, <2>4, <2>5 DEF RateLimiterInv
<1>2. RateLimiterInv /\ [RateLimiterNext]_rateLimiterVars => RateLimiterInv'
  <2> SUFFICES ASSUME RateLimiterInv, [RateLimiterNext]_rateLimiterVars
               PROVE  RateLimiterInv'
    OBVIOUS
  <2>1. CASE Tick
    BY <2>1, TickKeeps
  <2>2. ASSUME NEW r \in Requests,
               \/ \E tier : Allow(r, tier)
               \/ ZCard(r) \/ ZAdd(r) \/ RateLimit(r) \/ RedisFails(r)
        PROVE  RateLimiterInv'
    BY <2>2, AllowKeeps, ZCardKeeps, ZAddKeeps, RateLimitKeeps, RedisFailsKeeps
  <2>3. CASE UNCHANGED rateLimiterVars
    <3>1. UNCHANGED <<now, zset, expires, at, asked, count, limit, passed>>
      BY <2>3 DEF rateLimiterVars
    <3>2. Piped' = Piped /\ Counted' = Counted
      BY <3>1 DEF Piped, Counted
    <3> USE DEF RateLimiterInv
    <3>3. RateLimiterTypeOK'
      BY <3>1 DEF RateLimiterTypeOK
    <3>4. PipedInv'
      BY <3>1, <3>2 DEF PipedInv
    <3>5. AddedInv' /\ PassedInv'
      BY <3>1 DEF AddedInv, PassedInv, Member
    <3>6. CountInv'
      BY <3>1, <3>2, CountKept
    <3> QED
      BY <3>3, <3>4, <3>5, <3>6
  <2> QED
    BY <2>1, <2>2, <2>3 DEF RateLimiterNext
<1> QED
  BY <1>1, <1>2, PTL DEF RateLimiterSpec

(* Of the requests let through in a window there is one whose limit holds for
   all of them, but for those that were in flight with it. *)
THEOREM RateLimiterLimit == RateLimiterSpec => []LimitHolds
<1>1. RateLimiterInv => LimitHolds
  <2> SUFFICES ASSUME RateLimiterInv, NEW r \in passed
               PROVE  \E s \in PassedWith(r) :
                        Cardinality(PassedWith(r)) <= limit[s] + InFlight - 1
    BY DEF LimitHolds
  <2> USE DEF RateLimiterInv
  <2>1. PICK C : C = PassedWith(r)
    OBVIOUS
  <2>2. /\ C \subseteq passed /\ passed \subseteq Requests
        /\ \A q \in Requests : asked[q] \in Nat /\ count[q] \in Nat
                               /\ limit[q] \in Nat
    BY <2>1 DEF PassedWith, RateLimiterTypeOK
  <2>3. r \in C
    BY <2>1, <2>2, RateLimiterAssumption DEF PassedWith
  <2>4. C \in SUBSET Counted
    BY <2>2 DEF PassedInv, Counted
  <2>5. Together(C)
    <3> SUFFICES ASSUME NEW p \in C, NEW q \in C
                 PROVE  asked[p] - asked[q] < Window
      BY DEF Together
    <3>1. asked[p] <= asked[r] /\ asked[q] > asked[r] - Window
      BY <2>1 DEF PassedWith
    <3>2. /\ asked[p] \in Nat /\ asked[q] \in Nat /\ asked[r] \in Nat
      BY <2>2
    <3> QED
      BY <3>1, <3>2, RateLimiterAssumption
  <2>6. PICK s \in C : Cardinality(C) <= count[s] + InFlight
    BY <2>3, <2>4, <2>5 DEF CountInv
  <2>7. Cardinality(C) \in Nat
    BY <2>2, PipedFinite
  <2>8. count[s] < limit[s] /\ count[s] \in Nat /\ limit[s] \in Nat
    BY <2>2 DEF PassedInv
  <2>9. Cardinality(C) <= limit[s] + InFlight - 1
    BY <2>6, <2>7, <2>8, RateLimiterAssumption
  <2> QED
    BY <2>1, <2>9
<1> QED
  BY <1>1, RateLimiterInvariant, PTL

-----------------------------------------------------------------------------
(* Providers and models. *)

KeyRow == [text : Keys \union {""}, under : Seq(Masters)]
ProviderRow == [key : KeyRow, active : BOOLEAN]
ModelRow == [of : Ids \union {""}, name : Names \union {""}, active : BOOLEAN,
             web : BOOLEAN]
SyncRow == [of : Ids, found : SUBSET Names, add : SUBSET Names,
            off : SUBSET [row : Nat, read : ModelRow], alone : BOOLEAN]

ProvidersTypeOK ==
  /\ providers \in [DOMAIN providers -> ProviderRow]
  /\ DOMAIN providers \subseteq Ids
  /\ models \in Seq(ModelRow)
  /\ syncs \subseteq SyncRow
  /\ phase \in {"down", "migrated", "up"}
  /\ master \in Masters
  /\ masters \subseteq Masters /\ IsFiniteSet(masters)
  /\ phase # "down" => master \in masters

(* If the service has run with one master key only, a key is in plain text or
   encrypted under that one, once. *)
Once(key) ==
  \A m \in Masters : masters \subseteq {m} => key.under \in {<<>>, <<m>>}
KeysInv ==
  /\ \A p \in DOMAIN providers : Once(providers[p].key)
  /\ \A m \in Masters : masters \subseteq {m} =>
       \A p \in DOMAIN registered : registered[p].key.under = <<>>

(* A request writes back what it read in the columns it does not set. *)
WriterInv(w) ==
  \/ /\ w.kind = "provider"
     /\ w.put \in ProviderRow /\ Once(w.put.key)
     /\ \A k \in {"key", "active"} : k \in w.sets \/ w.put[k] = w.read[k]
  \/ /\ w.kind = "model"
     /\ w.row \in DOMAIN models /\ w.put \in ModelRow
     /\ \A k \in {"active", "web"} : k \in w.sets \/ w.put[k] = w.read[k]
WritersInv == \A w \in writers : WriterInv(w)

(* A synchronisation that nothing disturbed has read the rows as they are, and
   what the table lacks or has too much is still on its lists. *)
Mirrors(s) ==
  /\ \A m \in s.off : m.read = models[m.row] /\ m.read.active
  /\ \A i \in ModelsOf(s.of) : models[i].active =>
       models[i].name \in s.found \/ \E m \in s.off : m.row = i
  /\ \A n \in s.found :
       n \in s.add \/ \E i \in ModelsOf(s.of) : models[i].name = n
SyncInv(s) ==
  /\ s.add \subseteq s.found
  /\ \A m \in s.off : m.row \in DOMAIN models
  /\ s.alone => Mirrors(s)
SyncsInv == \A s \in syncs : SyncInv(s)

ProvidersInv ==
  ProvidersTypeOK /\ KeysInv /\ WritersInv /\ SyncsInv

-----------------------------------------------------------------------------
(* Keys. *)

(* A sequence of one element. *)
LEMMA OneAppended ==
  ASSUME NEW S, NEW x \in S
  PROVE  /\ <<>> \in Seq(S) /\ <<x>> \in Seq(S)
         /\ Append(<<>>, x) = <<x>>
<1>1. <<>> \in Seq(S)
  OBVIOUS
<1>2. <<x>> \in Seq(S)
  OBVIOUS
<1>3. Append(<<>>, x) = <<x>>
  OBVIOUS
<1> QED
  BY <1>1, <1>2, <1>3

(* What is stored of a key when the service runs with its master key. *)
LEMMA KeyOfFacts ==
  ASSUME ProvidersInv, phase = "up", NEW k \in Keys \union {""}
  PROVE  /\ KeyOf(k) \in KeyRow /\ Once(KeyOf(k))
         /\ KeyOf(k).under \in {<<>>, <<master>>}
<1>1. master \in Masters /\ master \in masters
  BY DEF ProvidersInv, ProvidersTypeOK
<1>2. /\ <<>> \in Seq(Masters) /\ <<master>> \in Seq(Masters)
      /\ Append(<<>>, master) = <<master>>
  BY <1>1, OneAppended
<1>3. KeyOf(k) \in KeyRow /\ KeyOf(k).under \in {<<>>, <<master>>}
  BY <1>2 DEF KeyOf, EncryptAPIKey, Encrypt, Plain, NoKey, KeyRow
<1>4. Once(KeyOf(k))
  BY <1>1, <1>3 DEF Once
<1> QED
  BY <1>3, <1>4

(* A key that is in plain text, or encrypted once under the one master key, is
   encrypted once under it after a start. *)
LEMMA MigratedFacts ==
  ASSUME NEW row \in ProviderRow, NEW m \in Masters
  PROVE  /\ Migrated(row, m) \in ProviderRow
         /\ row.key.under \in {<<>>, <<m>>} =>
              Migrated(row, m).key.under \in {<<>>, <<m>>}
<1>1. row.key \in KeyRow /\ row.active \in BOOLEAN
  BY DEF ProviderRow
<1>2. row.key.under \in Seq(Masters)
  BY <1>1 DEF KeyRow
<1>3. PICK key : key = Encrypt(row.key, m)
  OBVIOUS
<1>4. key \in KeyRow /\ key.under = Append(row.key.under, m)
  <2>1. PICK under : under = Append(row.key.under, m)
    OBVIOUS
  <2>2. under \in Seq(Masters)
    BY <1>2, <2>1, AppendProperties
  <2>3. key = [row.key EXCEPT !.under = under]
    BY <1>3, <2>1 DEF Encrypt
  <2> QED
    BY <1>1, <2>1, <2>2, <2>3 DEF KeyRow
<1>5. Migrated(row, m) = row \/ Migrated(row, m) = [row EXCEPT !.key = key]
  BY <1>3 DEF Migrated
<1>6. Migrated(row, m) \in ProviderRow
  BY <1>4, <1>5 DEF ProviderRow
<1>7. ASSUME row.key.under \in {<<>>, <<m>>}
      PROVE  Migrated(row, m).key.under \in {<<>>, <<m>>}
  <2>1. CASE row.key.under = <<m>>
    <3>1. row.key.under # <<>> /\ Len(row.key.under) = 1
      BY <2>1
    <3>2. Decrypts(row.key, m)
      BY <2>1, <3>1 DEF Decrypts
    <3> QED
      BY <2>1, <3>2 DEF Migrated
  <2>2. CASE row.key.under = <<>>
    <3>1. key.under = <<m>>
      BY <1>4, <2>2
    <3>2. [row EXCEPT !.key = key].key = key
      BY DEF ProviderRow
    <3> QED
      BY <1>5, <2>2, <3>1, <3>2
  <2> QED
    BY <1>7, <2>1, <2>2
<1> QED
  BY <1>6, <1>7

(* What a client is created with, when the key was encrypted once. *)
LEMMA ClientKeyFacts ==
  ASSUME NEW p, CreatesClient(p), providers[p].key \in KeyRow,
         providers[p].key.under \in {<<>>, <<master>>}
  PROVE  ClientKey(p).under = <<>>
<1>1. CASE providers[p].key = NoKey
  BY <1>1 DEF ClientKey, NoKey
<1>2. CASE providers[p].key # NoKey
  <2>1. Decrypts(providers[p].key, master)
    BY <1>2 DEF CreatesClient
  <2>2. providers[p].key.under = <<master>>
    BY <2>1 DEF Decrypts
  <2>3. PICK under : under = providers[p].key.under
    OBVIOUS
  <2>4. SubSeq(under, 1, Len(under) - 1) = <<>>
    BY <2>2, <2>3
  <2>5. ClientKey(p) = [providers[p].key EXCEPT !.under = <<>>]
    BY <1>2, <2>3, <2>4 DEF ClientKey, DecryptAPIKey, Decrypt
  <2> QED
    BY <2>5 DEF KeyRow
<1> QED
  BY <1>1, <1>2

-----------------------------------------------------------------------------
(* The tables. *)

(* What the type says of the rows of models. *)
LEMMA ModelFacts ==
  ASSUME ProvidersTypeOK
  PROVE  /\ models \in Seq(ModelRow) /\ Len(models) \in Nat
         /\ DOMAIN models = 1..Len(models)
         /\ \A i \in DOMAIN models : models[i] \in ModelRow /\ i \in Nat
<1>1. models \in Seq(ModelRow)
  BY DEF ProvidersTypeOK
<1>2. /\ Len(models) \in Nat /\ DOMAIN models = 1..Len(models)
      /\ \A i \in 1..Len(models) : models[i] \in ModelRow
  BY <1>1, LenProperties, ElementOfSeq
<1> QED
  BY <1>1, <1>2

(* A row more. *)
LEMMA ModelAdded ==
  ASSUME ProvidersTypeOK, NEW p \in Ids, NEW n \in Names, CreateModelRow(p, n)
  PROVE  /\ models' \in Seq(ModelRow)
         /\ Len(models') = Len(models) + 1
         /\ DOMAIN models' = DOMAIN models \union {Len(models')}
         /\ Len(models') \notin DOMAIN models
         /\ \A i \in DOMAIN models : models'[i] = models[i]
         /\ models'[Len(models')] \in ModelRow
         /\ models'[Len(models')].of = p /\ models'[Len(models')].name = n
<1> DEFINE row == [of |-> p, name |-> n, active |-> TRUE, web |-> FALSE]
<1>1. models' = Append(models, row) /\ row \in ModelRow
  BY DEF CreateModelRow, ModelRow
<1>2. row.of = p /\ row.name = n
  OBVIOUS
<1> HIDE DEF row
<1>3. /\ models' \in Seq(ModelRow) /\ Len(models') = Len(models) + 1
      /\ \A i \in 1..Len(models) : models'[i] = models[i]
      /\ models'[Len(models) + 1] = row
  BY <1>1, ModelFacts, AppendProperties
<1>4. DOMAIN models' = 1..(Len(models) + 1)
  BY <1>3, LenProperties
<1> QED
  BY <1>1, <1>2, <1>3, <1>4, ModelFacts

(* A row replaced. *)
LEMMA ModelReplaced ==
  ASSUME ProvidersTypeOK, NEW i \in DOMAIN models, NEW row \in ModelRow,
         models' = [models EXCEPT ![i] = row]
  PROVE  /\ models' \in Seq(ModelRow) /\ DOMAIN models' = DOMAIN models
         /\ models'[i] = row
         /\ \A j \in DOMAIN models : j # i => models'[j] = models[j]
<1>1. /\ models' \in Seq(ModelRow)
      /\ \A j \in 1..Len(models) : models'[j] = IF j = i THEN row ELSE models[j]
  BY ModelFacts, ExceptSeq
<1>2. DOMAIN models' = DOMAIN models
  OBVIOUS
<1> QED
  BY <1>1, <1>2, ModelFacts

(* A row that was deleted is a row that is not active. *)
LEMMA GoneIsRow == Gone \in ModelRow /\ ~ Gone.active
BY DEF Gone, ModelRow

(* Deleting a provider deletes its models. *)
LEMMA ProviderDeleted ==
  ASSUME ProvidersTypeOK, NEW p \in Ids, DeleteProviderRow(p)
  PROVE  /\ models' \in Seq(ModelRow) /\ DOMAIN models' = DOMAIN models
         /\ \A i \in DOMAIN models : models'[i] \in {Gone, models[i]}
         /\ DOMAIN providers' = DOMAIN providers \ {p}
         /\ \A q \in DOMAIN providers' : providers'[q] = providers[q]
<1>1. /\ providers' = [q \in DOMAIN providers \ {p} |-> providers[q]]
      /\ models' = [i \in DOMAIN models |->
                      IF models[i].of = p THEN Gone ELSE models[i]]
  BY DEF DeleteProviderRow, Without
<1>2. \A i \in 1..Len(models) : models'[i] \in ModelRow
  BY <1>1, ModelFacts, GoneIsRow
<1>3. DOMAIN models' = 1..Len(models) /\ Len(models) \in Nat
  BY <1>1, ModelFacts
<1>4. models' = [i \in 1..Len(models) |-> models'[i]]
  BY <1>1, ModelFacts
<1>5. models' \in Seq(ModelRow)
  BY <1>2, <1>3, <1>4
<1> QED
  BY <1>1, <1>3, <1>5, ModelFacts

-----------------------------------------------------------------------------
(* What a step leaves alone. *)

(* Rows of providers keep their keys when the set of master keys only grows:
   there is less to be said then. *)
LEMMA KeysKept ==
  ASSUME KeysInv, masters \subseteq masters', UNCHANGED registered,
         DOMAIN providers' \subseteq DOMAIN providers,
         \A p \in DOMAIN providers' : providers'[p] = providers[p]
  PROVE  KeysInv'
<1>1. \A p \in DOMAIN providers' : Once(providers[p].key)
  BY DEF KeysInv
<1>2. \A p \in DOMAIN providers' : Once(providers[p].key)'
  BY <1>1 DEF Once
<1>3. \A m \in Masters : masters' \subseteq {m} =>
        \A p \in DOMAIN registered' : registered'[p].key.under = <<>>
  BY DEF KeysInv
<1> QED
  BY <1>2, <1>3 DEF KeysInv

(* A request under way stays as it is. *)
LEMMA WriterKept ==
  ASSUME masters \subseteq masters', DOMAIN models \subseteq DOMAIN models',
         NEW w, WriterInv(w)
  PROVE  WriterInv(w)'
BY DEF WriterInv, Once

(* An administrator's step only ends updates, or leaves them alone. *)
LEMMA WritersKept ==
  ASSUME WritersInv, masters \subseteq masters',
         DOMAIN models \subseteq DOMAIN models', writers' \subseteq writers
  PROVE  WritersInv'
BY WriterKept DEF WritersInv

(* A synchronisation that has been disturbed has nothing to say of the
   tables. *)
LEMMA DisturbedFacts ==
  ASSUME ProvidersInv, NEW o \in syncs, NEW s,
         s = [o EXCEPT !.alone = FALSE], DOMAIN models \subseteq DOMAIN models'
  PROVE  s \in SyncRow /\ SyncInv(s)' /\ s.alone = FALSE /\ s.off = o.off
<1>1. o \in SyncRow /\ SyncInv(o)
  BY DEF ProvidersInv, ProvidersTypeOK, SyncsInv
<1>2. /\ s \in SyncRow /\ s.alone = FALSE /\ s.off = o.off /\ s.add = o.add
      /\ s.found = o.found
  BY <1>1 DEF SyncRow
<1> QED
  BY <1>1, <1>2 DEF SyncInv

(* A step that disturbs every synchronisation leaves nothing to show of them. *)
LEMMA SyncsDisturbed ==
  ASSUME ProvidersInv, Disturb, DOMAIN models \subseteq DOMAIN models'
  PROVE  syncs' \subseteq SyncRow /\ SyncsInv'
<1> SUFFICES ASSUME NEW s \in syncs' PROVE s \in SyncRow /\ SyncInv(s)'
  BY DEF SyncsInv
<1>1. PICK o \in syncs : s = [o EXCEPT !.alone = FALSE]
  BY DEF Disturb, Disturbed
<1> QED
  BY <1>1, DisturbedFacts

(* Synchronisations end, and the models stay as they are. *)
LEMMA SyncsKept ==
  ASSUME ProvidersInv, syncs' \subseteq syncs, UNCHANGED models
  PROVE  syncs' \subseteq SyncRow /\ SyncsInv'
<1>1. \A s \in syncs' : s \in SyncRow /\ SyncInv(s)
  BY DEF ProvidersInv, ProvidersTypeOK, SyncsInv
<1>2. \A s \in syncs' : SyncInv(s)'
  BY <1>1 DEF SyncInv, Mirrors, ModelsOf
<1> QED
  BY <1>1, <1>2 DEF SyncsInv

-----------------------------------------------------------------------------
(* The requests of an administrator. *)

LEMMA HandleCreateProviderKeeps ==
  ASSUME ProvidersInv, NEW p \in Ids, NEW k \in Keys \union {""},
         HandleCreateProvider(p, k)
  PROVE  ProvidersInv'
<1> USE DEF ProvidersInv
<1>1. PICK row : row = [key |-> KeyOf(k), active |-> TRUE]
  OBVIOUS
<1>2. /\ phase = "up" /\ p \notin DOMAIN providers
      /\ providers' = Put(providers, p, row)
      /\ UNCHANGED <<models, writers, syncs, phase, master, registered, starts,
                     masters>>
  BY <1>1 DEF HandleCreateProvider, Request, CreateProvider, CreateProviderRow,
     service
<1>3. KeyOf(k) \in KeyRow /\ Once(KeyOf(k))
  BY <1>2, KeyOfFacts
<1>4. row \in ProviderRow /\ Once(row.key)
  <2>1. row \in ProviderRow
    BY <1>1, <1>3 DEF ProviderRow
  <2>2. row.key = KeyOf(k)
    BY <1>1
  <2> QED
    BY <1>3, <2>1, <2>2
<1>5. /\ DOMAIN providers' = DOMAIN providers \union {p}
      /\ providers'[p] = row
      /\ \A q \in DOMAIN providers : providers'[q] = providers[q]
      /\ providers' \in [DOMAIN providers' -> ProviderRow]
  BY <1>2, <1>4 DEF Put, ProvidersTypeOK
<1>6. ProvidersTypeOK'
  BY <1>2, <1>5 DEF ProvidersTypeOK
<1>7. KeysInv'
  BY <1>2, <1>4, <1>5 DEF KeysInv, Once
<1>8. WritersInv'
  BY <1>2, WritersKept
<1>9. SyncsInv'
  BY <1>2, SyncsKept
<1> QED
  BY <1>6, <1>7, <1>8, <1>9

(* A request that has read a row comes to write it, with the columns it sets. *)
LEMMA WriterAdded ==
  ASSUME ProvidersInv, NEW w, writers' = writers \union {w}, WriterInv(w)',
         UNCHANGED <<models, providers, syncs, phase, master, registered, starts,
                     masters>>
  PROVE  ProvidersInv'
<1> USE DEF ProvidersInv
<1>1. ProvidersTypeOK'
  BY DEF ProvidersTypeOK
<1>2. KeysInv'
  BY KeysKept
<1>3. \A v \in writers : WriterInv(v)'
  BY WriterKept DEF WritersInv
<1>4. WritersInv'
  BY <1>3 DEF WritersInv
<1>5. SyncsInv'
  BY SyncsKept
<1> QED
  BY <1>1, <1>2, <1>4, <1>5

(* A provider is read to be updated: what the update will write is a row of
   the table, and its key is encrypted once. *)
LEMMA HandleUpdateProviderKeeps ==
  ASSUME ProvidersInv, NEW p \in Ids, NEW k \in Keys \union {""},
         NEW active \in BOOLEAN, HandleUpdateProvider(p, k, active)
  PROVE  ProvidersInv'
<1>1. PICK read, put, sets :
        /\ read = providers[p]
        /\ put = Merged(read, ProviderSets(k, active))
        /\ sets = IF k = "" THEN {"active"} ELSE {"key", "active"}
  OBVIOUS
<1>2. PICK w : w = [kind |-> "provider", row |-> p, read |-> read,
                    sets |-> sets, put |-> put]
  OBVIOUS
<1>3. /\ phase = "up" /\ p \in DOMAIN providers
      /\ writers' = writers \union {w}
      /\ UNCHANGED <<providers, models, syncs, phase, master, registered, starts,
                     masters>>
  BY <1>1, <1>2 DEF HandleUpdateProvider, Request, GetProvider, tables, service
<1>4. read \in ProviderRow /\ Once(read.key)
  BY <1>1, <1>3 DEF ProvidersInv, ProvidersTypeOK, KeysInv
<1>5. PICK key : key = IF k = "" THEN read.key ELSE EncryptAPIKey(k)
  OBVIOUS
<1>6. key \in KeyRow /\ Once(key)
  <2>1. CASE k = ""
    BY <1>4, <1>5, <2>1 DEF ProviderRow
  <2>2. CASE k # ""
    BY <1>3, <1>5, <2>2, KeyOfFacts DEF KeyOf
  <2> QED
    BY <2>1, <2>2
<1>7. /\ put \in ProviderRow /\ put.key = key
      /\ \A c \in {"key", "active"} : c \in sets \/ put[c] = read[c]
  <2>1. DOMAIN read = {"key", "active"} /\ read.active \in BOOLEAN
    BY <1>4 DEF ProviderRow
  <2>2. CASE k = ""
    <3>1. PICK ps : ps = [active |-> active]
      OBVIOUS
    <3>2. DOMAIN ps = {"active"} /\ ps["active"] = active
      BY <3>1
    <3>3. put = [c \in DOMAIN read |-> IF c \in DOMAIN ps THEN ps[c] ELSE read[c]]
      BY <1>1, <2>2, <3>1 DEF Merged, ProviderSets
    <3>4. /\ put["key"] = read["key"] /\ put["active"] = active
          /\ put = [c \in {"key", "active"} |-> put[c]]
      BY <2>1, <3>2, <3>3
    <3>5. put \in ProviderRow
      BY <1>4, <3>4 DEF ProviderRow
    <3> QED
      BY <1>1, <1>5, <2>2, <3>4, <3>5
  <2>3. CASE k # ""
    <3>1. PICK ps : ps = [key |-> key, active |-> active]
      OBVIOUS
    <3>2. /\ DOMAIN ps = {"key", "active"} /\ ps["active"] = active
          /\ ps["key"] = key
      BY <3>1
    <3>3. put = [c \in DOMAIN read |-> IF c \in DOMAIN ps THEN ps[c] ELSE read[c]]
      BY <1>1, <1>5, <2>3, <3>1 DEF Merged, ProviderSets
    <3>4. /\ put["key"] = key /\ put["active"] = active
          /\ put = [c \in {"key", "active"} |-> put[c]]
      BY <2>1, <3>2, <3>3
    <3>5. put \in ProviderRow
      BY <1>6, <3>4 DEF ProviderRow
    <3> QED
      BY <1>1, <2>3, <3>4, <3>5
  <2> QED
    BY <2>2, <2>3
<1>8. WriterInv(w)
  <2>1. w.kind = "provider" /\ w.put = put /\ w.sets = sets /\ w.read = read
    BY <1>2
  <2> QED
    BY <1>6, <1>7, <2>1 DEF WriterInv
<1>9. WriterInv(w)'
  BY <1>3, <1>8, WriterKept
<1> QED
  BY <1>3, <1>9, WriterAdded

(* A model is read to be updated: what the update will write is a row of the
   table. *)
LEMMA HandleUpdateModelKeeps ==
  ASSUME ProvidersInv, NEW i \in DOMAIN models, NEW active \in BOOLEAN,
         NEW web \in {"yes", "no", "same"}, HandleUpdateModel(i, active, web)
  PROVE  ProvidersInv'
<1>1. PICK read, put, sets :
        /\ read = models[i]
        /\ put = withWebsiteAgentConfig(read, active, web)
        /\ sets = IF web = "same" THEN {"active"} ELSE {"active", "web"}
  OBVIOUS
<1>2. PICK w : w = [kind |-> "model", row |-> i, read |-> read,
                    sets |-> sets, put |-> put]
  OBVIOUS
<1>3. /\ writers' = writers \union {w}
      /\ UNCHANGED <<providers, models, syncs, phase, master, registered, starts,
                     masters>>
  BY <1>1, <1>2 DEF HandleUpdateModel, Request, tables, service
<1>4. read \in ModelRow
  BY <1>1, ModelFacts DEF ProvidersInv
<1>5. PICK said : said = IF web = "same" THEN read.web ELSE web = "yes"
  OBVIOUS
<1>6. put = [read EXCEPT !.active = active, !.web = said]
  BY <1>1, <1>5 DEF withWebsiteAgentConfig
<1>7. said \in BOOLEAN /\ (web = "same" => said = read.web)
  BY <1>4, <1>5 DEF ModelRow
<1>8. put \in ModelRow /\ put.web = said
  BY <1>4, <1>6, <1>7 DEF ModelRow
<1>9. \A c \in {"active", "web"} : c \in sets \/ put[c] = read[c]
  BY <1>1, <1>7, <1>8
<1>10. WriterInv(w)
  <2>1. /\ w.kind = "model" /\ w.put = put /\ w.sets = sets /\ w.read = read
        /\ w.row = i
    BY <1>2
  <2> QED
    BY <1>8, <1>9, <2>1 DEF WriterInv
<1>11. WriterInv(w)'
  BY <1>3, <1>10, WriterKept
<1> QED
  BY <1>3, <1>11, WriterAdded

(* The write: the row becomes what the request has made of the one it read. *)
LEMMA WriteModelKeeps ==
  ASSUME ProvidersInv, NEW w \in writers, UpdateModel(w), Write(w)
  PROVE  ProvidersInv'
<1> USE DEF ProvidersInv
<1>1. /\ w.kind = "model" /\ UpdateModelRow(w.row, w.put)
      /\ writers' = writers \ {w} /\ Disturb
      /\ UNCHANGED <<providers, phase, master, registered, starts, masters>>
  BY DEF UpdateModel, Write, service
<1>2. w.row \in DOMAIN models /\ w.put \in ModelRow
  BY <1>1 DEF WritersInv, WriterInv
<1>3. models' \in Seq(ModelRow) /\ DOMAIN models' = DOMAIN models
  <2>1. CASE models' = models
    BY <2>1, ModelFacts
  <2>2. CASE models' = [models EXCEPT ![w.row] = w.put]
    <3>1. PICK i, row : i = w.row /\ row = w.put
      OBVIOUS
    <3>2. i \in DOMAIN models /\ row \in ModelRow
          /\ models' = [models EXCEPT ![i] = row]
      BY <1>2, <2>2, <3>1
    <3> QED
      BY <3>2, ModelReplaced
  <2> QED
    BY <1>1, <2>1, <2>2 DEF UpdateModelRow
<1>4. syncs' \subseteq SyncRow /\ SyncsInv'
  BY <1>1, <1>3, SyncsDisturbed
<1>5. ProvidersTypeOK'
  BY <1>1, <1>3, <1>4 DEF ProvidersTypeOK
<1>6. KeysInv'
  BY <1>1, KeysKept
<1>7. WritersInv'
  BY <1>1, <1>3, WritersKept
<1> QED
  BY <1>4, <1>5, <1>6, <1>7

(* An update of a provider is written. *)
LEMMA WriteProviderKeeps ==
  ASSUME ProvidersInv, NEW w \in writers, UpdateProvider(w), Write(w)
  PROVE  ProvidersInv'
<1> USE DEF ProvidersInv
<1>1. /\ w.kind = "provider" /\ UpdateProviderRow(w.row, w.put)
      /\ writers' = writers \ {w} /\ Disturb
      /\ UNCHANGED <<models, phase, master, registered, starts, masters>>
  BY DEF UpdateProvider, Write, service
<1>2. w.put \in ProviderRow /\ Once(w.put.key)
  BY <1>1 DEF WritersInv, WriterInv
<1>3. /\ DOMAIN providers' = DOMAIN providers
      /\ providers' \in [DOMAIN providers' -> ProviderRow]
      /\ \A p \in DOMAIN providers : providers'[p] \in {providers[p], w.put}
  BY <1>1, <1>2 DEF UpdateProviderRow, ProvidersTypeOK
<1>4. syncs' \subseteq SyncRow /\ SyncsInv'
  BY <1>1, SyncsDisturbed
<1>5. ProvidersTypeOK'
  BY <1>1, <1>3, <1>4 DEF ProvidersTypeOK
<1>6. KeysInv'
  BY <1>1, <1>2, <1>3 DEF KeysInv, Once
<1>7. WritersInv'
  BY <1>1, WritersKept
<1> QED
  BY <1>4, <1>5, <1>6, <1>7

(* Steps that leave the tables, the keys and the service alone. *)
LEMMA TablesAside ==
  ASSUME ProvidersInv, writers' \subseteq writers, syncs' \subseteq syncs,
         UNCHANGED <<models, providers, phase, master, registered, starts,
                     masters>>
  PROVE  ProvidersInv'
<1> USE DEF ProvidersInv
<1>1. syncs' \subseteq SyncRow /\ SyncsInv'
  BY SyncsKept
<1>2. ProvidersTypeOK'
  BY <1>1 DEF ProvidersTypeOK
<1>3. KeysInv' /\ WritersInv'
  BY KeysKept, WritersKept
<1> QED
  BY <1>1, <1>2, <1>3

(* A provider goes, and its models with it. *)
LEMMA HandleDeleteProviderKeeps ==
  ASSUME ProvidersInv, NEW p \in Ids, HandleDeleteProvider(p)
  PROVE  ProvidersInv'
<1> USE DEF ProvidersInv
<1>1. /\ DeleteProviderRow(p) /\ Disturb
      /\ UNCHANGED <<writers, phase, master, registered, starts, masters>>
  BY DEF HandleDeleteProvider, DeleteProvider, service
<1>2. /\ models' \in Seq(ModelRow) /\ DOMAIN models' = DOMAIN models
      /\ DOMAIN providers' = DOMAIN providers \ {p}
      /\ \A q \in DOMAIN providers' : providers'[q] = providers[q]
  BY <1>1, ProviderDeleted
<1>3. syncs' \subseteq SyncRow /\ SyncsInv'
  BY <1>1, <1>2, SyncsDisturbed
<1>4. providers' \in [DOMAIN providers' -> ProviderRow]
  BY <1>1, <1>2 DEF DeleteProviderRow, Without, ProvidersTypeOK
<1>5. ProvidersTypeOK'
  BY <1>1, <1>2, <1>3, <1>4 DEF ProvidersTypeOK
<1>6. KeysInv'
  BY <1>1, <1>2, KeysKept
<1>7. WritersInv'
  BY <1>1, <1>2, WritersKept
<1> QED
  BY <1>3, <1>5, <1>6, <1>7

(* A new model, and the request that is to write it once more. *)
LEMMA HandleCreateModelKeeps ==
  ASSUME ProvidersInv, NEW p \in Ids, NEW n \in Names, NEW web \in BOOLEAN,
         HandleCreateModel(p, n, web)
  PROVE  ProvidersInv'
<1> USE DEF ProvidersInv
<1>1. PICK i, read, put : /\ i = Len(models') /\ read = models'[i]
                          /\ put = [read EXCEPT !.web = web]
  OBVIOUS
<1>2. PICK w : w = [kind |-> "model", row |-> i, read |-> read,
                    sets |-> {"web"}, put |-> put]
  OBVIOUS
<1>3. /\ CreateModelRow(p, n) /\ Disturb
      /\ writers' = writers \union {w}
      /\ UNCHANGED <<providers, phase, master, registered, starts, masters>>
  BY <1>1, <1>2 DEF HandleCreateModel, CreateModel, service
<1>4. /\ models' \in Seq(ModelRow) /\ DOMAIN models \subseteq DOMAIN models'
      /\ i \in DOMAIN models' /\ read \in ModelRow
  BY <1>1, <1>3, ModelAdded
<1>5. /\ put \in ModelRow
      /\ \A c \in {"active", "web"} : c \in {"web"} \/ put[c] = read[c]
  BY <1>1, <1>4 DEF ModelRow
<1>6. WriterInv(w)'
  <2>1. /\ w.kind = "model" /\ w.put = put /\ w.sets = {"web"} /\ w.read = read
        /\ w.row = i
    BY <1>2
  <2> QED
    BY <1>4, <1>5, <2>1 DEF WriterInv
<1>7. WritersInv'
  <2>1. \A v \in writers : WriterInv(v)'
    BY <1>3, <1>4, WriterKept DEF WritersInv
  <2> QED
    BY <1>3, <1>6, <2>1 DEF WritersInv
<1>8. syncs' \subseteq SyncRow /\ SyncsInv'
  BY <1>3, <1>4, SyncsDisturbed
<1>9. ProvidersTypeOK'
  BY <1>3, <1>4, <1>8 DEF ProvidersTypeOK
<1>10. KeysInv'
  BY <1>3, KeysKept
<1> QED
  BY <1>7, <1>8, <1>9, <1>10

(* A model goes. *)
LEMMA HandleDeleteModelKeeps ==
  ASSUME ProvidersInv, NEW i \in DOMAIN models, HandleDeleteModel(i)
  PROVE  ProvidersInv'
<1> USE DEF ProvidersInv
<1>1. /\ models' = [models EXCEPT ![i] = Gone] /\ Disturb
      /\ UNCHANGED <<providers, writers, phase, master, registered, starts,
                     masters>>
  BY DEF HandleDeleteModel, DeleteModelRow, service
<1>2. PICK row : row = Gone
  OBVIOUS
<1>3. row \in ModelRow /\ models' = [models EXCEPT ![i] = row]
  BY <1>1, <1>2, GoneIsRow
<1>4. models' \in Seq(ModelRow) /\ DOMAIN models' = DOMAIN models
  BY <1>3, ModelReplaced
<1>5. syncs' \subseteq SyncRow /\ SyncsInv'
  BY <1>1, <1>4, SyncsDisturbed
<1>6. ProvidersTypeOK'
  BY <1>1, <1>4, <1>5 DEF ProvidersTypeOK
<1>7. KeysInv'
  BY <1>1, KeysKept
<1>8. WritersInv'
  BY <1>1, <1>4, WritersKept
<1> QED
  BY <1>5, <1>6, <1>7, <1>8

-----------------------------------------------------------------------------
(* Synchronisations. *)

(* A synchronisation takes a step: it may stay alone, the others do not. *)
LEMMA SyncProceeds ==
  ASSUME ProvidersInv, NEW s \in syncs, NEW next, Proceed(s, next),
         next \in SyncRow, SyncInv(next)',
         models' \in Seq(ModelRow), DOMAIN models \subseteq DOMAIN models',
         UNCHANGED <<providers, writers, phase, master, registered, starts,
                     masters>>
  PROVE  ProvidersInv'
<1> USE DEF ProvidersInv
<1>1. syncs' = {[o EXCEPT !.alone = FALSE] : o \in syncs \ {s}} \union {next}
  BY DEF Proceed
<1>2. ASSUME NEW t \in syncs' PROVE t \in SyncRow /\ SyncInv(t)'
  <2>1. CASE t = next
    BY <2>1
  <2>2. CASE t # next
    <3>1. PICK o \in syncs : t = [o EXCEPT !.alone = FALSE]
      BY <1>1, <2>2
    <3> QED
      BY <3>1, DisturbedFacts
  <2> QED
    BY <2>1, <2>2
<1>3. syncs' \subseteq SyncRow /\ SyncsInv'
  BY <1>2 DEF SyncsInv
<1>4. ProvidersTypeOK'
  BY <1>3 DEF ProvidersTypeOK
<1>5. KeysInv' /\ WritersInv'
  BY KeysKept, WritersKept
<1> QED
  BY <1>3, <1>4, <1>5

(* A synchronisation begins with the rows as they are. *)
LEMMA SyncModelsKeeps ==
  ASSUME ProvidersInv, NEW p \in Ids, NEW found \in SUBSET Names,
         SyncModels(p, found)
  PROVE  ProvidersInv'
<1> USE DEF ProvidersInv
<1>1. PICK s : s = [of |-> p, found |-> found, add |-> New(p, found),
                    off |-> {[row |-> i, read |-> models[i]] :
                               i \in Missing(p, found)},
                    alone |-> writers = {}]
  OBVIOUS
<1>2. /\ syncs' = Disturbed \union {s}
      /\ UNCHANGED <<models, providers, writers, phase, master, registered,
                     starts, masters>>
  BY <1>1 DEF SyncModels, reconcileModels, tables, service
<1>3. /\ s.of = p /\ s.found = found /\ s.add = New(p, found)
      /\ s.off = {[row |-> i, read |-> models[i]] : i \in Missing(p, found)}
  BY <1>1
<1>4. \A i \in Missing(p, found) :
        /\ i \in DOMAIN models /\ i \in Nat /\ models[i] \in ModelRow
        /\ models[i].active
  BY ModelFacts DEF Missing, ListAllModelsByProvider, ModelsOf
<1>5. s \in SyncRow
  <2>1. {[row |-> i, read |-> models[i]] : i \in Missing(p, found)}
          \in SUBSET [row : Nat, read : ModelRow]
    BY <1>4
  <2>2. New(p, found) \in SUBSET Names /\ (writers = {}) \in BOOLEAN
    BY DEF New
  <2> QED
    BY <1>1, <2>1, <2>2 DEF SyncRow
<1>6. \A m \in s.off : /\ m.row \in DOMAIN models /\ m.read = models[m.row]
                       /\ m.read.active
  BY <1>3, <1>4
<1>7. Mirrors(s)
  <2>1. ASSUME NEW i \in ModelsOf(p), models[i].active
        PROVE  models[i].name \in found \/ \E m \in s.off : m.row = i
    <3>1. CASE models[i].name \notin found
      <4>1. i \in Missing(p, found)
        BY <2>1, <3>1 DEF Missing, ListAllModelsByProvider
      <4>2. [row |-> i, read |-> models[i]] \in s.off
        BY <1>3, <4>1
      <4> QED
        BY <4>2
    <3> QED
      BY <3>1
  <2>2. \A n \in found :
          n \in New(p, found) \/ \E i \in ModelsOf(p) : models[i].name = n
    BY DEF New, ListModelsByProvider
  <2> QED
    BY <1>3, <1>6, <2>1, <2>2 DEF Mirrors
<1>8. SyncInv(s)'
  <2>1. SyncInv(s)
    BY <1>3, <1>6, <1>7 DEF SyncInv, New
  <2> QED
    BY <1>2, <2>1 DEF SyncInv, Mirrors, ModelsOf
<1>9. ASSUME NEW t \in syncs' PROVE t \in SyncRow /\ SyncInv(t)'
  <2>1. CASE t = s
    BY <1>5, <1>8, <2>1
  <2>2. CASE t # s
    <3>1. PICK o \in syncs : t = [o EXCEPT !.alone = FALSE]
      BY <1>2, <2>2 DEF Disturbed
    <3> QED
      BY <1>2, <3>1, DisturbedFacts
  <2> QED
    BY <2>1, <2>2
<1>10. syncs' \subseteq SyncRow /\ SyncsInv'
  BY <1>9 DEF SyncsInv
<1>11. ProvidersTypeOK'
  BY <1>2, <1>10 DEF ProvidersTypeOK
<1>12. KeysInv' /\ WritersInv'
  BY <1>2, KeysKept, WritersKept
<1> QED
  BY <1>10, <1>11, <1>12

(* A model that the table lacks is added, or the synchronisation is no longer
   complete. *)
LEMMA AddKeeps ==
  ASSUME ProvidersInv, NEW s \in syncs, NEW n \in s.add, Add(s, n)
  PROVE  ProvidersInv'
<1> USE DEF ProvidersInv
<1>1. /\ s \in SyncRow /\ SyncInv(s) /\ s.of \in Ids /\ s.add \subseteq Names
      /\ s.alone \in BOOLEAN /\ n \in Names /\ n \in s.found
  BY DEF ProvidersTypeOK, SyncsInv, SyncInv, SyncRow
<1>2. UNCHANGED <<providers, writers, phase, master, registered, starts, masters>>
  BY DEF Add, service
<1>3. CASE CreateModelRow(s.of, n) /\ Proceed(s, [s EXCEPT !.add = @ \ {n}])
  <2>1. PICK next : next = [s EXCEPT !.add = s.add \ {n}]
    OBVIOUS
  <2>2. /\ next \in SyncRow /\ next.add = s.add \ {n} /\ next.off = s.off
        /\ next.found = s.found /\ next.of = s.of /\ next.alone = s.alone
    BY <1>1, <2>1 DEF SyncRow
  <2>3. PICK i, p : i = Len(models') /\ p = s.of
    OBVIOUS
  <2>4. /\ models' \in Seq(ModelRow) /\ DOMAIN models' = DOMAIN models \union {i}
        /\ \A j \in DOMAIN models : models'[j] = models[j]
        /\ models'[i].of = p /\ models'[i].name = n
    <3>1. CreateModelRow(p, n) /\ p \in Ids
      BY <1>1, <1>3, <2>3
    <3> QED
      BY <1>1, <2>3, <3>1, ModelAdded
  <2>5. ASSUME s.alone PROVE Mirrors(next)'
    <3>1. Mirrors(s)
      BY <1>1, <2>5 DEF SyncInv
    <3>2. \A m \in s.off : m.row \in DOMAIN models
      BY <1>1 DEF SyncInv
    <3>3. \A m \in s.off : m.read = models'[m.row] /\ m.read.active
      BY <2>4, <3>1, <3>2 DEF Mirrors
    <3>4. ASSUME NEW j \in DOMAIN models', models'[j].of = p, models'[j].active
          PROVE  models'[j].name \in s.found \/ \E m \in s.off : m.row = j
      <4>1. CASE j \in DOMAIN models
        <5>1. models'[j] = models[j] /\ j \in ModelsOf(s.of)
          BY <2>3, <2>4, <3>4, <4>1 DEF ModelsOf
        <5> QED
          BY <3>1, <3>4, <5>1 DEF Mirrors
      <4>2. CASE j \notin DOMAIN models
        BY <1>1, <2>4, <4>2
      <4> QED
        BY <4>1, <4>2
    <3>5. ASSUME NEW k \in s.found
          PROVE  \/ k \in s.add \ {n}
                 \/ \E j \in DOMAIN models' : /\ models'[j].of = p
                                              /\ models'[j].name = k
      <4>1. CASE k = n
        BY <2>4, <4>1
      <4>2. CASE k # n /\ k \notin s.add
        <5>1. PICK j \in DOMAIN models : models[j].of = p /\ models[j].name = k
          BY <2>3, <3>1, <4>2 DEF Mirrors, ModelsOf
        <5> QED
          BY <2>4, <5>1
      <4> QED
        BY <4>1, <4>2
    <3> QED
      BY <2>2, <2>3, <3>3, <3>4, <3>5 DEF Mirrors, ModelsOf
  <2>6. SyncInv(next)'
    <3>1. \A m \in next.off : m.row \in DOMAIN models'
      BY <1>1, <2>2, <2>4 DEF SyncInv
    <3>2. next.add \subseteq next.found
      BY <1>1, <2>2 DEF SyncInv
    <3> QED
      BY <2>2, <2>5, <3>1, <3>2 DEF SyncInv
  <2>7. Proceed(s, next)
    BY <1>3, <2>1
  <2> QED
    BY <1>2, <2>2, <2>4, <2>6, <2>7, SyncProceeds
<1>4. CASE /\ Proceed(s, [s EXCEPT !.add = @ \ {n}, !.alone = FALSE])
           /\ UNCHANGED models
  <2>1. PICK next : next = [s EXCEPT !.add = s.add \ {n}, !.alone = FALSE]
    OBVIOUS
  <2>2. /\ next \in SyncRow /\ next.add = s.add \ {n} /\ next.off = s.off
        /\ next.found = s.found /\ next.alone = FALSE
    BY <1>1, <2>1 DEF SyncRow
  <2>3. SyncInv(next)'
    BY <1>1, <1>4, <2>2 DEF SyncInv
  <2>4. Proceed(s, next)
    BY <1>4, <2>1
  <2>5. models' \in Seq(ModelRow) /\ DOMAIN models \subseteq DOMAIN models'
    BY <1>4, ModelFacts
  <2> QED
    BY <1>2, <2>2, <2>3, <2>4, <2>5, SyncProceeds
<1> QED
  BY <1>3, <1>4 DEF Add

(* A model that the provider no longer has is written back as it was read, and
   not active. *)
LEMMA DeactivateKeeps ==
  ASSUME ProvidersInv, NEW s \in syncs, NEW m \in s.off, Deactivate(s, m)
  PROVE  ProvidersInv'
<1> USE DEF ProvidersInv
<1>1. /\ s \in SyncRow /\ SyncInv(s) /\ s.alone \in BOOLEAN /\ s.add = {}
      /\ m.row \in DOMAIN models /\ m.read \in ModelRow
      /\ \A o \in s.off : o \in [row : Nat, read : ModelRow]
  BY DEF ProvidersTypeOK, SyncsInv, SyncInv, SyncRow, Deactivate
<1>2. UNCHANGED <<providers, writers, phase, master, registered, starts, masters>>
  BY DEF Deactivate, service
<1>3. PICK i, row : i = m.row /\ row = [m.read EXCEPT !.active = FALSE]
  OBVIOUS
<1>4. /\ row \in ModelRow /\ row.active = FALSE /\ row.of = m.read.of
      /\ row.name = m.read.name /\ i \in DOMAIN models
  BY <1>1, <1>3 DEF ModelRow
<1>5. CASE UpdateModelRow(i, row) /\ Proceed(s, [s EXCEPT !.off = @ \ {m}])
  <2>1. PICK next : next = [s EXCEPT !.off = s.off \ {m}]
    OBVIOUS
  <2>2. /\ next \in SyncRow /\ next.add = s.add /\ next.off = s.off \ {m}
        /\ next.found = s.found /\ next.of = s.of /\ next.alone = s.alone
    BY <1>1, <2>1 DEF SyncRow
  <2>3. models' \in Seq(ModelRow) /\ DOMAIN models' = DOMAIN models
    <3>1. CASE models' = models
      BY <3>1, ModelFacts
    <3>2. CASE models' = [models EXCEPT ![i] = row]
      BY <1>4, <3>2, ModelReplaced
    <3> QED
      BY <1>5, <3>1, <3>2 DEF UpdateModelRow
  <2>4. ASSUME s.alone PROVE Mirrors(next)'
    <3>1. Mirrors(s) /\ m.read = models[i] /\ m.read.active
      BY <1>1, <1>3, <2>4 DEF SyncInv, Mirrors
    <3>2. models[i] # Gone
      BY <3>1, GoneIsRow
    <3>3. models' = [models EXCEPT ![i] = row]
      BY <1>5, <3>2 DEF UpdateModelRow
    <3>4. /\ models'[i] = row
          /\ \A j \in DOMAIN models : j # i => models'[j] = models[j]
      BY <1>4, <3>3, ModelReplaced
    <3>5. ASSUME NEW o \in s.off \ {m} PROVE o.read = models'[o.row] /\ o.read.active
      <4>1. o.read = models[o.row] /\ o.read.active /\ o.row \in DOMAIN models
        BY <1>1, <3>1 DEF Mirrors, SyncInv
      <4>2. o.row # i
        <5> SUFFICES ASSUME o.row = i PROVE FALSE
          OBVIOUS
        <5>1. o.read = m.read /\ o.row = m.row
          BY <1>3, <3>1, <4>1
        <5>2. /\ o = [row |-> o.row, read |-> o.read]
              /\ m = [row |-> m.row, read |-> m.read]
          BY <1>1
        <5> QED
          BY <5>1, <5>2
      <4> QED
        BY <3>4, <4>1, <4>2
    <3>6. ASSUME NEW j \in DOMAIN models', models'[j].of = s.of, models'[j].active
          PROVE  \/ models'[j].name \in s.found
                 \/ \E o \in s.off \ {m} : o.row = j
      <4>1. j # i
        BY <1>4, <3>4, <3>6
      <4>2. models'[j] = models[j] /\ j \in ModelsOf(s.of)
        BY <2>3, <3>4, <3>6, <4>1 DEF ModelsOf
      <4>3. models[j].name \in s.found \/ \E o \in s.off : o.row = j
        BY <3>1, <3>6, <4>2 DEF Mirrors
      <4> QED
        BY <1>3, <4>1, <4>2, <4>3
    <3>7. ASSUME NEW k \in s.found
          PROVE  \E j \in DOMAIN models' : /\ models'[j].of = s.of
                                           /\ models'[j].name = k
      <4>1. PICK j \in DOMAIN models : models[j].of = s.of /\ models[j].name = k
        BY <1>1, <3>1 DEF Mirrors, ModelsOf
      <4>2. models'[j].of = models[j].of /\ models'[j].name = models[j].name
        BY <1>4, <3>1, <3>4
      <4> QED
        BY <2>3, <4>1, <4>2
    <3> QED
      BY <2>2, <3>5, <3>6, <3>7 DEF Mirrors, ModelsOf
  <2>5. SyncInv(next)'
    <3>1. \A o \in next.off : o.row \in DOMAIN models'
      BY <1>1, <2>2, <2>3 DEF SyncInv
    <3>2. next.add \subseteq next.found
      BY <1>1, <2>2 DEF SyncInv
    <3> QED
      BY <2>2, <2>4, <3>1, <3>2 DEF SyncInv
  <2>6. Proceed(s, next)
    BY <1>5, <2>1
  <2> QED
    BY <1>2, <2>2, <2>3, <2>5, <2>6, SyncProceeds
<1>6. CASE /\ Proceed(s, [s EXCEPT !.off = @ \ {m}, !.alone = FALSE])
           /\ UNCHANGED models
  <2>1. PICK next : next = [s EXCEPT !.off = s.off \ {m}, !.alone = FALSE]
    OBVIOUS
  <2>2. /\ next \in SyncRow /\ next.add = s.add /\ next.off = s.off \ {m}
        /\ next.found = s.found /\ next.alone = FALSE
    BY <1>1, <2>1 DEF SyncRow
  <2>3. SyncInv(next)'
    BY <1>1, <1>6, <2>2 DEF SyncInv
  <2>4. Proceed(s, next)
    BY <1>6, <2>1
  <2>5. models' \in Seq(ModelRow) /\ DOMAIN models \subseteq DOMAIN models'
    BY <1>6, ModelFacts
  <2> QED
    BY <1>2, <2>2, <2>3, <2>4, <2>5, SyncProceeds
<1> QED
  BY <1>3, <1>5, <1>6 DEF Deactivate

-----------------------------------------------------------------------------
(* Starts. *)

LEMMA StopKeeps ==
  ASSUME ProvidersInv, Stop
  PROVE  ProvidersInv'
<1> USE DEF ProvidersInv
<1>1. /\ phase' = "down" /\ registered' = <<>>
      /\ writers' = {} /\ syncs' = {}
      /\ UNCHANGED <<providers, models, master, masters>>
  BY DEF Stop, tables
<1>2. ProvidersTypeOK'
  BY <1>1 DEF ProvidersTypeOK
<1>3. KeysInv'
  <2>1. DOMAIN registered' = {}
    BY <1>1
  <2> QED
    BY <1>1, <2>1 DEF KeysInv, Once
<1>4. WritersInv' /\ SyncsInv'
  BY <1>1 DEF WritersInv, SyncsInv
<1> QED
  BY <1>2, <1>3, <1>4

(* A start encrypts what it finds in plain text. *)
LEMMA MigrateKeysKeeps ==
  ASSUME ProvidersInv, NEW m \in Masters, MigrateKeys(m)
  PROVE  ProvidersInv'
<1> USE DEF ProvidersInv
<1>1. /\ phase' = "migrated" /\ master' = m /\ masters' = masters \union {m}
      /\ UNCHANGED <<models, writers, syncs, registered>>
  BY DEF MigrateKeys
<1>2. PICK done :
        providers' = [p \in DOMAIN providers |->
                        IF p \in done THEN Migrated(providers[p], m)
                                      ELSE providers[p]]
  BY DEF MigrateKeys
<1>3. DOMAIN providers' = DOMAIN providers
  BY <1>2
<1>4. \A p \in DOMAIN providers :
        /\ providers[p] \in ProviderRow
        /\ providers'[p] \in {providers[p], Migrated(providers[p], m)}
  BY <1>2 DEF ProvidersTypeOK
<1>5. providers' \in [DOMAIN providers' -> ProviderRow]
  BY <1>2, <1>3, <1>4, MigratedFacts
<1>6. ProvidersTypeOK'
  <2>1. IsFiniteSet(masters')
    BY <1>1, FS_AddElement DEF ProvidersTypeOK
  <2> QED
    BY <1>1, <1>3, <1>5, <2>1 DEF ProvidersTypeOK
<1>7. KeysInv'
  <2>1. ASSUME NEW o \in Masters, masters' \subseteq {o}, NEW p \in DOMAIN providers
        PROVE  providers'[p].key.under \in {<<>>, <<o>>}
    <3>1. o = m /\ masters \subseteq {m}
      BY <1>1, <2>1
    <3>2. providers[p].key.under \in {<<>>, <<m>>}
      BY <3>1 DEF KeysInv, Once
    <3>3. Migrated(providers[p], m).key.under \in {<<>>, <<m>>}
      BY <1>4, <3>2, MigratedFacts
    <3> QED
      BY <1>4, <3>1, <3>2, <3>3
  <2>2. \A p \in DOMAIN providers' : Once(providers[p].key)'
    BY <1>3, <2>1 DEF Once
  <2>3. \A o \in Masters : masters' \subseteq {o} =>
          \A p \in DOMAIN registered : registered[p].key.under = <<>>
    BY <1>1 DEF KeysInv
  <2> QED
    BY <1>1, <2>2, <2>3 DEF KeysInv
<1>8. WritersInv'
  BY <1>1, WritersKept
<1>9. SyncsInv'
  BY <1>1, SyncsKept
<1> QED
  BY <1>6, <1>7, <1>8, <1>9

(* What is registered has been decrypted. *)
LEMMA LoadAllKeeps ==
  ASSUME ProvidersInv, LoadAll
  PROVE  ProvidersInv'
<1> USE DEF ProvidersInv
<1>1. /\ phase = "migrated" /\ phase' = "up"
      /\ UNCHANGED <<providers, models, writers, syncs, master, starts, masters>>
  BY DEF LoadAll, tables
<1>2. master \in masters /\ master \in Masters
  BY <1>1 DEF ProvidersTypeOK
<1>3. ProvidersTypeOK'
  BY <1>1 DEF ProvidersTypeOK
<1>4. KeysInv'
  <2>1. \A p \in DOMAIN providers' : Once(providers[p].key)'
    BY <1>1 DEF KeysInv, Once
  <2>2. ASSUME NEW o \in Masters, masters \subseteq {o},
               NEW p \in DOMAIN registered'
        PROVE  registered'[p].key.under = <<>>
    <3>1. o = master
      BY <1>2, <2>2
    <3>2. CASE registered' = <<>>
      BY <3>2
    <3>3. CASE registered' # <<>>
      <4>1. PICK local \in SUBSET Names :
              LET loaded == {q \in ListAllActiveProviders :
                               CreatesClient(q) /\ filterOllamaModels(q, local) # {}}
              IN  registered' = [q \in loaded |->
                    [key |-> ClientKey(q), models |-> filterOllamaModels(q, local)]]
        BY <3>3 DEF LoadAll
      <4>2. /\ CreatesClient(p) /\ p \in DOMAIN providers
            /\ registered'[p].key = ClientKey(p)
        BY <4>1 DEF ListAllActiveProviders
      <4>3. /\ providers[p].key.under \in {<<>>, <<master>>}
            /\ providers[p].key \in KeyRow
        BY <2>2, <3>1, <4>2 DEF KeysInv, Once, ProvidersTypeOK, ProviderRow
      <4> QED
        BY <4>2, <4>3, ClientKeyFacts
    <3> QED
      BY <3>2, <3>3
  <2> QED
    BY <1>1, <2>1, <2>2 DEF KeysInv
<1>5. WritersInv'
  BY <1>1, WritersKept
<1>6. SyncsInv'
  BY <1>1, SyncsKept
<1> QED
  BY <1>3, <1>4, <1>5, <1>6

-----------------------------------------------------------------------------
(* The specification. *)

LEMMA InitProviders ==
  ASSUME ProvidersInit
  PROVE  ProvidersInv
<1>1. PICK p \in Ids, k \in Keys, n \in Names :
        /\ providers = [q \in {p} |-> [key |-> Plain(k), active |-> TRUE]]
        /\ models = <<[of |-> p, name |-> n, active |-> TRUE, web |-> FALSE]>>
  BY DEF ProvidersInit
<1>2. /\ writers = {} /\ syncs = {} /\ phase = "down" /\ master \in Masters
      /\ registered = <<>> /\ masters = {}
  BY DEF ProvidersInit
<1>3. PICK row : row = [of |-> p, name |-> n, active |-> TRUE, web |-> FALSE]
  OBVIOUS
<1>4. row \in ModelRow /\ models = <<row>>
  BY <1>1, <1>3 DEF ModelRow
<1>5. models \in Seq(ModelRow)
  BY <1>4, OneAppended
<1>6. Plain(k) \in KeyRow /\ Plain(k).under = <<>>
  <2>1. <<>> \in Seq(Masters)
    OBVIOUS
  <2> QED
    BY <2>1 DEF Plain, KeyRow
<1>7. /\ DOMAIN providers = {p} /\ providers[p].key = Plain(k)
      /\ providers \in [DOMAIN providers -> ProviderRow]
  BY <1>1, <1>6 DEF ProviderRow
<1>8. ProvidersTypeOK
  BY <1>2, <1>5, <1>7, FS_EmptySet DEF ProvidersTypeOK
<1>9. KeysInv
  <2>1. DOMAIN registered = {}
    BY <1>2
  <2> QED
    BY <1>6, <1>7, <2>1 DEF KeysInv, Once
<1>10. WritersInv /\ SyncsInv
  BY <1>2 DEF WritersInv, SyncsInv
<1> QED
  BY <1>8, <1>9, <1>10 DEF ProvidersInv

(* The steps there are, by what they may do to the tables. *)
ReadStep ==
  \/ \E p \in Ids, k \in Keys \union {""}, active \in BOOLEAN :
       HandleUpdateProvider(p, k, active)
  \/ \E i \in DOMAIN models : \E active \in BOOLEAN, web \in {"yes", "no", "same"} :
       HandleUpdateModel(i, active, web)
  \/ \E w \in writers : WriteFails(w)
  \/ \E p \in Ids, found \in SUBSET Names : SyncModels(p, found)
  \/ \E s \in syncs : EndSync(s)
  \/ Stop \/ LoadAll
WriteStep ==
  \/ \E p \in Ids, k \in Keys \union {""} : HandleCreateProvider(p, k)
  \/ \E p \in Ids : HandleDeleteProvider(p)
  \/ \E p \in Ids, n \in Names, web \in BOOLEAN : HandleCreateModel(p, n, web)
  \/ \E i \in DOMAIN models : HandleDeleteModel(i)
  \/ \E w \in writers : Write(w)
  \/ \E s \in syncs : \E n \in s.add : Add(s, n)
  \/ \E s \in syncs : \E m \in s.off : Deactivate(s, m)
  \/ \E m \in Masters : MigrateKeys(m)

(* Every step reads the tables or writes them. *)
LEMMA StepKinds ==
  ASSUME ProvidersNext
  PROVE  ReadStep \/ WriteStep
<1>1. CASE AdminStep
  BY <1>1 DEF AdminStep, ReadStep, WriteStep
<1>2. CASE SyncStep
  BY <1>2 DEF SyncStep, ReadStep, WriteStep
<1>3. CASE StartStep
  BY <1>3 DEF StartStep, ReadStep, WriteStep
<1> QED
  BY <1>1, <1>2, <1>3 DEF ProvidersNext

(* Every step keeps the invariant. *)
LEMMA NextProviders ==
  ASSUME ProvidersInv, [ProvidersNext]_providersVars
  PROVE  ProvidersInv'
<1>1. CASE ReadStep
  <2>1. ASSUME NEW w \in writers, WriteFails(w) PROVE ProvidersInv'
    BY <2>1, TablesAside DEF WriteFails, tables, service
  <2>2. ASSUME NEW s \in syncs, EndSync(s) PROVE ProvidersInv'
    BY <2>2, TablesAside DEF EndSync, tables, service
  <2> QED
    BY <1>1, <2>1, <2>2, HandleUpdateProviderKeeps, HandleUpdateModelKeeps,
       SyncModelsKeeps, StopKeeps, LoadAllKeeps DEF ReadStep
<1>2. CASE WriteStep
  <2>1. ASSUME NEW w \in writers, Write(w) PROVE ProvidersInv'
    BY <2>1, WriteProviderKeeps, WriteModelKeeps DEF Write
  <2> QED
    BY <1>2, <2>1, HandleCreateProviderKeeps, HandleDeleteProviderKeeps,
       HandleCreateModelKeeps, HandleDeleteModelKeeps, AddKeeps, DeactivateKeeps,
       MigrateKeysKeeps DEF WriteStep
<1>3. CASE UNCHANGED providersVars
  BY <1>3, TablesAside DEF providersVars
<1> QED
  BY <1>1, <1>2, <1>3, StepKinds

(* In every behaviour keys are encrypted once under a master key that does not
   change, and a synchronisation that is alone has its work on its lists. *)
THEOREM ProvidersInvariant == ProvidersSpec => []ProvidersInv
<1>1. ProvidersInit => ProvidersInv
  BY InitProviders
<1>2. ProvidersInv /\ [ProvidersNext]_providersVars => ProvidersInv'
  BY NextProviders
<1> QED
  BY <1>1, <1>2, PTL DEF ProvidersSpec

(* A synchronisation that nothing disturbed leaves the table with the models
   the provider has. *)
THEOREM ProvidersSync == ProvidersSpec => []SyncMirrorsProvider
<1>1. ProvidersInv => SyncMirrorsProvider
  <2> SUFFICES ASSUME ProvidersInv, NEW s \in syncs,
                      s.alone, s.add = {}, s.off = {}
               PROVE  /\ {models[i].name : i \in ListAllModelsByProvider(s.of)}
                           \subseteq s.found
                      /\ s.found \subseteq {models[i].name : i \in ModelsOf(s.of)}
    BY DEF SyncMirrorsProvider
  <2>1. Mirrors(s)
    BY DEF ProvidersInv, SyncsInv, SyncInv
  <2> QED
    BY <2>1 DEF Mirrors, ListAllModelsByProvider
<1> QED
  BY <1>1, ProvidersInvariant, PTL

-----------------------------------------------------------------------------
(* Columns. *)

ProvidersStay ==
  \A p \in DOMAIN providers :
    \/ phase' = "migrated"
    \/ Leaves(providers, providers', p, "provider", {"key", "active"})
ModelsStay ==
  \A i \in DOMAIN models :
    \/ models'[i] = Gone
    \/ Leaves(models, models', i, "model", {"active", "web"})
    \/ \E s \in syncs \ syncs' : \E m \in s.off :
         /\ m.row = i /\ ~ models'[i].active
         /\ models'[i].web = models[i].web \/ m.read # models[i]

(* Rows that are as they were. *)
LEMMA TablesStay ==
  /\ (\A p \in DOMAIN providers \intersect DOMAIN providers' :
        providers'[p] = providers[p]) => ProvidersStay
  /\ (\A i \in DOMAIN models : models'[i] \in {Gone, models[i]}) => ModelsStay
<1>1. ASSUME \A p \in DOMAIN providers \intersect DOMAIN providers' :
               providers'[p] = providers[p]
      PROVE  ProvidersStay
  BY <1>1 DEF ProvidersStay, Leaves
<1>2. ASSUME \A i \in DOMAIN models : models'[i] \in {Gone, models[i]}
      PROVE  ModelsStay
  BY <1>2 DEF ModelsStay, Leaves
<1> QED
  BY <1>1, <1>2

(* A request writes what it sets, and else what it has read. *)
LEMMA WriteStays ==
  ASSUME ProvidersInv, NEW w \in writers, Write(w)
  PROVE  ProvidersStay /\ ModelsStay
<1>1. w \in writers \ writers'
  BY DEF Write
<1>2. WriterInv(w)
  BY DEF ProvidersInv, WritersInv
<1>3. CASE UpdateProvider(w)
  <2>1. /\ w.kind = "provider" /\ UNCHANGED models
        /\ UpdateProviderRow(w.row, w.put)
    BY <1>3 DEF UpdateProvider
  <2>2. ModelsStay
    BY <2>1, TablesStay
  <2>3. \A k \in {"key", "active"} : k \in w.sets \/ w.put[k] = w.read[k]
    BY <1>2, <2>1 DEF WriterInv
  <2>4. \A p \in DOMAIN providers : p # w.row => providers'[p] = providers[p]
    BY <2>1 DEF UpdateProviderRow
  <2>5. w.row \in DOMAIN providers => providers'[w.row] = w.put
    BY <2>1 DEF UpdateProviderRow, GetProvider
  <2>6. ProvidersStay
    BY <1>1, <2>1, <2>3, <2>4, <2>5 DEF ProvidersStay, Leaves
  <2> QED
    BY <2>2, <2>6
<1>4. CASE UpdateModel(w)
  <2>1. /\ w.kind = "model" /\ UNCHANGED providers
        /\ UpdateModelRow(w.row, w.put)
    BY <1>4 DEF UpdateModel
  <2>2. ProvidersStay
    BY <2>1, TablesStay
  <2>3. \A k \in {"active", "web"} : k \in w.sets \/ w.put[k] = w.read[k]
    BY <1>2, <2>1 DEF WriterInv
  <2>4. CASE models' = models
    BY <2>2, <2>4, TablesStay
  <2>5. CASE models' = [models EXCEPT ![w.row] = w.put]
    <3>1. /\ \A i \in DOMAIN models : i # w.row => models'[i] = models[i]
          /\ w.row \in DOMAIN models => models'[w.row] = w.put
      BY <2>5
    <3>2. ModelsStay
      BY <1>1, <2>1, <2>3, <3>1 DEF ModelsStay, Leaves
    <3> QED
      BY <2>2, <3>2
  <2> QED
    BY <2>1, <2>4, <2>5 DEF UpdateModelRow
<1> QED
  BY <1>3, <1>4 DEF Write

(* A synchronisation writes a row as it has read it, and not active.  Another
   may be as it was before, but for what has been disturbed; then that other is
   the one that is no longer under way. *)
LEMMA DeactivateStays ==
  ASSUME ProvidersInv, NEW s \in syncs, NEW m \in s.off, Deactivate(s, m)
  PROVE  ProvidersStay /\ ModelsStay
<1>1. UNCHANGED providers
  BY DEF Deactivate
<1>2. ProvidersStay
  BY <1>1, TablesStay
<1>3. CASE models' = models
  BY <1>2, <1>3, TablesStay
<1>4. CASE models' # models
  <2>1. /\ s \in SyncRow /\ m.row \in DOMAIN models /\ m.read \in ModelRow
        /\ \A o \in syncs : o \in SyncRow
    BY DEF ProvidersInv, ProvidersTypeOK, SyncsInv, SyncInv, SyncRow
  <2>2. PICK i, row : i = m.row /\ row = [m.read EXCEPT !.active = FALSE]
    OBVIOUS
  <2>3. /\ models' = [models EXCEPT ![i] = row]
        /\ Proceed(s, [s EXCEPT !.off = @ \ {m}])
    BY <1>4, <2>2 DEF Deactivate, UpdateModelRow
  <2>4. row.active = FALSE /\ row.web = m.read.web
    BY <2>1, <2>2 DEF ModelRow
  <2>5. PICK next : next = [s EXCEPT !.off = s.off \ {m}]
    OBVIOUS
  <2>6. next.off = s.off \ {m} /\ next.alone = s.alone
    BY <2>1, <2>5 DEF SyncRow
  <2>7. syncs' = {[o EXCEPT !.alone = FALSE] : o \in syncs \ {s}} \union {next}
    BY <2>3, <2>5 DEF Proceed
  <2>8. \E t \in syncs \ syncs' : m \in t.off
    <3>1. CASE s \notin syncs'
      BY <3>1
    <3>2. CASE s \in syncs'
      <4>1. s # next
        BY <2>6
      <4>2. PICK o \in syncs \ {s} : s = [o EXCEPT !.alone = FALSE]
        BY <2>7, <3>2, <4>1
      <4>3. o \in SyncRow /\ s.alone = FALSE /\ s.off = o.off
        BY <2>1, <4>2 DEF SyncRow
      <4>4. o.alone = TRUE
        <5> SUFFICES ASSUME o.alone = FALSE PROVE FALSE
          BY <4>3 DEF SyncRow
        <5>1. o = [o EXCEPT !.alone = FALSE]
          BY <4>3 DEF SyncRow
        <5> QED
          BY <4>2, <5>1
      <4>5. ASSUME NEW t \in syncs' PROVE t.alone = FALSE
        <5>1. CASE t = next
          BY <2>6, <4>3, <5>1, Zenon
        <5>2. CASE t # next
          <6>1. PICK v \in syncs : t = [v EXCEPT !.alone = FALSE]
            BY <2>7, <5>2
          <6>2. v \in SyncRow
            BY <2>1
          <6> QED
            BY <6>1, <6>2 DEF SyncRow
        <5> QED
          BY <5>1, <5>2
      <4>6. o \notin syncs'
        BY <4>4, <4>5
      <4> QED
        BY <4>2, <4>3, <4>6
    <3> QED
      BY <3>1, <3>2
  <2>9. /\ models'[i] = row
        /\ \A j \in DOMAIN models : j # i => models'[j] = models[j]
    BY <2>1, <2>2, <2>3
  <2>10. ASSUME NEW j \in DOMAIN models
         PROVE  \/ Leaves(models, models', j, "model", {"active", "web"})
                \/ \E t \in syncs \ syncs' : \E o \in t.off :
                     /\ o.row = j /\ ~ models'[j].active
                     /\ models'[j].web = models[j].web \/ o.read # models[j]
    <3>1. CASE j = i
      <4>1. models'[j].active = FALSE /\ models'[j].web = m.read.web
        BY <2>4, <2>9, <3>1
      <4> QED
        BY <2>2, <2>8, <3>1, <4>1
    <3>2. CASE j # i
      BY <2>9, <3>2 DEF Leaves
    <3> QED
      BY <3>1, <3>2
  <2>11. ModelsStay
    BY <2>10 DEF ModelsStay
  <2> QED
    BY <1>2, <2>11
<1> QED
  BY <1>3, <1>4

(* The other steps add rows, delete rows, or are a start. *)
LEMMA ColumnsStay ==
  ASSUME ProvidersInv, ProvidersNext
  PROVE  ProvidersStay /\ ModelsStay
<1>1. CASE ReadStep
  <2>1. UNCHANGED <<providers, models>>
    BY <1>1 DEF ReadStep, HandleUpdateProvider, HandleUpdateModel, WriteFails,
       SyncModels, EndSync, Stop, LoadAll, tables
  <2> QED
    BY <2>1, TablesStay
<1>2. CASE WriteStep
  <2>1. ASSUME NEW p \in Ids, NEW k \in Keys \union {""},
               HandleCreateProvider(p, k)
        PROVE  ProvidersStay /\ ModelsStay
    <3>1. /\ UNCHANGED models
          /\ \A q \in DOMAIN providers : providers'[q] = providers[q]
      BY <2>1 DEF HandleCreateProvider, CreateProvider, CreateProviderRow, Put
    <3> QED
      BY <3>1, TablesStay
  <2>2. ASSUME NEW p \in Ids, HandleDeleteProvider(p)
        PROVE  ProvidersStay /\ ModelsStay
    <3>1. DeleteProviderRow(p)
      BY <2>2 DEF HandleDeleteProvider, DeleteProvider
    <3>2. /\ \A i \in DOMAIN models : models'[i] \in {Gone, models[i]}
          /\ \A q \in DOMAIN providers' : providers'[q] = providers[q]
      BY <3>1, ProviderDeleted DEF ProvidersInv
    <3> QED
      BY <3>2, TablesStay
  <2>3. ASSUME NEW p \in Ids, NEW n \in Names, CreateModelRow(p, n),
               UNCHANGED providers
        PROVE  ProvidersStay /\ ModelsStay
    <3>1. \A i \in DOMAIN models : models'[i] = models[i]
      BY <2>3, ModelAdded DEF ProvidersInv
    <3> QED
      BY <2>3, <3>1, TablesStay
  <2>4. ASSUME NEW i \in DOMAIN models, HandleDeleteModel(i)
        PROVE  ProvidersStay /\ ModelsStay
    <3>1. UNCHANGED providers /\ models' = [models EXCEPT ![i] = Gone]
      BY <2>4 DEF HandleDeleteModel, DeleteModelRow
    <3>2. \A j \in DOMAIN models : models'[j] \in {Gone, models[j]}
      BY <3>1
    <3> QED
      BY <3>1, <3>2, TablesStay
  <2>5. ASSUME NEW s \in syncs, NEW n \in s.add, Add(s, n)
        PROVE  ProvidersStay /\ ModelsStay
    <3>1. /\ UNCHANGED providers
          /\ CreateModelRow(s.of, n) \/ UNCHANGED models
      BY <2>5 DEF Add
    <3>2. s.of \in Ids /\ n \in Names
      BY DEF ProvidersInv, ProvidersTypeOK, SyncRow
    <3>3. CASE CreateModelRow(s.of, n)
      <4>1. PICK p : p = s.of
        OBVIOUS
      <4> QED
        BY <2>3, <3>1, <3>2, <3>3, <4>1
    <3>4. CASE UNCHANGED models
      BY <3>1, <3>4, TablesStay
    <3> QED
      BY <3>1, <3>3, <3>4
  <2>6. ASSUME NEW m \in Masters, MigrateKeys(m)
        PROVE  ProvidersStay /\ ModelsStay
    <3>1. phase' = "migrated" /\ UNCHANGED models
      BY <2>6 DEF MigrateKeys
    <3>2. ProvidersStay
      BY <3>1 DEF ProvidersStay
    <3> QED
      BY <3>1, <3>2, TablesStay
  <2>7. ASSUME NEW p \in Ids, NEW n \in Names, NEW web \in BOOLEAN,
               HandleCreateModel(p, n, web)
        PROVE  ProvidersStay /\ ModelsStay
    BY <2>3, <2>7 DEF HandleCreateModel, CreateModel
  <2> QED
    BY <1>2, <2>1, <2>2, <2>4, <2>5, <2>6, <2>7, WriteStays, DeactivateStays
       DEF WriteStep
<1> QED
  BY <1>1, <1>2, StepKinds

(* With one master key only, a key is under it once at most, and a client has
   it in plain text. *)
LEMMA KeysOnce ==
  ASSUME ProvidersInv
  PROVE  KeysAreEncryptedOnce
<1> SUFFICES ASSUME Cardinality(masters) <= 1
             PROVE  /\ \A p \in DOMAIN providers :
                         Len(providers[p].key.under) <= 1
                    /\ \A p \in DOMAIN registered :
                         registered[p].key.under = <<>>
  BY DEF KeysAreEncryptedOnce
<1>1. PICK m \in Masters : masters \subseteq {m}
  <2>1. IsFiniteSet(masters) /\ masters \subseteq Masters /\ master \in Masters
    BY DEF ProvidersInv, ProvidersTypeOK
  <2>2. Cardinality(masters) = 0 \/ Cardinality(masters) = 1
    BY <2>1, FS_CardinalityType
  <2>3. masters = {} \/ \E x : masters = {x}
    BY <2>1, <2>2, FS_EmptySet, FS_Singleton
  <2> QED
    BY <2>1, <2>3
<1>2. \A p \in DOMAIN providers : providers[p].key.under \in {<<>>, <<m>>}
  BY <1>1 DEF ProvidersInv, KeysInv, Once
<1>3. Len(<<>>) <= 1 /\ Len(<<m>>) <= 1
  OBVIOUS
<1>4. \A p \in DOMAIN registered : registered[p].key.under = <<>>
  BY <1>1 DEF ProvidersInv, KeysInv
<1> QED
  BY <1>2, <1>3, <1>4

(* A step changes the columns that a request sets, a flag that a
   synchronisation takes away, or keys when the service starts; but for rows
   that were out of date when they were written. *)
THEOREM ProvidersColumns == ProvidersSpec => ColumnsSurvive
<1>1. ProvidersInv /\ [ProvidersNext]_providersVars =>
        [ProvidersStay /\ ModelsStay]_providersVars
  BY ColumnsStay
<1>2. ProvidersInv => KeysAreEncryptedOnce
  BY KeysOnce
<1> QED
  BY <1>1, <1>2, ProvidersInvariant, PTL
     DEF ProvidersSpec, ColumnsSurvive, ProvidersStay, ModelsStay

-----------------------------------------------------------------------------
(* The store of chats. *)

Piece == [of : Nat, live : BOOLEAN, pieces : Seq(Nat)]
Chat == [id : Int, known : BOOLEAN, messages : SUBSET Piece]
StreamRow == [at : {"asked", "open", "over"}, pieces : Nat, finished : BOOLEAN,
           chat : Int]

StoreTypeOK ==
  /\ chats \subseteq Chat /\ currentChat \in Chat
  /\ isStreaming \in BOOLEAN
  /\ streams \in Seq(StreamRow)
  /\ conversations \in Seq({"active", "deleted"})
  /\ crossed \subseteq DOMAIN streams
  /\ \A r \in replies : r.id \in Int /\ (r.for = "select" => r.chat \in Chat)
  /\ \A s \in DOMAIN streams : streams[s].finished => streams[s].at = "over"

(* An answer that nothing has crossed is its own as far as it came, and has a
   final id once it is over. *)
OwnAnswer(m) ==
  /\ \A i \in DOMAIN m.pieces : m.pieces[i] = m.of
  /\ Len(m.pieces) = streams[m.of].pieces
  /\ m.live <=> Open(m.of)
MessageInv(m) == m.of \in DOMAIN streams /\ (m.of \in crossed \/ OwnAnswer(m))
(* Where a message may be: in the list, in the chat shown, and in what a chat
   was when it was selected, where no answer is on its way. *)
MessagesInv ==
  /\ \A chat \in chats \union {currentChat} : \A m \in chat.messages : MessageInv(m)
  /\ \A r \in replies : r.for = "select" =>
       \A m \in r.chat.messages :
         MessageInv(m) /\ (Open(m.of) => m.of \in crossed)

(* A stream that nothing has crossed is the last, it answers in the chat shown,
   and the input is off. *)
OnItsWay(s) == s \in DOMAIN streams /\ Open(s) /\ s \notin crossed
StreamInv ==
  \A s \in DOMAIN streams : OnItsWay(s) =>
    /\ s = Len(streams) /\ isStreaming /\ currentChat.known
    /\ \A chat \in chats : \A m \in chat.messages :
         m.of = s => chat.id = currentChat.id
InputInv ==
  isStreaming => /\ Len(streams) > 0
                 /\ Open(Len(streams)) \/ Len(streams) \in crossed

StoreInv == StoreTypeOK /\ MessagesInv /\ StreamInv /\ InputInv

(* What the type says of the streams. *)
LEMMA StreamFacts ==
  ASSUME StoreTypeOK
  PROVE  /\ streams \in Seq(StreamRow) /\ Len(streams) \in Nat
         /\ DOMAIN streams = 1..Len(streams)
         /\ \A s \in DOMAIN streams : streams[s] \in StreamRow /\ s \in Nat
         /\ Len(conversations) \in Nat
<1>1. streams \in Seq(StreamRow)
  BY DEF StoreTypeOK
<1>2. /\ Len(streams) \in Nat /\ DOMAIN streams = 1..Len(streams)
      /\ \A s \in 1..Len(streams) : streams[s] \in StreamRow
  BY <1>1, LenProperties, ElementOfSeq
<1>3. Len(conversations) \in Nat
  <2>1. conversations \in Seq({"active", "deleted"})
    BY DEF StoreTypeOK
  <2> QED
    BY <2>1, LenProperties
<1> QED
  BY <1>1, <1>2, <1>3

(* A stream changes. *)
LEMMA StreamChanged ==
  ASSUME StoreTypeOK, NEW s \in DOMAIN streams, NEW row \in StreamRow,
         streams' = [streams EXCEPT ![s] = row]
  PROVE  /\ streams' \in Seq(StreamRow) /\ Len(streams') = Len(streams)
         /\ DOMAIN streams' = DOMAIN streams /\ streams'[s] = row
         /\ \A t \in DOMAIN streams : t # s => streams'[t] = streams[t]
<1>1. /\ streams' \in Seq(StreamRow) /\ Len(streams') = Len(streams)
      /\ \A t \in 1..Len(streams) :
           streams'[t] = IF t = s THEN row ELSE streams[t]
  BY StreamFacts, ExceptSeq
<1>2. DOMAIN streams' = DOMAIN streams
  OBVIOUS
<1> QED
  BY <1>1, <1>2, StreamFacts

(* The list keeps no other chat with the id of the one that is put into it. *)
LEMMA ReplacedFacts ==
  ASSUME NEW list, NEW chat
  PROVE  /\ \A c \in Replaced(list, chat) : c = chat \/ (c \in list /\ c.id # chat.id)
         /\ \A c \in Listed(list, chat) : c = chat \/ (c \in list /\ c.id # chat.id)
BY DEF Replaced, Listed

(* Whatever changes the chat shown, or whether the input is off, crosses every
   other stream that is open. *)
LEMMA CrossFacts ==
  ASSUME StoreTypeOK, NEW s, Crosses(s)
  PROVE  /\ crossed \subseteq crossed' /\ crossed' \subseteq DOMAIN streams
         /\ currentChat' # currentChat \/ isStreaming' # isStreaming =>
              \A t \in DOMAIN streams : t # s /\ Open(t) => t \in crossed'
BY DEF Crosses, StoreTypeOK

(* What is said of an answer depends on its own stream only. *)
LEMMA MessageKept ==
  ASSUME NEW m, MessageInv(m), crossed \subseteq crossed',
         m.of \in DOMAIN streams',
         \/ m.of \in crossed'
         \/ /\ streams'[m.of].pieces = streams[m.of].pieces
            /\ Open(m.of)' <=> Open(m.of)
  PROVE  MessageInv(m)'
BY DEF MessageInv, OwnAnswer

(* A step of a stream.  It changes the messages of the chat shown, in the list
   as well; if nothing has crossed the stream, its answer is nowhere else. *)
LEMMA StreamMoves ==
  ASSUME StoreInv, NEW s \in DOMAIN streams, NEW row \in StreamRow,
         streams' = [streams EXCEPT ![s] = row], Open(s), Crosses(s),
         row.finished => row.at = "over",
         currentChat' \in Chat, isStreaming' \in BOOLEAN,
         UNCHANGED conversations,
         \A r \in replies' : r \in replies \/ (r.for = "hydrate" /\ r.id \in Int),
         currentChat'.id = currentChat.id,
         \/ chats' = Replaced(chats, currentChat')
         \/ chats' = chats /\ s \in crossed,
         \A m \in currentChat'.messages : MessageInv(m)',
         isStreaming' => isStreaming,
         s \notin crossed /\ row.at # "over" => currentChat'.known /\ isStreaming',
         s \notin crossed /\ row.at = "over" => ~ isStreaming'
  PROVE  StoreInv'
<1> USE DEF StoreInv
<1>1. /\ streams' \in Seq(StreamRow) /\ Len(streams') = Len(streams)
      /\ DOMAIN streams' = DOMAIN streams /\ streams'[s] = row
      /\ \A t \in DOMAIN streams : t # s => streams'[t] = streams[t]
  BY StreamChanged
<1>2. /\ crossed \subseteq crossed' /\ crossed' \subseteq DOMAIN streams
      /\ currentChat' # currentChat \/ isStreaming' # isStreaming =>
           \A t \in DOMAIN streams : t # s /\ Open(t) => t \in crossed'
  BY CrossFacts
<1>3. \A c \in chats' : c = currentChat' \/ c \in chats
  BY ReplacedFacts
<1>4. StoreTypeOK'
  <2>1. chats' \subseteq Chat
    BY <1>3 DEF StoreTypeOK
  <2>2. \A r \in replies' : r.id \in Int /\ (r.for = "select" => r.chat \in Chat)
    BY DEF StoreTypeOK
  <2>3. \A t \in DOMAIN streams' : streams'[t].finished => streams'[t].at = "over"
    BY <1>1 DEF StoreTypeOK
  <2> QED
    BY <1>1, <1>2, <2>1, <2>2, <2>3 DEF StoreTypeOK
<1>5. \A t \in DOMAIN streams : t # s => (Open(t)' <=> Open(t))
  BY <1>1 DEF Open
<1>6. ASSUME NEW m, MessageInv(m), m.of # s PROVE MessageInv(m)'
  BY <1>1, <1>2, <1>5, <1>6, MessageKept DEF MessageInv
<1>7. ASSUME NEW m, MessageInv(m), s \in crossed PROVE MessageInv(m)'
  BY <1>1, <1>2, <1>6, <1>7 DEF MessageInv
<1>8. MessagesInv'
  <2>1. ASSUME NEW c \in chats', NEW m \in c.messages PROVE MessageInv(m)'
    <3>1. CASE c = currentChat'
      BY <3>1
    <3>2. CASE c # currentChat'
      <4>1. c \in chats /\ MessageInv(m)
        BY <1>3, <2>1, <3>2 DEF MessagesInv
      <4>2. CASE m.of = s /\ s \notin crossed
        <5>1. c.id = currentChat'.id
          BY <4>1, <4>2 DEF StreamInv, OnItsWay
        <5>2. chats' = Replaced(chats, currentChat')
          BY <4>2
        <5> QED
          BY <3>2, <5>1, <5>2, ReplacedFacts
      <4> QED
        BY <1>6, <1>7, <4>1, <4>2
    <3> QED
      BY <3>1, <3>2
  <2>2. ASSUME NEW r \in replies', r.for = "select", NEW m \in r.chat.messages
        PROVE  MessageInv(m)' /\ (Open(m.of)' => m.of \in crossed')
    <3>1. r \in replies /\ MessageInv(m) /\ (Open(m.of) => m.of \in crossed)
      BY <2>2 DEF MessagesInv
    <3>2. m.of = s => s \in crossed
      BY <3>1
    <3>3. m.of \in DOMAIN streams
      BY <3>1 DEF MessageInv
    <3> QED
      BY <1>2, <1>5, <1>6, <1>7, <3>1, <3>2, <3>3
  <2> QED
    BY <2>1, <2>2 DEF MessagesInv
<1>9. StreamInv'
  <2> SUFFICES ASSUME NEW t \in DOMAIN streams, OnItsWay(t)'
               PROVE  /\ t = Len(streams') /\ isStreaming' /\ currentChat'.known
                      /\ \A c \in chats' : \A m \in c.messages :
                           m.of = t => c.id = currentChat'.id
    BY <1>1 DEF StreamInv
  <2>1. OnItsWay(t)
    BY <1>2, <1>5 DEF OnItsWay
  <2>2. /\ t = Len(streams) /\ isStreaming /\ currentChat.known
        /\ \A c \in chats : \A m \in c.messages : m.of = t => c.id = currentChat.id
    BY <2>1 DEF StreamInv
  <2>3. isStreaming' /\ currentChat'.known
    <3>1. CASE t = s
      BY <1>1, <2>1, <3>1 DEF OnItsWay, Open
    <3>2. CASE t # s
      <4>1. t \notin crossed' /\ Open(t)
        BY <1>5, <2>1, <3>2 DEF OnItsWay
      <4>2. currentChat' = currentChat /\ isStreaming' = isStreaming
        BY <1>2, <3>2, <4>1
      <4> QED
        BY <2>2, <4>2
    <3> QED
      BY <3>1, <3>2
  <2> QED
    BY <1>1, <1>3, <2>2, <2>3
<1>10. InputInv'
  <2> SUFFICES ASSUME isStreaming'
               PROVE  /\ Len(streams') > 0
                      /\ Open(Len(streams))' \/ Len(streams') \in crossed'
    BY DEF InputInv
  <2>1. PICK t : t = Len(streams)
    OBVIOUS
  <2>2. t > 0 /\ (Open(t) \/ t \in crossed)
    BY <2>1 DEF InputInv
  <2>3. t \in DOMAIN streams
    BY <2>1, <2>2, StreamFacts
  <2>4. Open(t)' \/ t \in crossed'
    <3>1. CASE t = s /\ s \notin crossed
      BY <1>1, <3>1 DEF Open
    <3>2. CASE ~ (t = s /\ s \notin crossed)
      BY <1>2, <1>5, <2>2, <2>3, <3>2
    <3> QED
      BY <3>1, <3>2
  <2> QED
    BY <1>1, <2>1, <2>2, <2>4
<1> QED
  BY <1>4, <1>8, <1>9, <1>10

(* What an answer of another stream, or of one that was crossed, is said to be
   does not depend on what a stream does. *)
LEMMA MessageAside ==
  ASSUME StoreInv, NEW s \in DOMAIN streams, NEW row \in StreamRow,
         streams' = [streams EXCEPT ![s] = row], Crosses(s),
         NEW m, MessageInv(m), m.of # s \/ s \in crossed
  PROVE  MessageInv(m)'
<1>1. /\ DOMAIN streams' = DOMAIN streams
      /\ \A t \in DOMAIN streams : t # s => streams'[t] = streams[t]
  BY StreamChanged DEF StoreInv
<1>2. crossed \subseteq crossed'
  BY CrossFacts DEF StoreInv
<1>3. m.of # s => (Open(m.of)' <=> Open(m.of))
  BY <1>1 DEF Open, MessageInv
<1> QED
  BY <1>1, <1>2, <1>3, MessageKept DEF MessageInv

(* What a chunk of s does to one answer. *)
Grown(m, s) == IF m.live THEN [m EXCEPT !.pieces = Append(@, s)] ELSE m

(* It only adds a piece, and only to a live answer. *)
LEMMA GrownFacts ==
  ASSUME NEW m \in Piece, NEW s \in Nat
  PROVE  /\ Grown(m, s) \in Piece /\ Grown(m, s).of = m.of
         /\ Grown(m, s).live = m.live
         /\ ~ m.live => Grown(m, s) = m
         /\ m.live => /\ Len(Grown(m, s).pieces) = Len(m.pieces) + 1
                      /\ Grown(m, s).pieces[Len(m.pieces) + 1] = s
                      /\ \A i \in DOMAIN Grown(m, s).pieces :
                           \/ i = Len(m.pieces) + 1
                           \/ /\ i \in DOMAIN m.pieces
                              /\ Grown(m, s).pieces[i] = m.pieces[i]
                      /\ Len(m.pieces) + 1 \in DOMAIN Grown(m, s).pieces
<1>1. m.pieces \in Seq(Nat) /\ m.of \in Nat /\ m.live \in BOOLEAN
  BY DEF Piece
<1>2. PICK p \in Seq(Nat) : p = Append(m.pieces, s)
  BY <1>1, AppendProperties
<1>3. /\ Len(p) = Len(m.pieces) + 1 /\ Len(m.pieces) \in Nat
      /\ \A i \in 1..Len(m.pieces) : p[i] = m.pieces[i]
      /\ p[Len(m.pieces) + 1] = s
      /\ DOMAIN p = 1..Len(p) /\ DOMAIN m.pieces = 1..Len(m.pieces)
  BY <1>1, <1>2, AppendProperties, LenProperties
<1>4. m.live => Grown(m, s) = [m EXCEPT !.pieces = p]
  BY <1>2 DEF Grown
<1>5. m.live => /\ Grown(m, s) \in Piece /\ Grown(m, s).of = m.of
                /\ Grown(m, s).live = m.live /\ Grown(m, s).pieces = p
  BY <1>4 DEF Piece
<1>6. ~ m.live => Grown(m, s) = m
  BY DEF Grown
<1>7. /\ \A i \in DOMAIN p : \/ i = Len(m.pieces) + 1
                             \/ i \in DOMAIN m.pieces /\ p[i] = m.pieces[i]
      /\ Len(m.pieces) + 1 \in DOMAIN p
  BY <1>3
<1>8. CASE m.live
  <2> HIDE DEF Piece
  <2> QED
    BY <1>3, <1>5, <1>7, <1>8
<1>9. CASE ~ m.live
  <2> HIDE DEF Piece
  <2> QED
    BY <1>6, <1>9
<1> QED
  BY <1>1, <1>8, <1>9

(* A chunk that finds the chat its answer is in grows the answer it belongs to;
   one that finds another chat grows only answers that were crossed. *)
LEMMA OnChunkKeeps ==
  ASSUME StoreInv, NEW s \in DOMAIN streams, OnChunk(s)
  PROVE  StoreInv'
<1>1. s \in Nat /\ streams[s] \in StreamRow
  BY StreamFacts DEF StoreInv
<1>2. PICK row : row = [streams[s] EXCEPT !.pieces = @ + 1]
  OBVIOUS
<1>3. /\ row \in StreamRow /\ row.at = "open" /\ row.pieces = streams[s].pieces + 1
      /\ ~ row.finished
  <2>1. ~ streams[s].finished
    BY DEF OnChunk, StoreInv, StoreTypeOK
  <2> QED
    BY <1>1, <1>2, <2>1 DEF OnChunk, StreamRow
<1>4. streams' = [streams EXCEPT ![s] = row]
  BY <1>2 DEF OnChunk
<1>5. /\ DOMAIN streams' = DOMAIN streams /\ streams'[s] = row
      /\ \A t \in DOMAIN streams : t # s => streams'[t] = streams[t]
  BY <1>3, <1>4, StreamChanged DEF StoreInv
<1>6. Open(s) /\ Open(s)' /\ Crosses(s)
  BY <1>3, <1>5 DEF Open, OnChunk
<1>7. currentChat \in Chat /\ isStreaming \in BOOLEAN
  BY DEF StoreInv, StoreTypeOK
<1>8. s \notin crossed => currentChat.known /\ isStreaming
  BY <1>6 DEF StoreInv, StreamInv, OnItsWay
<1>9. \A m \in currentChat.messages : MessageInv(m) /\ m \in Piece
  BY <1>7 DEF StoreInv, MessagesInv, Chat
<1>10. \A m : MessageInv(m) /\ (m.of # s \/ s \in crossed) => MessageInv(m)'
  BY <1>3, <1>4, <1>6, MessageAside
<1>11. crossed \subseteq crossed'
  BY <1>6, CrossFacts DEF StoreInv
<1>12. /\ UNCHANGED <<isStreaming, conversations, replies>>
  BY DEF OnChunk
<1>13. CASE ~ currentChat.known
  <2>1. UNCHANGED <<chats, currentChat>> /\ s \in crossed
    BY <1>8, <1>13 DEF OnChunk
  <2>2. \A m \in currentChat'.messages : MessageInv(m)'
    BY <1>9, <1>10, <2>1
  <2>3. \A r \in replies' : r \in replies
    BY <1>12
  <2> HIDE DEF StoreInv, MessageInv, Chat, StreamRow, Crosses, Open
  <2> QED
    BY <1>3, <1>4, <1>6, <1>7, <1>12, <2>1, <2>2, <2>3, StreamMoves
<1>14. CASE currentChat.known
  <2>1. PICK shown : shown = {Grown(m, s) : m \in currentChat.messages}
    OBVIOUS
  <2>2. /\ currentChat' = [currentChat EXCEPT !.messages = shown]
        /\ chats' = Replaced(chats, currentChat')
    BY <1>14, <2>1 DEF OnChunk, Show, Grown
  <2>3. shown \subseteq Piece
    BY <1>1, <1>9, <2>1, GrownFacts
  <2>4. /\ currentChat' \in Chat /\ currentChat'.id = currentChat.id
        /\ currentChat'.known = currentChat.known /\ currentChat'.messages = shown
    BY <1>7, <2>2, <2>3 DEF Chat
  <2>5. ASSUME NEW n \in shown PROVE MessageInv(n)'
    <3>1. PICK m \in currentChat.messages : n = Grown(m, s)
      BY <2>1
    <3>2. /\ n \in Piece /\ n.of = m.of
          /\ n.live = m.live
          /\ ~ m.live => n = m
          /\ m.live => /\ Len(n.pieces) = Len(m.pieces) + 1
                       /\ n.pieces[Len(m.pieces) + 1] = s
                       /\ \A i \in DOMAIN n.pieces :
                            \/ i = Len(m.pieces) + 1
                            \/ i \in DOMAIN m.pieces /\ n.pieces[i] = m.pieces[i]
                       /\ Len(m.pieces) + 1 \in DOMAIN n.pieces
      BY <1>1, <1>9, <3>1, GrownFacts
    <3>3. MessageInv(m) /\ m.of \in DOMAIN streams'
      BY <1>5, <1>9 DEF MessageInv
    <3>4. CASE m.of \in crossed
      BY <1>11, <3>2, <3>3, <3>4 DEF MessageInv
    <3>5. CASE m.of \notin crossed /\ m.of = s
      <4>1. OwnAnswer(m)
        BY <3>3, <3>5 DEF MessageInv
      <4>2. m.live
        BY <1>6, <3>5, <4>1 DEF OwnAnswer
      <4>3. \A i \in DOMAIN n.pieces : n.pieces[i] = n.of
        BY <3>2, <3>5, <4>1, <4>2 DEF OwnAnswer
      <4>4. Len(n.pieces) = streams'[n.of].pieces
        BY <1>3, <1>5, <3>2, <3>5, <4>1, <4>2 DEF OwnAnswer
      <4>5. n.live <=> Open(n.of)'
        BY <1>6, <3>2, <3>5, <4>2
      <4> QED
        BY <3>2, <3>3, <4>3, <4>4, <4>5 DEF MessageInv, OwnAnswer
    <3>6. CASE m.of \notin crossed /\ m.of # s
      <4>1. MessageInv(m)' /\ OwnAnswer(m)
        BY <1>10, <3>3, <3>6 DEF MessageInv
      <4>2. CASE ~ m.live
        BY <3>2, <4>1, <4>2
      <4>3. CASE m.live
        <5>1. Open(m.of)
          BY <4>1, <4>3 DEF OwnAnswer
        <5>2. currentChat' # currentChat
          <6> SUFFICES ASSUME currentChat' = currentChat PROVE FALSE
            OBVIOUS
          <6>1. MessageInv(n)
            BY <1>9, <2>4
          <6>2. OwnAnswer(n)
            BY <3>2, <3>6, <6>1 DEF MessageInv
          <6> QED
            BY <3>2, <3>6, <4>3, <6>2 DEF OwnAnswer
        <5>3. m.of \in crossed'
          BY <1>6, <3>3, <3>6, <5>1, <5>2, CrossFacts DEF StoreInv, MessageInv
        <5> QED
          BY <3>2, <3>3, <5>3 DEF MessageInv
      <4> QED
        BY <4>2, <4>3
    <3> QED
      BY <3>4, <3>5, <3>6
  <2>6. \A m \in currentChat'.messages : MessageInv(m)'
    BY <2>4, <2>5
  <2>7. \A r \in replies' : r \in replies
    BY <1>12
  <2>8. s \notin crossed /\ row.at # "over" => currentChat'.known /\ isStreaming'
    BY <1>8, <1>12, <2>4
  <2> HIDE DEF StoreInv, MessageInv, Chat, StreamRow, Crosses, Open, Replaced
  <2> QED
    BY <1>3, <1>4, <1>6, <1>7, <1>12, <2>2, <2>4, <2>6, <2>7, <2>8, StreamMoves
<1> QED
  BY <1>13, <1>14

(* An answer is finished: the answers that are shown get a final id. *)
LEMMA FinalFacts ==
  ASSUME NEW m \in Piece
  PROVE  /\ Final(m) \in Piece /\ Final(m).of = m.of /\ ~ Final(m).live
         /\ Final(m).pieces = m.pieces
         /\ ~ m.live => Final(m) = m
BY DEF Final, Piece

(* An answer that nothing crossed is whole when it gets its final id. *)
LEMMA OnFinishKeeps ==
  ASSUME StoreInv, NEW s \in DOMAIN streams, OnFinish(s)
  PROVE  StoreInv'
<1>1. streams[s] \in StreamRow
  BY StreamFacts DEF StoreInv
<1>2. PICK row : row = [streams[s] EXCEPT !.at = "over", !.finished = TRUE]
  OBVIOUS
<1>3. row \in StreamRow /\ row.at = "over" /\ row.pieces = streams[s].pieces
  BY <1>1, <1>2 DEF StreamRow
<1>4. streams' = [streams EXCEPT ![s] = row]
  BY <1>2 DEF OnFinish
<1>5. /\ DOMAIN streams' = DOMAIN streams /\ streams'[s] = row
      /\ \A t \in DOMAIN streams : t # s => streams'[t] = streams[t]
  BY <1>3, <1>4, StreamChanged DEF StoreInv
<1>6. Open(s) /\ ~ Open(s)' /\ Crosses(s)
  BY <1>3, <1>5 DEF Open, OnFinish
<1>7. currentChat \in Chat /\ isStreaming \in BOOLEAN
  BY DEF StoreInv, StoreTypeOK
<1>8. s \notin crossed => currentChat.known /\ isStreaming
  BY <1>6 DEF StoreInv, StreamInv, OnItsWay
<1>9. \A m \in currentChat.messages : MessageInv(m) /\ m \in Piece
  BY <1>7 DEF StoreInv, MessagesInv, Chat
<1>10. \A m : MessageInv(m) /\ (m.of # s \/ s \in crossed) => MessageInv(m)'
  BY <1>3, <1>4, <1>6, MessageAside
<1>11. crossed \subseteq crossed'
  BY <1>6, CrossFacts DEF StoreInv
<1>12. \A r \in replies' : r \in replies \/ (r.for = "hydrate" /\ r.id \in Int)
  <2>1. streams[s].chat \in Int
    BY <1>1 DEF StreamRow
  <2> QED
    BY <2>1 DEF OnFinish
<1>13. UNCHANGED conversations
  BY DEF OnFinish
<1>14. CASE ~ currentChat.known
  <2>1. UNCHANGED <<chats, currentChat, isStreaming>> /\ s \in crossed
    BY <1>8, <1>14 DEF OnFinish, Stays
  <2>2. \A m \in currentChat'.messages : MessageInv(m)'
    BY <1>9, <1>10, <2>1
  <2> HIDE DEF StoreInv, MessageInv, Chat, StreamRow, Crosses, Open
  <2> QED
    BY <1>3, <1>4, <1>6, <1>7, <1>12, <1>13, <2>1, <2>2, StreamMoves
<1>15. CASE currentChat.known
  <2>1. PICK shown : shown = {Final(m) : m \in currentChat.messages}
    OBVIOUS
  <2>2. /\ currentChat' = [currentChat EXCEPT !.messages = shown]
        /\ chats' = Replaced(chats, currentChat') /\ ~ isStreaming'
        /\ isStreaming' \in BOOLEAN
    BY <1>15, <2>1 DEF OnFinish, Show
  <2>3. shown \subseteq Piece
    BY <1>9, <2>1, FinalFacts
  <2>4. /\ currentChat' \in Chat /\ currentChat'.id = currentChat.id
        /\ currentChat'.messages = shown
    BY <1>7, <2>2, <2>3 DEF Chat
  <2>5. ASSUME NEW n \in shown PROVE MessageInv(n)'
    <3>1. PICK m \in currentChat.messages : n = Final(m)
      BY <2>1
    <3>2. /\ n.of = m.of /\ ~ n.live /\ n.pieces = m.pieces
          /\ ~ m.live => n = m
      BY <1>9, <3>1, FinalFacts
    <3>3. MessageInv(m) /\ m.of \in DOMAIN streams'
      BY <1>5, <1>9 DEF MessageInv
    <3>4. CASE m.of \in crossed
      BY <1>11, <3>2, <3>3, <3>4 DEF MessageInv
    <3>5. CASE m.of \notin crossed /\ m.of = s
      <4>1. OwnAnswer(m)
        BY <3>3, <3>5 DEF MessageInv
      <4> QED
        BY <1>3, <1>5, <1>6, <3>2, <3>3, <3>5, <4>1 DEF MessageInv, OwnAnswer
    <3>6. CASE m.of \notin crossed /\ m.of # s
      <4>1. MessageInv(m)' /\ OwnAnswer(m)
        BY <1>10, <3>3, <3>6 DEF MessageInv
      <4>2. CASE ~ m.live
        BY <3>2, <4>1, <4>2
      <4>3. CASE m.live
        <5>1. OnItsWay(m.of)
          BY <3>3, <3>6, <4>1, <4>3 DEF OwnAnswer, OnItsWay, MessageInv
        <5>2. isStreaming
          BY <5>1 DEF StoreInv, StreamInv, OnItsWay
        <5>3. m.of \in crossed'
          BY <1>6, <2>2, <3>6, <5>1, <5>2, CrossFacts DEF StoreInv, OnItsWay
        <5> QED
          BY <3>2, <3>3, <5>3 DEF MessageInv
      <4> QED
        BY <4>2, <4>3
    <3> QED
      BY <3>4, <3>5, <3>6
  <2>6. \A m \in currentChat'.messages : MessageInv(m)'
    BY <2>4, <2>5
  <2> HIDE DEF StoreInv, MessageInv, Chat, StreamRow, Crosses, Open, Replaced
  <2> QED
    BY <1>3, <1>4, <1>6, <1>12, <1>13, <2>2, <2>4, <2>6, StreamMoves
<1> QED
  BY <1>14, <1>15

(* An answer ends in an error: it is no longer shown, unless the end found a
   chat without messages. *)
LEMMA AnswerDropped ==
  ASSUME StoreInv, NEW s \in DOMAIN streams, Open(s), Crosses(s),
         streams' = [streams EXCEPT ![s].at = "over"],
         UNCHANGED <<replies, conversations>>,
         \/ /\ currentChat.known /\ isStreaming' = FALSE
            /\ \E kept \in SUBSET currentChat.messages :
                 /\ \A m \in kept : ~ (m.of = s /\ m.live)
                 /\ currentChat' = [currentChat EXCEPT !.messages = kept]
                 /\ chats' = Replaced(chats, currentChat')
         \/ /\ ~ currentChat.known /\ UNCHANGED <<chats, currentChat>>
            /\ isStreaming' = FALSE \/ isStreaming' = isStreaming
  PROVE  StoreInv'
<1>1. streams[s] \in StreamRow
  BY StreamFacts DEF StoreInv
<1>2. PICK row : row = [streams[s] EXCEPT !.at = "over"]
  OBVIOUS
<1>3. row \in StreamRow /\ row.at = "over"
  BY <1>1, <1>2 DEF StreamRow
<1>4. streams' = [streams EXCEPT ![s] = row]
  BY <1>2
<1>5. currentChat \in Chat /\ isStreaming \in BOOLEAN
  BY DEF StoreInv, StoreTypeOK
<1>6. s \notin crossed => currentChat.known
  BY DEF StoreInv, StreamInv, OnItsWay
<1>7. \A m \in currentChat.messages : MessageInv(m) /\ m \in Piece
  BY <1>5 DEF StoreInv, MessagesInv, Chat
<1>8. \A m : MessageInv(m) /\ (m.of # s \/ s \in crossed) => MessageInv(m)'
  BY <1>3, <1>4, MessageAside
<1>9. \A r \in replies' : r \in replies
  OBVIOUS
<1>10. CASE ~ currentChat.known
  <2>a. /\ UNCHANGED <<chats, currentChat>>
        /\ isStreaming' = FALSE \/ isStreaming' = isStreaming
    BY <1>10
  <2>b. s \in crossed
    BY <1>6, <1>10
  <2>c. isStreaming' \in BOOLEAN /\ (isStreaming' => isStreaming)
    <3>1. isStreaming \in BOOLEAN
      BY <1>5
    <3>2. CASE isStreaming' = FALSE
      BY <3>2
    <3>3. CASE isStreaming' = isStreaming
      BY <3>1, <3>3, Zenon
    <3> QED
      BY <2>a, <3>2, <3>3
  <2>1. /\ UNCHANGED <<chats, currentChat>> /\ s \in crossed
        /\ isStreaming' \in BOOLEAN /\ (isStreaming' => isStreaming)
    BY <2>a, <2>b, <2>c
  <2>2. \A m \in currentChat'.messages : MessageInv(m)'
    BY <1>7, <1>8, <2>1
  <2> HIDE DEF StoreInv, MessageInv, Chat, StreamRow, Crosses, Open
  <2> QED
    BY <1>3, <1>4, <1>5, <1>9, <2>1, <2>2, StreamMoves
<1>11. CASE currentChat.known
  <2>1. PICK kept \in SUBSET currentChat.messages :
          /\ \A m \in kept : ~ (m.of = s /\ m.live)
          /\ currentChat' = [currentChat EXCEPT !.messages = kept]
          /\ chats' = Replaced(chats, currentChat')
    BY <1>11
  <2>2. ~ isStreaming' /\ isStreaming' \in BOOLEAN
    BY <1>11
  <2>3. /\ currentChat' \in Chat /\ currentChat'.id = currentChat.id
        /\ currentChat'.messages = kept
    BY <1>5, <2>1 DEF Chat
  <2>4. ASSUME NEW m \in kept PROVE MessageInv(m)'
    <3>1. MessageInv(m) /\ m \in Piece
      BY <1>7
    <3>2. m.of # s \/ s \in crossed
      BY <2>1, <3>1 DEF MessageInv, OwnAnswer
    <3> QED
      BY <1>8, <3>1, <3>2
  <2>5. \A m \in currentChat'.messages : MessageInv(m)'
    BY <2>3, <2>4
  <2> HIDE DEF StoreInv, MessageInv, Chat, StreamRow, Crosses, Open, Replaced
  <2> QED
    BY <1>3, <1>4, <1>9, <2>1, <2>2, <2>3, <2>5, StreamMoves
<1> QED
  BY <1>10, <1>11

(* An error drops every live answer that is shown. *)
LEMMA OnErrorKeeps ==
  ASSUME StoreInv, NEW s \in DOMAIN streams, OnError(s)
  PROVE  StoreInv'
<1>1. Open(s) /\ Crosses(s) /\ streams' = [streams EXCEPT ![s].at = "over"]
  BY DEF Open, OnError
<1>2. UNCHANGED <<replies, conversations>>
  BY DEF OnError
<1>3. currentChat = NoChat => ~ currentChat.known
  BY DEF NoChat
<1>4. CASE currentChat.known
  <2>1. PICK kept : kept = currentChat.messages \ Live(currentChat)
    OBVIOUS
  <2>2. kept \subseteq currentChat.messages /\ \A m \in kept : ~ m.live
    BY <2>1 DEF Live
  <2>3. /\ currentChat' = [currentChat EXCEPT !.messages = kept]
        /\ chats' = Replaced(chats, currentChat') /\ isStreaming' = FALSE
    BY <1>3, <1>4, <2>1 DEF OnError, Show
  <2> HIDE DEF StoreInv
  <2> QED
    BY <1>1, <1>2, <1>4, <2>2, <2>3, AnswerDropped
<1>5. CASE ~ currentChat.known
  <2>1. /\ UNCHANGED <<chats, currentChat>>
        /\ isStreaming' = FALSE \/ isStreaming' = isStreaming
    BY <1>5 DEF OnError, Stays
  <2> QED
    BY <1>1, <1>2, <1>5, <2>1, AnswerDropped
<1> QED
  BY <1>4, <1>5

(* A lost connection drops the stream's own answer. *)
LEMMA StreamFailsKeeps ==
  ASSUME StoreInv, NEW s \in DOMAIN streams, StreamFails(s)
  PROVE  StoreInv'
<1>1. Open(s) /\ Crosses(s) /\ streams' = [streams EXCEPT ![s].at = "over"]
  BY DEF StreamFails
<1>2. UNCHANGED <<replies, conversations>>
  BY DEF StreamFails
<1>3. currentChat = NoChat => ~ currentChat.known
  BY DEF NoChat
<1>4. CASE currentChat.known
  <2>1. PICK kept : kept = {m \in currentChat.messages : ~ (m.of = s /\ m.live)}
    OBVIOUS
  <2>2. /\ kept \subseteq currentChat.messages
        /\ \A m \in kept : ~ (m.of = s /\ m.live)
    BY <2>1
  <2>3. /\ currentChat' = [currentChat EXCEPT !.messages = kept]
        /\ chats' = Replaced(chats, currentChat') /\ isStreaming' = FALSE
    BY <1>3, <1>4, <2>1 DEF StreamFails, Show
  <2> QED
    BY <1>1, <1>2, <1>4, <2>2, <2>3, AnswerDropped
<1>5. CASE ~ currentChat.known
  <2>1. /\ UNCHANGED <<chats, currentChat>>
        /\ isStreaming' = FALSE \/ isStreaming' = isStreaming
    BY <1>5 DEF StreamFails, Stays
  <2> QED
    BY <1>1, <1>2, <1>5, <2>1, AnswerDropped
<1> QED
  BY <1>4, <1>5

(* The service accepts a question: nothing that is shown depends on it. *)
LEMMA AcceptKeeps ==
  ASSUME StoreInv, NEW s \in DOMAIN streams, Accept(s)
  PROVE  StoreInv'
<1> USE DEF StoreInv
<1>1. streams[s] \in StreamRow /\ Len(conversations) \in Nat
  BY StreamFacts
<1>a. PICK id \in Int :
        id = IF streams[s].chat = 0 THEN Len(conversations) + 1 ELSE streams[s].chat
  BY <1>1 DEF StreamRow
<1>2. PICK row : row = [streams[s] EXCEPT !.at = "open", !.chat = id]
  OBVIOUS
<1>3. /\ row \in StreamRow /\ row.at = "open" /\ row.pieces = streams[s].pieces
      /\ row.finished = streams[s].finished
  BY <1>1, <1>2 DEF StreamRow
<1>4. streams' = [streams EXCEPT ![s] = row]
  BY <1>a, <1>2 DEF Accept
<1>5. /\ DOMAIN streams' = DOMAIN streams /\ streams'[s] = row
      /\ streams' \in Seq(StreamRow) /\ Len(streams') = Len(streams)
      /\ \A t \in DOMAIN streams : t # s => streams'[t] = streams[t]
  BY <1>3, <1>4, StreamChanged
<1>6. ~ streams[s].finished /\ Open(s) /\ Open(s)'
  BY <1>3, <1>5 DEF Accept, StoreTypeOK, Open
<1>7. \A t \in DOMAIN streams : /\ Open(t)' <=> Open(t)
                                /\ streams'[t].pieces = streams[t].pieces
  BY <1>3, <1>5, <1>6 DEF Open
<1>8. UNCHANGED <<chats, currentChat, isStreaming, replies, crossed>>
  BY DEF Accept, Stays
<1>9. ASSUME NEW m, MessageInv(m) PROVE MessageInv(m)'
  BY <1>5, <1>7, <1>8, <1>9 DEF MessageInv, OwnAnswer
<1>10. StoreTypeOK'
  <2>1. conversations' \in Seq({"active", "deleted"})
    BY AppendProperties DEF Accept, StoreTypeOK
  <2>2. \A t \in DOMAIN streams' : streams'[t].finished => streams'[t].at = "over"
    BY <1>3, <1>5, <1>6 DEF StoreTypeOK
  <2> QED
    BY <1>5, <1>8, <2>1, <2>2 DEF StoreTypeOK
<1>11. MessagesInv'
  <2>1. ASSUME NEW c \in chats' \union {currentChat'}, NEW m \in c.messages
        PROVE  MessageInv(m)'
    BY <1>8, <1>9 DEF MessagesInv
  <2>2. ASSUME NEW r \in replies', r.for = "select", NEW m \in r.chat.messages
        PROVE  MessageInv(m)' /\ (Open(m.of)' => m.of \in crossed')
    <3>1. MessageInv(m) /\ (Open(m.of) => m.of \in crossed)
      BY <1>8, <2>2 DEF MessagesInv
    <3>2. m.of \in DOMAIN streams
      BY <3>1 DEF MessageInv
    <3> QED
      BY <1>7, <1>8, <1>9, <3>1, <3>2
  <2> QED
    BY <2>1, <2>2 DEF MessagesInv
<1>12. StreamInv'
  BY <1>5, <1>7, <1>8 DEF StreamInv, OnItsWay
<1>13. InputInv'
  <2>1. PICK t : t = Len(streams)
    OBVIOUS
  <2>2. isStreaming => t > 0 /\ (Open(t) \/ t \in crossed)
    BY <2>1 DEF InputInv
  <2>3. t > 0 => t \in DOMAIN streams
    BY <2>1, StreamFacts
  <2>4. isStreaming => Open(t)' \/ t \in crossed'
    BY <1>7, <1>8, <2>2, <2>3
  <2> QED
    BY <1>5, <1>8, <2>1, <2>2, <2>4 DEF InputInv
<1> QED
  BY <1>10, <1>11, <1>12, <1>13

(* A question is sent: the streams that were open cross, and the new one is
   the last. *)
LEMMA SendMessageKeeps ==
  ASSUME StoreInv, SendMessage
  PROVE  StoreInv'
<1> USE DEF StoreInv
<1>1. PICK s : s = Len(streams) + 1
  OBVIOUS
<1>2. PICK base : base = IF currentChat = NoChat THEN Unloaded(-s) ELSE currentChat
  OBVIOUS
<1>3. PICK chat : chat = [base EXCEPT !.known = TRUE,
                                      !.messages = @ \union {Message(s)}]
  OBVIOUS
<1>4. PICK row : row = [at |-> "asked", pieces |-> 0, finished |-> FALSE,
                        chat |-> IF isPendingChatId(base.id) THEN 0 ELSE base.id]
  OBVIOUS
<1>5. /\ ~ isStreaming /\ currentChat' = chat /\ chats' = Listed(chats, chat)
      /\ isStreaming' = TRUE /\ streams' = Append(streams, row)
      /\ Crosses(s) /\ UNCHANGED <<replies, conversations>>
  BY <1>1, <1>2, <1>3, <1>4 DEF SendMessage
<1>6. /\ Len(streams) \in Nat /\ DOMAIN streams = 1..Len(streams)
      /\ streams \in Seq(StreamRow)
  BY StreamFacts
<1>7. s \in Nat /\ s > 0 /\ s \notin DOMAIN streams
  BY <1>1, <1>6
<1>8. base \in Chat
  BY <1>2, <1>7 DEF StoreTypeOK, Unloaded, Chat
<1>9. /\ Message(s) \in Piece /\ Message(s).of = s /\ Message(s).live
      /\ Message(s).pieces = <<>>
  BY <1>7 DEF Message, Piece
<1>10. /\ chat \in Chat /\ chat.known
       /\ chat.messages = base.messages \union {Message(s)}
  BY <1>3, <1>8, <1>9 DEF Chat
<1>11. row \in StreamRow
  BY <1>4, <1>8 DEF Chat, StreamRow
<1>12. /\ streams' \in Seq(StreamRow) /\ Len(streams') = s
       /\ \A t \in DOMAIN streams : streams'[t] = streams[t]
       /\ streams'[s] = row
  <2> HIDE DEF StreamRow
  <2> QED
    BY <1>1, <1>5, <1>6, <1>11, AppendProperties
<1>13. DOMAIN streams' = DOMAIN streams \union {s}
  <2>1. DOMAIN streams' = 1..s
    BY <1>12, LenProperties
  <2> QED
    BY <1>1, <1>6, <2>1
<1>14. /\ \A t \in DOMAIN streams : Open(t)' <=> Open(t)
       /\ Open(s)'
  BY <1>4, <1>12 DEF Open
<1>15. /\ crossed \subseteq crossed' /\ crossed' \subseteq DOMAIN streams
       /\ \A t \in DOMAIN streams : Open(t) => t \in crossed'
  BY <1>5, <1>7, CrossFacts
<1>16. ASSUME NEW m, MessageInv(m) PROVE MessageInv(m)' /\ m.of # s
  BY <1>7, <1>12, <1>13, <1>14, <1>15, <1>16 DEF MessageInv, OwnAnswer
<1>17. MessageInv(Message(s))'
  <2>1. PICK m : m = Message(s)
    OBVIOUS
  <2>2. m.of = s /\ m.live /\ m.pieces = <<>>
    BY <1>9, <2>1
  <2>3. Len(m.pieces) = row.pieces /\ DOMAIN m.pieces = {}
    BY <1>4, <2>2
  <2>4. MessageInv(m)'
    BY <1>12, <1>13, <1>14, <2>2, <2>3 DEF MessageInv, OwnAnswer
  <2> QED
    BY <2>1, <2>4 DEF MessageInv, OwnAnswer, Message
<1>18. \A m \in base.messages : MessageInv(m)
  BY <1>2 DEF MessagesInv, Unloaded
<1>19. \A c \in chats' : c = chat \/ c \in chats
  BY <1>5, ReplacedFacts
<1>20. StoreTypeOK'
  <2>1. chats' \subseteq Chat
    BY <1>10, <1>19 DEF StoreTypeOK
  <2>2. \A t \in DOMAIN streams' : streams'[t].finished => streams'[t].at = "over"
    BY <1>4, <1>12, <1>13 DEF StoreTypeOK
  <2> QED
    BY <1>5, <1>10, <1>12, <1>13, <1>15, <2>1, <2>2 DEF StoreTypeOK
<1>21. MessagesInv'
  <2>1. ASSUME NEW m \in chat.messages PROVE MessageInv(m)'
    BY <1>10, <1>16, <1>17, <1>18
  <2>2. ASSUME NEW c \in chats' \union {currentChat'}, NEW m \in c.messages
        PROVE  MessageInv(m)'
    BY <1>5, <1>16, <1>19, <2>1 DEF MessagesInv
  <2>3. ASSUME NEW r \in replies', r.for = "select", NEW m \in r.chat.messages
        PROVE  MessageInv(m)' /\ (Open(m.of)' => m.of \in crossed')
    <3>1. MessageInv(m) /\ (Open(m.of) => m.of \in crossed)
      BY <1>5, <2>3 DEF MessagesInv
    <3>2. m.of \in DOMAIN streams
      BY <3>1 DEF MessageInv
    <3> QED
      BY <1>14, <1>15, <1>16, <3>1, <3>2
  <2> QED
    BY <2>2, <2>3 DEF MessagesInv
<1>22. StreamInv'
  <2> SUFFICES ASSUME NEW t \in DOMAIN streams', OnItsWay(t)'
               PROVE  /\ t = Len(streams') /\ isStreaming' /\ currentChat'.known
                      /\ \A c \in chats' : \A m \in c.messages :
                           m.of = t => c.id = currentChat'.id
    BY DEF StreamInv
  <2>1. t = s
    BY <1>13, <1>14, <1>15 DEF OnItsWay
  <2>2. ASSUME NEW c \in chats', NEW m \in c.messages, m.of = t
        PROVE  c.id = currentChat'.id
    <3>1. CASE c = chat
      BY <1>5, <3>1
    <3>2. CASE c # chat
      BY <1>16, <1>19, <2>1, <2>2, <3>2 DEF MessagesInv
    <3> QED
      BY <3>1, <3>2
  <2> QED
    BY <1>5, <1>10, <1>12, <2>1, <2>2
<1>23. InputInv'
  BY <1>7, <1>12, <1>14 DEF InputInv, Open
<1> QED
  BY <1>20, <1>21, <1>22, <1>23

-----------------------------------------------------------------------------
(* A chat with answers that are all sound, and none of them on its way. *)
Settled(c) ==
  c \in Chat /\ \A m \in c.messages : MessageInv(m) /\ ~ OnItsWay(m.of)

(* What the service tells of a chat is settled. *)
LEMMA FromServiceSettled ==
  ASSUME StoreInv, NEW c \in Int
  PROVE  Settled(FromService(c))
<1>1. PICK of : of = {s \in DOMAIN streams :
                        streams[s].chat = c /\ streams[s].at # "asked"}
  OBVIOUS
<1>2. PICK told : told = {[of |-> s, live |-> FALSE,
                           pieces |-> [i \in 1..streams[s].pieces |-> s]] :
                             s \in {t \in of : streams[t].finished}}
  OBVIOUS
<1>3. FromService(c) = [id |-> c, known |-> of # {}, messages |-> told]
  BY <1>1, <1>2 DEF FromService
<1>4. ASSUME NEW m \in told
      PROVE  m \in Piece /\ MessageInv(m) /\ ~ Open(m.of)
  <2>1. PICK s \in of : /\ streams[s].finished
                        /\ m = [of |-> s, live |-> FALSE,
                                pieces |-> [i \in 1..streams[s].pieces |-> s]]
    BY <1>2
  <2>2. /\ s \in DOMAIN streams /\ s \in Nat /\ streams[s] \in StreamRow
        /\ streams[s].at = "over"
    BY <1>1, <2>1, StreamFacts DEF StoreInv, StoreTypeOK
  <2>3. streams[s].pieces \in Nat
    BY <2>2 DEF StreamRow
  <2>4. PICK p : p = [i \in 1..streams[s].pieces |-> s]
    OBVIOUS
  <2>5. /\ p \in Seq(Nat) /\ Len(p) = streams[s].pieces
        /\ \A i \in DOMAIN p : p[i] = s
    <3>1. p \in [1..streams[s].pieces -> Nat] /\ \A i \in DOMAIN p : p[i] = s
      BY <2>2, <2>4
    <3> QED
      BY <2>3, <3>1
  <2>6. m.of = s /\ m.live = FALSE /\ m.pieces = p
    BY <2>1, <2>4
  <2>7. m \in Piece
    BY <2>1, <2>2, <2>4, <2>5 DEF Piece
  <2> QED
    BY <2>2, <2>5, <2>6, <2>7 DEF MessageInv, OwnAnswer, Open
<1>5. FromService(c) \in Chat
  BY <1>3, <1>4 DEF Chat
<1> QED
  BY <1>3, <1>4, <1>5 DEF Settled, OnItsWay

(* A chat without messages is settled. *)
LEMMA UnloadedSettled ==
  ASSUME NEW c \in Int
  PROVE  Settled(Unloaded(c)) /\ Settled(NoChat)
BY DEF Settled, Unloaded, NoChat, Chat

(* Another chat is shown, and the list changed, while the streams are as they
   were: every chat is an old one or settled, and a stream stays uncrossed only
   if the chat shown stays. *)
LEMMA ChatsMove ==
  ASSUME StoreInv, UNCHANGED <<streams, isStreaming>>,
         conversations' \in Seq({"active", "deleted"}),
         crossed \subseteq crossed', crossed' \subseteq DOMAIN streams,
         currentChat' # currentChat =>
           \A t \in DOMAIN streams : Open(t) => t \in crossed',
         \A c \in chats' : c \in chats \/ Settled(c),
         currentChat' \in Chat,
         \A m \in currentChat'.messages : MessageInv(m),
         \A r \in replies' :
           \/ r \in replies
           \/ /\ r.id \in Int
              /\ r.for = "select" =>
                   /\ r.chat \in Chat
                   /\ \A m \in r.chat.messages :
                        MessageInv(m) /\ (Open(m.of) => m.of \in crossed')
  PROVE  StoreInv'
<1> USE DEF StoreInv
<1>1. \A t : Open(t)' <=> Open(t)
  BY DEF Open
<1>2. ASSUME NEW m, MessageInv(m) PROVE MessageInv(m)'
  BY <1>2 DEF MessageInv, OwnAnswer, Open
<1>3. StoreTypeOK'
  <2>1. chats' \subseteq Chat
    BY DEF StoreTypeOK, Settled
  <2>2. \A r \in replies' : r.id \in Int /\ (r.for = "select" => r.chat \in Chat)
    BY DEF StoreTypeOK
  <2> QED
    BY <2>1, <2>2 DEF StoreTypeOK
<1>4. MessagesInv'
  <2>1. ASSUME NEW c \in chats' \union {currentChat'}, NEW m \in c.messages
        PROVE  MessageInv(m)'
    <3>1. MessageInv(m)
      BY DEF MessagesInv, Settled
    <3> QED
      BY <1>2, <3>1
  <2>2. ASSUME NEW r \in replies', r.for = "select", NEW m \in r.chat.messages
        PROVE  MessageInv(m)' /\ (Open(m.of)' => m.of \in crossed')
    <3>1. MessageInv(m) /\ (Open(m.of) => m.of \in crossed')
      BY <2>2 DEF MessagesInv
    <3> QED
      BY <1>1, <1>2, <3>1
  <2> QED
    BY <2>1, <2>2 DEF MessagesInv
<1>5. StreamInv'
  <2> SUFFICES ASSUME NEW t \in DOMAIN streams, OnItsWay(t)'
               PROVE  /\ t = Len(streams) /\ isStreaming /\ currentChat'.known
                      /\ \A c \in chats' : \A m \in c.messages :
                           m.of = t => c.id = currentChat'.id
    BY DEF StreamInv
  <2>1. OnItsWay(t) /\ t \notin crossed'
    BY <1>1 DEF OnItsWay
  <2>2. currentChat' = currentChat
    BY <2>1 DEF OnItsWay
  <2>3. /\ t = Len(streams) /\ isStreaming /\ currentChat.known
        /\ \A c \in chats : \A m \in c.messages : m.of = t => c.id = currentChat.id
    BY <2>1 DEF StreamInv
  <2>4. ASSUME NEW c \in chats', NEW m \in c.messages, m.of = t
        PROVE  c.id = currentChat'.id
    BY <2>1, <2>2, <2>3, <2>4 DEF Settled
  <2> QED
    BY <2>2, <2>3, <2>4
<1>6. InputInv'
  BY DEF InputInv, Open
<1> QED
  BY <1>3, <1>4, <1>5, <1>6

(* What every reply leaves as it is, and which streams it crosses. *)
LEMMA ReplyFacts ==
  ASSUME StoreInv, NEW r \in replies, Reply(r)
  PROVE  /\ UNCHANGED <<streams, isStreaming>>
         /\ crossed \subseteq crossed' /\ crossed' \subseteq DOMAIN streams
         /\ currentChat' # currentChat =>
              \A t \in DOMAIN streams : Open(t) => t \in crossed'
         /\ \A q \in replies' : q \in replies
         /\ r.id \in Int
<1>1. UNCHANGED <<streams, isStreaming>> /\ replies' = replies \ {r}
  BY DEF Reply
<1>2. Crosses(0)
  BY DEF Reply
<1>3. /\ crossed \subseteq crossed' /\ crossed' \subseteq DOMAIN streams
      /\ currentChat' # currentChat =>
           \A t \in DOMAIN streams : t # 0 /\ Open(t) => t \in crossed'
  BY <1>2, CrossFacts DEF StoreInv
<1>4. \A t \in DOMAIN streams : t # 0
  BY StreamFacts DEF StoreInv
<1>5. r.id \in Int
  BY DEF StoreInv, StoreTypeOK
<1> QED
  BY <1>1, <1>3, <1>4, <1>5

(* The service answers: whatever was shown, what is shown then is an old chat
   or one that is settled. *)
LEMMA ReplyKeeps ==
  ASSUME StoreInv, NEW r \in replies, Reply(r)
  PROVE  StoreInv'
<1>1. /\ UNCHANGED <<streams, isStreaming>>
      /\ crossed \subseteq crossed' /\ crossed' \subseteq DOMAIN streams
      /\ currentChat' # currentChat =>
           \A t \in DOMAIN streams : Open(t) => t \in crossed'
      /\ \A q \in replies' : q \in replies
      /\ r.id \in Int
  BY ReplyFacts
<1>2. /\ currentChat \in Chat /\ Len(conversations) \in Nat
      /\ conversations \in Seq({"active", "deleted"})
  BY StreamFacts DEF StoreInv, StoreTypeOK
<1>3. \A m \in currentChat.messages : MessageInv(m)
  BY DEF StoreInv, MessagesInv
<1>4. Settled(FromService(r.id))
  BY <1>1, FromServiceSettled
<1>5. \A c : Settled(c) => c \in Chat /\ \A m \in c.messages : MessageInv(m)
  BY DEF Settled
<1>6. Settled(NoChat) /\ \A c \in Int : Settled(Unloaded(c))
  BY UnloadedSettled
<1>7. r.for = "select" =>
        r.chat \in Chat /\ \A m \in r.chat.messages : MessageInv(m)
  BY DEF StoreInv, StoreTypeOK, MessagesInv
<1>8. PICK ok \in BOOLEAN :
        \/ Selected(r, ok) \/ Hydrated(r, ok) \/ Created(r, ok)
        \/ Deleted(r, ok) \/ ChatsLoaded(r, ok)
  BY DEF Reply
<1>9. SUFFICES /\ conversations' \in Seq({"active", "deleted"})
               /\ \A c \in chats' : c \in chats \/ Settled(c)
               /\ currentChat' \in Chat
               /\ \A m \in currentChat'.messages : MessageInv(m)
  <2> HIDE DEF StoreInv, Settled, MessageInv, Open, Chat
  <2> QED
    BY <1>1, <1>9, ChatsMove
<1>10. CASE Selected(r, ok)
  <2>1. \A c \in chats' : c \in chats \/ c = FromService(r.id)
    BY <1>10, ReplacedFacts DEF Selected
  <2>2. currentChat' = FromService(r.id) \/ currentChat' = r.chat
    BY <1>10 DEF Selected
  <2>3. r.for = "select" /\ UNCHANGED conversations
    BY <1>10 DEF Selected
  <2> QED
    BY <1>2, <1>4, <1>5, <1>7, <2>1, <2>2, <2>3
<1>11. CASE Hydrated(r, ok)
  <2>1. \A c \in chats' : c \in chats \/ c = FromService(r.id)
    BY <1>11, ReplacedFacts DEF Hydrated
  <2>2. currentChat' = FromService(r.id) \/ currentChat' = currentChat
    BY <1>11 DEF Hydrated
  <2>3. UNCHANGED conversations
    BY <1>11 DEF Hydrated
  <2> QED
    BY <1>2, <1>3, <1>4, <1>5, <2>1, <2>2, <2>3
<1>12. CASE Created(r, ok)
  <2>1. PICK chat : chat = Unloaded(Len(conversations) + 1)
    OBVIOUS
  <2>2. Settled(chat)
    BY <1>2, <1>6, <2>1
  <2>3. /\ \A c \in chats' : c \in chats \/ c = chat
        /\ currentChat' = chat \/ currentChat' = currentChat
    BY <1>12, <2>1 DEF Created
  <2>4. conversations' \in Seq({"active", "deleted"})
    BY <1>2, <1>12, AppendProperties DEF Created
  <2> QED
    BY <1>2, <1>3, <1>5, <2>2, <2>3, <2>4
<1>13. CASE Deleted(r, ok)
  <2>1. /\ \A c \in chats' : c \in chats
        /\ currentChat' = NoChat \/ currentChat' = currentChat
    BY <1>13 DEF Deleted
  <2>2. conversations' \in Seq({"active", "deleted"})
    <3>1. \/ conversations' = conversations
          \/ conversations' = [conversations EXCEPT ![r.id] = "deleted"]
      BY <1>13 DEF Deleted
    <3>2. DOMAIN conversations = 1..Len(conversations)
      BY <1>2, LenProperties
    <3>3. CASE r.id \in 1..Len(conversations)
      BY <1>2, <3>1, <3>3, ExceptSeq
    <3>4. CASE r.id \notin 1..Len(conversations)
      BY <1>2, <3>1, <3>2, <3>4
    <3> QED
      BY <3>3, <3>4
  <2> QED
    BY <1>2, <1>3, <1>5, <1>6, <2>1, <2>2
<1>14. CASE ChatsLoaded(r, ok)
  <2>1. \A d \in DOMAIN conversations : d \in Int
    BY <1>2, LenProperties
  <2>2. \A c \in chats' : c \in chats \/ \E d \in Int : c = Unloaded(d)
    BY <1>14, <2>1 DEF ChatsLoaded
  <2>3. UNCHANGED <<currentChat, conversations>>
    BY <1>14 DEF ChatsLoaded
  <2> QED
    BY <1>2, <1>3, <1>6, <2>2, <2>3
<1> QED
  BY <1>8, <1>10, <1>11, <1>12, <1>13, <1>14

(* The user selects a chat: the streams that are open cross, and the chat as it
   is goes with the request. *)
LEMMA SelectChatKeeps ==
  ASSUME StoreInv, NEW chat \in chats, SelectChat(chat)
  PROVE  StoreInv'
<1>1. /\ UNCHANGED <<streams, isStreaming, chats, conversations>>
      /\ currentChat' = chat
      /\ crossed' = crossed \union {s \in DOMAIN streams : Open(s)}
      /\ \A r \in replies' :
           r \in replies \/ (r.id = chat.id /\ r.chat = chat)
  BY DEF SelectChat, Move
<1>2. chat \in Chat /\ chat.id \in Int /\ \A m \in chat.messages : MessageInv(m)
  BY DEF StoreInv, StoreTypeOK, MessagesInv, Chat
<1>3. /\ conversations' \in Seq({"active", "deleted"})
      /\ crossed \subseteq DOMAIN streams
  BY <1>1 DEF StoreInv, StoreTypeOK
<1>4. /\ crossed \subseteq crossed' /\ crossed' \subseteq DOMAIN streams
      /\ \A t \in DOMAIN streams : Open(t) => t \in crossed'
  BY <1>1, <1>3
<1>5. \A m \in chat.messages : Open(m.of) => m.of \in crossed'
  BY <1>2, <1>4 DEF MessageInv
<1>6. /\ currentChat' \in Chat /\ \A m \in currentChat'.messages : MessageInv(m)
      /\ \A c \in chats' : c \in chats
  BY <1>1, <1>2
<1>7. \A r \in replies' :
        \/ r \in replies
        \/ /\ r.id \in Int
           /\ r.for = "select" =>
                /\ r.chat \in Chat
                /\ \A m \in r.chat.messages :
                     MessageInv(m) /\ (Open(m.of) => m.of \in crossed')
  BY <1>1, <1>2, <1>5
<1> HIDE DEF StoreInv, Settled, MessageInv, Open, Chat
<1> QED
  BY <1>1, <1>3, <1>4, <1>6, <1>7, ChatsMove

(* The other moves only ask the service. *)
LEMMA AskingKeeps ==
  ASSUME StoreInv, Stays, UNCHANGED <<streams, conversations, crossed>>,
         \A r \in replies' :
           r \in replies \/ (r.id \in Int /\ r.for # "select")
  PROVE  StoreInv'
<1>1. UNCHANGED <<chats, currentChat, isStreaming>>
  BY DEF Stays
<1>2. /\ currentChat' \in Chat /\ \A m \in currentChat'.messages : MessageInv(m)
      /\ \A c \in chats' : c \in chats
      /\ conversations' \in Seq({"active", "deleted"})
      /\ crossed' \subseteq DOMAIN streams /\ crossed \subseteq crossed'
  BY <1>1 DEF StoreInv, StoreTypeOK, MessagesInv
<1> HIDE DEF StoreInv, Settled, MessageInv, Open, Chat
<1> QED
  BY <1>1, <1>2, ChatsMove

(* What the user does to the chats. *)
LEMMA UserStepKeeps ==
  ASSUME StoreInv, UserStep
  PROVE  StoreInv'
<1>1. ASSUME NEW chat \in chats, SelectChat(chat) PROVE StoreInv'
  BY <1>1, SelectChatKeeps
<1>2. ASSUME NEW chat \in chats, DeleteChat(chat) PROVE StoreInv'
  <2>1. chat.id \in Int
    BY DEF StoreInv, StoreTypeOK, Chat
  <2>2. /\ Stays /\ UNCHANGED <<streams, conversations, crossed>>
        /\ \A r \in replies' :
             r \in replies \/ (r.id = chat.id /\ r.for = "delete")
    BY <1>2 DEF DeleteChat, Move
  <2>3. \A r \in replies' :
          r \in replies \/ (r.id \in Int /\ r.for # "select")
    BY <2>1, <2>2
  <2> QED
    BY <2>2, <2>3, AskingKeeps
<1>3. ASSUME CreateChat \/ LoadChats PROVE StoreInv'
  <2>1. /\ Stays /\ UNCHANGED <<streams, conversations, crossed>>
        /\ \A r \in replies' :
             r \in replies \/ (r.id \in Int /\ r.for # "select")
    BY <1>3 DEF CreateChat, LoadChats, Move
  <2> QED
    BY <2>1, AskingKeeps
<1> QED
  BY <1>1, <1>2, <1>3 DEF UserStep

(* What a question and its answer do to the chats. *)
LEMMA StreamStepKeeps ==
  ASSUME StoreInv, StreamStep
  PROVE  StoreInv'
<1> QED
  BY SendMessageKeeps, AcceptKeeps, OnChunkKeeps, OnFinishKeeps, OnErrorKeeps,
     StreamFailsKeeps DEF StreamStep

(* StoreInv is an inductive invariant of the store. *)
THEOREM StoreInvariant == ChatStoreSpec => []StoreInv
<1>1. ChatStoreInit => StoreInv
  <2> SUFFICES ASSUME ChatStoreInit PROVE StoreInv
    OBVIOUS
  <2>1. /\ chats = {} /\ currentChat = NoChat /\ isStreaming = FALSE
        /\ streams = <<>> /\ replies = {} /\ conversations = <<>> /\ crossed = {}
    BY DEF ChatStoreInit
  <2>2. NoChat \in Chat /\ NoChat.messages = {}
    BY DEF NoChat, Chat
  <2>3. DOMAIN streams = {}
    BY <2>1
  <2>4. StoreTypeOK
    <3>1. streams \in Seq(StreamRow)
      BY <2>1
    <3>2. conversations \in Seq({"active", "deleted"})
      BY <2>1
    <3> HIDE DEF Chat, NoChat, StreamRow
    <3>4. chats \subseteq Chat /\ currentChat \in Chat /\ isStreaming \in BOOLEAN
      BY <2>1, <2>2
    <3>5. /\ crossed \subseteq DOMAIN streams
          /\ \A r \in replies : r.id \in Int /\ (r.for = "select" => r.chat \in Chat)
      BY <2>1
    <3>6. \A s \in DOMAIN streams : streams[s].finished => streams[s].at = "over"
      BY <2>3
    <3> QED
      BY <3>1, <3>2, <3>4, <3>5, <3>6 DEF StoreTypeOK
  <2>5. MessagesInv
    <3> HIDE DEF Chat, NoChat
    <3> QED
      BY <2>1, <2>2 DEF MessagesInv
  <2>6. StreamInv
    BY <2>3 DEF StreamInv
  <2>7. InputInv
    BY <2>1 DEF InputInv
  <2> QED
    BY <2>4, <2>5, <2>6, <2>7 DEF StoreInv
<1>2. StoreInv /\ [ChatStoreNext]_chatStoreVars => StoreInv'
  <2> SUFFICES ASSUME StoreInv, [ChatStoreNext]_chatStoreVars PROVE StoreInv'
    OBVIOUS
  <2>1. CASE StreamStep
    BY <2>1, StreamStepKeeps
  <2>2. CASE UserStep
    BY <2>2, UserStepKeeps
  <2>3. ASSUME NEW r \in replies, Reply(r) PROVE StoreInv'
    BY <2>3, ReplyKeeps
  <2>4. CASE UNCHANGED chatStoreVars
    <3>1. /\ Stays /\ UNCHANGED <<streams, conversations, crossed>>
          /\ \A r \in replies' : r \in replies
      BY <2>4 DEF chatStoreVars, Stays
    <3> QED
      BY <3>1, AskingKeeps
  <2> QED
    BY <2>1, <2>2, <2>3, <2>4 DEF ChatStoreNext
<1> QED
  BY <1>1, <1>2, PTL DEF ChatStoreSpec

(* What is shown is the answer to its question, and the input comes back, but
   for a stream that was crossed (chatStore.ts:405-462, 534-577). *)
THEOREM StoreShowsAnswers == ChatStoreSpec => []ChatShowsAnswers
<1>1. StoreInv => ChatShowsAnswers
  <2> SUFFICES ASSUME StoreInv PROVE ChatShowsAnswers
    OBVIOUS
  <2>1. AnswersAreOwn
    BY DEF StoreInv, MessagesInv, MessageInv, OwnAnswer, AnswersAreOwn
  <2>2. InputComesBack
    BY DEF StoreInv, InputInv, InputComesBack
  <2> QED
    BY <2>1, <2>2 DEF ChatShowsAnswers
<1> QED
  BY <1>1, StoreInvariant, PTL
-----------------------------------------------------------------------------
(* Uploads.  What a request under way has already written or removed. *)

(* An upload under way has its file and no row yet. *)
SavingInv ==
  \A f \in saving :
    f \in disk /\ f \notin files /\ f \notin deleting /\ f \notin spoiled

(* A deletion under way has its row and no file any more. *)
DeletingInv == \A f \in deleting : f \in files /\ f \notin disk

UploadsInv == SavingInv /\ DeletingInv /\ FilesMatchRows

(* No row and no file is there before the first upload. *)
LEMMA InitUploads == UploadsInit => UploadsInv
BY DEF UploadsInit, UploadsInv, SavingInv, DeletingInv, FilesMatchRows,
       GetByID, Readable

(* Save takes an identifier that nothing uses. *)
LEMMA SaveKeeps ==
  ASSUME UploadsInv, NEW f \in Files, Save(f)
  PROVE  UploadsInv'
<1> USE DEF UploadsInv, Save, Fresh
<1>1. SavingInv'
  <2>1. f \notin deleting
    BY DEF DeletingInv
  <2> QED
    BY <2>1 DEF SavingInv
<1>2. DeletingInv'
  BY DEF DeletingInv
<1>3. FilesMatchRows'
  BY DEF FilesMatchRows, GetByID, Readable
<1> QED
  BY <1>1, <1>2, <1>3

(* Create gives the file that is on disk its row. *)
LEMMA CreateKeeps ==
  ASSUME UploadsInv, NEW f \in Files, Create(f)
  PROVE  UploadsInv'
<1> USE DEF UploadsInv, Create
<1>1. SavingInv'
  BY DEF SavingInv
<1>2. DeletingInv'
  BY DEF SavingInv, DeletingInv
<1>3. FilesMatchRows'
  BY DEF SavingInv, FilesMatchRows, GetByID, Readable
<1> QED
  BY <1>1, <1>2, <1>3

(* An upload whose row is refused takes its file back. *)
LEMMA CreateFailsKeeps ==
  ASSUME UploadsInv, NEW f \in Files, CreateFails(f)
  PROVE  UploadsInv'
<1> USE DEF UploadsInv, CreateFails
<1>1. SavingInv'
  BY DEF SavingInv
<1>2. DeletingInv'
  BY DEF SavingInv, DeletingInv
<1>3. FilesMatchRows'
  BY DEF SavingInv, FilesMatchRows, GetByID, Readable
<1> QED
  BY <1>1, <1>2, <1>3

(* A file is removed under a row that no upload is still about to write. *)
LEMMA DeleteKeeps ==
  ASSUME UploadsInv, NEW f \in Files, Delete(f)
  PROVE  UploadsInv'
<1> USE DEF UploadsInv, Delete, GetByID
<1>1. f \notin saving
  BY DEF SavingInv
<1>2. SavingInv'
  BY <1>1 DEF SavingInv
<1>3. DeletingInv'
  BY DEF DeletingInv
<1>4. FilesMatchRows'
  BY DEF FilesMatchRows, Readable
<1> QED
  BY <1>2, <1>3, <1>4

(* The row follows its file, and the identifier is as good as new. *)
LEMMA DeleteRowKeeps ==
  ASSUME UploadsInv, NEW f \in Files, DeleteRow(f)
  PROVE  UploadsInv'
<1> USE DEF UploadsInv, DeleteRow
<1>1. f \notin disk /\ f \notin files'
  BY DEF DeletingInv
<1>2. SavingInv'
  BY DEF SavingInv
<1>3. DeletingInv'
  BY DEF DeletingInv
<1>4. FilesMatchRows'
  BY <1>1 DEF FilesMatchRows, GetByID, Readable
<1> QED
  BY <1>2, <1>3, <1>4

(* What is interrupted is spoiled, and neither saved nor deleted. *)
LEMMA InterruptKeeps ==
  ASSUME UploadsInv, NEW f \in Files, Interrupt(f)
  PROVE  UploadsInv'
<1> USE DEF UploadsInv, Interrupt
<1>1. SavingInv'
  BY DEF SavingInv
<1>2. DeletingInv'
  BY DEF DeletingInv
<1>3. FilesMatchRows'
  BY DEF FilesMatchRows, GetByID, Readable
<1> QED
  BY <1>1, <1>2, <1>3

(* Nothing happens to the uploads. *)
LEMMA UploadsStay ==
  ASSUME UploadsInv, UNCHANGED uploadsVars
  PROVE  UploadsInv'
BY DEF UploadsInv, uploadsVars, SavingInv, DeletingInv, FilesMatchRows,
       GetByID, Readable

(* Each step of a request, or none, keeps the invariant. *)
LEMMA NextUploads == UploadsInv /\ [UploadsNext]_uploadsVars => UploadsInv'
<1> SUFFICES ASSUME UploadsInv, [UploadsNext]_uploadsVars
             PROVE  UploadsInv'
  OBVIOUS
<1>1. CASE UploadsNext
  <2> PICK f \in Files : \/ Save(f) \/ Create(f) \/ CreateFails(f)
                         \/ Delete(f) \/ DeleteRow(f) \/ Interrupt(f)
    BY <1>1 DEF UploadsNext
  <2>1. CASE Save(f)
    BY <2>1, SaveKeeps
  <2>2. CASE Create(f)
    BY <2>2, CreateKeeps
  <2>3. CASE CreateFails(f)
    BY <2>3, CreateFailsKeeps
  <2>4. CASE Delete(f)
    BY <2>4, DeleteKeeps
  <2>5. CASE DeleteRow(f)
    BY <2>5, DeleteRowKeeps
  <2>6. CASE Interrupt(f)
    BY <2>6, InterruptKeeps
  <2> QED
    BY <2>1, <2>2, <2>3, <2>4, <2>5, <2>6
<1>2. CASE UNCHANGED uploadsVars
  BY <1>2, UploadsStay
<1> QED
  BY <1>1, <1>2

(* An upload or a deletion that is over, and was not interrupted between its
   two writes, leaves a row with its file or neither: Save of
   fileupload/service.go takes its file back, Delete removes the file and then
   the row. *)
THEOREM RowsHaveTheirFiles == UploadsSpec => []FilesMatchRows
<1>1. UploadsInit => UploadsInv
  BY InitUploads
<1>2. UploadsInv /\ [UploadsNext]_uploadsVars => UploadsInv'
  BY NextUploads
<1>3. UploadsInv => FilesMatchRows
  BY DEF UploadsInv
<1> QED
  BY <1>1, <1>2, <1>3, PTL DEF UploadsSpec
=============================================================================
