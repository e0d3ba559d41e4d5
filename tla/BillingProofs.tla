--------------------------- MODULE BillingProofs ----------------------------
(***************************************************************************)
(* The safety properties of Billing, for any users, plans, visitors and    *)
(* bounds.                                                                 *)
(*                                                                         *)
(* BillingInv is inductive.  What makes the rows follow Stripe is that an  *)
(* event of the newest change of a session is pending until its row has    *)
(* been written from that change: nothing else removes one, for a webhook  *)
(* is answered with 200 only after the UPDATE.  The end of the period is   *)
(* carried by fewer events than the status, which is why FollowInv speaks  *)
(* of it apart.                                                            *)
(***************************************************************************)
EXTENDS Billing, FiniteSetTheorems, SequenceTheorems, TLAPS

(* Each row is of one session, and of the user who will pay it; the id of the
   Stripe subscription is that of the session or not known. *)
RowInv(i) ==
  LET s == rows[i].customer IN
    /\ s \in DOMAIN stripe
    /\ rows[i].user = stripe[s].user
    /\ rows[i].stripeID \in {NotLinked, s}
    /\ rows[i].stripeID # NotLinked => stripe[s].n > 0
RowsInv ==
  /\ \A i \in DOMAIN rows : RowInv(i)
  /\ \A i, j \in DOMAIN rows : rows[i].customer = rows[j].customer => i = j
  /\ \A s \in DOMAIN stripe :
       stripe[s].url => \E i \in DOMAIN rows : rows[i].customer = s

(* A session is open until its first change. *)
StripeInv ==
  /\ \A s \in DOMAIN stripe :
       /\ stripe[s].status = "open" <=> stripe[s].n = 0
       /\ stripe[s].status = "open" => ~ stripe[s].atEnd
       /\ applied[s] <= stripe[s].n
  /\ \A s \in Sessions \ DOMAIN stripe : applied[s] = 0

(* An event tells of a change that was made, the newest one as it is; and
   there is none after the end. *)
EventInv(e) ==
  /\ e.s \in DOMAIN stripe
  /\ 1 <= e.n /\ e.n <= stripe[e.s].n
  /\ e.n = stripe[e.s].n =>
       e.status = stripe[e.s].status /\ e.atEnd = stripe[e.s].atEnd
  /\ e.kind \in {"completed", "paid"} => e.status = "active"
  /\ e.kind = "deleted" => e.status = "canceled" /\ e.n = stripe[e.s].n
EventsInv == \A e \in pending : EventInv(e)

(* A webhook at work has read the row of its session. *)
HookInv(h) ==
  /\ EventInv(h.e)
  /\ rows[h.i].stripeID = h.e.s /\ rows[h.i].customer = h.e.s
  /\ h.row.stripeID = h.e.s /\ h.row.customer = h.e.s
  /\ h.row.user = rows[h.i].user
HooksInv == \A h \in hook : HookInv(h)

(* A cancellation writes the row of a session that has ended. *)
CancelsInv ==
  \A u \in Users : cancel[u] # 0 =>
    /\ rows[cancel[u]].stripeID # NotLinked
    /\ stripe[rows[cancel[u]].stripeID].status = "canceled"

(* The newest change of a session is in its row, or an event of it is
   pending. *)
Newest(e, s) == e.s = s /\ e.n = stripe[s].n
Told(s) == \E e \in pending : Newest(e, s)
EndTold(s) == \E e \in pending : Newest(e, s) /\ e.kind = "updated"
Follows(row, s) ==
  /\ applied[s] = stripe[s].n \/ Told(s)
  /\ applied[s] = stripe[s].n /\ stripe[s].n > 0 => row.status = stripe[s].status
  /\ \/ stripe[s].status = "canceled"
     \/ /\ stripe[s].n <= 1 \/ applied[s] = stripe[s].n
        /\ row.atEnd = stripe[s].atEnd
     \/ EndTold(s)
FollowInv ==
  \A i \in DOMAIN rows :
    rows[i].customer \notin disorder => Follows(rows[i], rows[i].customer)

BillingInv ==
  /\ TypeOK /\ RowsInv /\ StripeInv /\ EventsInv /\ HooksInv /\ CancelsInv
  /\ FollowInv /\ PremiumWasPaid

-----------------------------------------------------------------------------
(* Lemmas about the operators. *)

(* A finite set of numbers has a greatest one.  A smallest set without one
   would still have none after one of its elements was taken away. *)
LEMMA GreatestExists ==
  ASSUME NEW T \in SUBSET Nat, IsFiniteSet(T), T # {}
  PROVE  \E m \in T : \A k \in T : k <= m
<1> DEFINE Greatest(U) == \E m \in U : \A k \in U : k <= m
           Without == {U \in SUBSET T : U # {} /\ ~ Greatest(U)}
<1> SUFFICES ASSUME ~ Greatest(T) PROVE FALSE
  OBVIOUS
<1>1. T \in Without
  OBVIOUS
<1>2. Without \subseteq FiniteSubsetsOf(T)
  BY FS_FiniteSubsetsOfFinite
<1>3. IsWellFoundedOn(StrictSubsetOrdering(T), FiniteSubsetsOf(T))
  BY FS_StrictSubsetOrderingWellFounded
<1>4. PICK U \in Without :
        \A V \in Without : ~ (<<V, U>> \in StrictSubsetOrdering(T))
  <2> HIDE DEF Without
  <2> QED
    BY <1>1, <1>2, <1>3, WFMin
<1>5. PICK x \in U : TRUE
  OBVIOUS
<1> DEFINE V == U \ {x}
<1>6. V \in SUBSET T /\ V # U /\ V \subseteq U /\ U \in SUBSET T
  BY <1>5
<1>7. V \notin Without
  BY <1>4, <1>6 DEF StrictSubsetOrdering
<1>8. x \in Nat /\ \A k \in U : k \in Nat
  BY <1>5, <1>6
<1>9. CASE V = {}
  <2>1. \A k \in U : k <= x
    BY <1>8, <1>9
  <2> QED
    BY <1>5, <2>1
<1>10. CASE Greatest(V)
  <2>1. PICK m \in V : \A k \in V : k <= m
    BY <1>10
  <2>2. CASE x <= m
    <3>1. \A k \in U : k <= m
      BY <2>1, <2>2
    <3> QED
      BY <2>1, <3>1
  <2>3. CASE ~ (x <= m)
    <3>1. \A k \in U : k <= x
      BY <1>8, <2>1, <2>3
    <3> QED
      BY <1>5, <3>1
  <2> QED
    BY <2>2, <2>3
<1> QED
  BY <1>6, <1>7, <1>9, <1>10

Entry == [user : Users, status : StripeStatus, atEnd : BOOLEAN, n : Nat,
          url : BOOLEAN]

(* What the types say of a row. *)
LEMMA RowFacts ==
  ASSUME TypeOK
  PROVE  /\ Len(rows) \in Nat /\ DOMAIN rows = 1..Len(rows)
         /\ \A i \in DOMAIN rows : rows[i] \in Row
         /\ \A i \in DOMAIN rows : i \in Nat /\ i # 0
<1>1. rows \in Seq(Row)
  BY DEF TypeOK
<1>2. /\ Len(rows) \in Nat /\ DOMAIN rows = 1..Len(rows)
      /\ \A i \in 1..Len(rows) : rows[i] \in Row
  <2> HIDE DEF Row
  <2> QED
    BY <1>1, LenProperties, ElementOfSeq
<1> QED
  BY <1>2

(* And of a session. *)
LEMMA SessionFacts ==
  ASSUME TypeOK
  PROVE  /\ stripe \in Seq(Entry)
         /\ Len(stripe) \in Nat /\ DOMAIN stripe = 1..Len(stripe)
         /\ DOMAIN stripe \subseteq Sessions
         /\ \A s \in DOMAIN stripe :
              /\ stripe[s] \in Entry /\ s \in Nat /\ s # NotLinked
              /\ stripe[s].n \in Nat /\ stripe[s].user \in Users
              /\ stripe[s].status \in StripeStatus
              /\ stripe[s].atEnd \in BOOLEAN
<1>1. stripe \in Seq(Entry)
  BY DEF TypeOK, Entry
<1>2. /\ Len(stripe) \in Nat /\ DOMAIN stripe = 1..Len(stripe)
      /\ \A s \in 1..Len(stripe) : stripe[s] \in Entry
  BY <1>1, LenProperties, ElementOfSeq
<1>3. Len(stripe) <= MaxSessions /\ MaxSessions \in Nat
  BY BillingAssumption DEF TypeOK
<1>4. \A s \in 1..Len(stripe) : s \in Sessions /\ s \in Nat /\ s # NotLinked
  BY <1>2, <1>3 DEF Sessions, NotLinked
<1>5. \A s \in DOMAIN stripe :
        /\ stripe[s].n \in Nat /\ stripe[s].user \in Users
        /\ stripe[s].status \in StripeStatus
        /\ stripe[s].atEnd \in BOOLEAN
  BY <1>2 DEF Entry
<1> QED
  BY <1>1, <1>2, <1>4, <1>5

(* The newest row of a user is one of the user's rows. *)
LEMMA NewestRow ==
  ASSUME TypeOK, NEW u, GetSubscriptionByUser(u) # 0
  PROVE  /\ GetSubscriptionByUser(u) \in DOMAIN rows
         /\ rows[GetSubscriptionByUser(u)].user = u
<1> DEFINE mine == {i \in DOMAIN rows : rows[i].user = u}
<1>1. mine # {}
  BY DEF GetSubscriptionByUser
<1>2. mine \in SUBSET Nat /\ IsFiniteSet(mine)
  <2>1. IsFiniteSet(1..Len(rows))
    BY RowFacts, FS_Interval
  <2>2. mine \in SUBSET (1..Len(rows)) /\ mine \in SUBSET Nat
    BY RowFacts
  <2> HIDE DEF mine
  <2> QED
    BY <2>1, <2>2, FS_Subset
<1>3. \E m \in mine : \A k \in mine : k <= m
  <2> HIDE DEF mine
  <2> QED
    BY <1>1, <1>2, GreatestExists
<1>4. GetSubscriptionByUser(u) = CHOOSE i \in mine : \A j \in mine : j <= i
  BY <1>1 DEF GetSubscriptionByUser
<1>5. GetSubscriptionByUser(u) \in mine
  <2> HIDE DEF mine
  <2> QED
    BY <1>3, <1>4
<1> QED
  BY <1>5

(* A change at Stripe: the session counts one more, and its events tell of
   what it now is. *)
LEMMA TellFacts ==
  ASSUME TypeOK, NEW s \in DOMAIN stripe, NEW status \in StripeStatus,
         NEW atEnd \in BOOLEAN, NEW kinds, Tell(s, status, atEnd, kinds)
  PROVE  /\ stripe' \in Seq(Entry) /\ Len(stripe') = Len(stripe)
         /\ DOMAIN stripe' = DOMAIN stripe
         /\ stripe'[s].n = stripe[s].n + 1
         /\ stripe'[s].status = status /\ stripe'[s].atEnd = atEnd
         /\ stripe'[s].user = stripe[s].user /\ stripe'[s].url = stripe[s].url
         /\ \A t \in DOMAIN stripe : t # s => stripe'[t] = stripe[t]
         /\ pending' = pending \union
              {[kind |-> k, s |-> s, status |-> status, atEnd |-> atEnd,
                n |-> stripe[s].n + 1] : k \in kinds}
<1> DEFINE n == stripe[s].n + 1
           entry == [stripe[s] EXCEPT !.status = status, !.atEnd = atEnd, !.n = n]
<1>1. stripe' = [stripe EXCEPT ![s] = entry]
  BY DEF Tell
<1>2. stripe[s] \in Entry /\ n \in Nat
  BY SessionFacts
<1>3. /\ entry \in Entry
      /\ entry.n = n /\ entry.status = status /\ entry.atEnd = atEnd
      /\ entry.user = stripe[s].user /\ entry.url = stripe[s].url
  <2> HIDE DEF n
  <2> QED
    BY <1>2 DEF Entry
<1>4. pending' = pending \union
        {[kind |-> k, s |-> s, status |-> status, atEnd |-> atEnd,
          n |-> n] : k \in kinds}
  BY DEF Tell
<1> HIDE DEF entry
<1>5. /\ stripe' \in Seq(Entry) /\ Len(stripe') = Len(stripe)
      /\ \A t \in 1..Len(stripe) :
           stripe'[t] = IF t = s THEN entry ELSE stripe[t]
  BY <1>1, <1>3, SessionFacts, ExceptSeq
<1>6. DOMAIN stripe' = DOMAIN stripe
  BY <1>1
<1> QED
  BY <1>3, <1>4, <1>5, <1>6, SessionFacts

-----------------------------------------------------------------------------
(* What a change at Stripe keeps.  The session has not ended, and its events
   are those of the change: an invoice makes it active, and the end of the
   period is told by an update unless it is the first payment or the end. *)

Changes(s, status, atEnd, kinds) ==
  /\ stripe[s].status # "canceled"
  /\ status \in StripeStatus \ {"open"} /\ atEnd \in BOOLEAN
  /\ kinds \subseteq Kinds /\ kinds # {}
  /\ kinds \intersect {"completed", "paid"} # {} => status = "active"
  /\ "deleted" \in kinds => status = "canceled"
  /\ \/ status = "canceled"
     \/ "updated" \in kinds
     \/ stripe[s].status = "open" /\ ~ atEnd
  /\ Tell(s, status, atEnd, kinds)

(* A change at Stripe keeps the types: its events are events. *)
LEMMA ChangeTypes ==
  ASSUME TypeOK, NEW s \in DOMAIN stripe, NEW status, NEW atEnd, NEW kinds,
         Changes(s, status, atEnd, kinds), UNCHANGED <<rows, hook, applied,
           disorder, gateway>>,
         cancel' \in [Users -> {0} \union DOMAIN rows]
  PROVE  TypeOK'
<1>1. /\ stripe' \in Seq(Entry) /\ Len(stripe') = Len(stripe)
      /\ pending' = pending \union
           {[kind |-> k, s |-> s, status |-> status, atEnd |-> atEnd,
             n |-> stripe[s].n + 1] : k \in kinds}
  BY TellFacts DEF Changes
<1>2. /\ stripe[s].n + 1 \in Nat /\ s \in Sessions /\ status \in StripeStatus
      /\ kinds \subseteq Kinds /\ atEnd \in BOOLEAN
  BY SessionFacts DEF Changes
<1> DEFINE n == stripe[s].n + 1
<1>3. \A k \in kinds : [kind |-> k, s |-> s, status |-> status, atEnd |-> atEnd,
                        n |-> n] \in Event
  <2> HIDE DEF n
  <2> QED
    BY <1>2 DEF n, Event
<1>4. pending' \subseteq Event
  BY <1>1, <1>3 DEF TypeOK
<1>5. UNCHANGED <<rows, hook, applied, disorder, nats, redis, ask>>
  BY DEF gateway
<1> QED
  BY <1>1, <1>4, <1>5 DEF TypeOK, Entry

(* The events there were are older now, and none was the last. *)
LEMMA ChangeEvents ==
  ASSUME TypeOK, NEW s \in DOMAIN stripe, NEW status, NEW atEnd, NEW kinds,
         Changes(s, status, atEnd, kinds), NEW e, e \in Event, EventInv(e)
  PROVE  EventInv(e)'
<1>1. /\ DOMAIN stripe' = DOMAIN stripe
      /\ stripe'[s].n = stripe[s].n + 1
      /\ \A t \in DOMAIN stripe : t # s => stripe'[t] = stripe[t]
  BY TellFacts DEF Changes
<1>2. e.n \in Nat /\ stripe[e.s].n \in Nat
  BY SessionFacts DEF EventInv, Event
<1>3. CASE e.s # s
  BY <1>1, <1>3 DEF EventInv
<1>4. CASE e.s = s
  <2>1. e.kind # "deleted"
    BY <1>4 DEF EventInv, Changes
  <2>2. e.n # stripe'[s].n /\ e.n <= stripe'[s].n
    BY <1>1, <1>2, <1>4 DEF EventInv
  <2> QED
    BY <1>1, <1>4, <2>1, <2>2 DEF EventInv
<1> QED
  BY <1>3, <1>4

(* The whole invariant: the row of the session now lags behind, but the events
   of the change are pending; a cancellation may come to wait for its write. *)
LEMMA ChangeKeeps ==
  ASSUME BillingInv, NEW s \in DOMAIN stripe, NEW status, NEW atEnd, NEW kinds,
         Changes(s, status, atEnd, kinds), UNCHANGED <<rows, hook, applied,
           disorder, gateway>>,
         cancel' \in [Users -> {0} \union DOMAIN rows],
         \A u \in Users : cancel'[u] # 0 =>
           \/ cancel'[u] = cancel[u]
           \/ /\ rows[cancel'[u]].stripeID = s /\ status = "canceled"
  PROVE  BillingInv'
<1> USE DEF BillingInv
<1>0. TypeOK
  OBVIOUS
<1>1. /\ DOMAIN stripe' = DOMAIN stripe
      /\ stripe'[s].n = stripe[s].n + 1
      /\ stripe'[s].status = status /\ stripe'[s].atEnd = atEnd
      /\ stripe'[s].user = stripe[s].user /\ stripe'[s].url = stripe[s].url
      /\ \A t \in DOMAIN stripe : t # s => stripe'[t] = stripe[t]
      /\ pending' = pending \union
           {[kind |-> k, s |-> s, status |-> status, atEnd |-> atEnd,
             n |-> stripe[s].n + 1] : k \in kinds}
  BY TellFacts DEF Changes
<1>2. /\ stripe[s].n \in Nat /\ s # NotLinked
      /\ \A t \in DOMAIN stripe : /\ t # NotLinked /\ t \in Sessions
                                  /\ stripe[t].n \in Nat /\ stripe'[t].n \in Nat
                                  /\ stripe'[t].n >= stripe[t].n
                                  /\ stripe'[t].user = stripe[t].user
                                  /\ stripe'[t].url = stripe[t].url
  BY <1>1, SessionFacts
<1>3. UNCHANGED <<rows, hook, applied, disorder, nats, redis, ask>>
  BY DEF gateway
<1>4. TypeOK'
  BY <1>0, ChangeTypes
<1>5. RowsInv'
  <2>1. ASSUME NEW i \in DOMAIN rows PROVE RowInv(i)'
    BY <1>1, <1>2, <1>3 DEF RowsInv, RowInv
  <2> QED
    BY <1>1, <1>2, <1>3, <2>1 DEF RowsInv
<1>6. StripeInv'
  <2>1. status # "open"
    BY DEF Changes
  <2>2. \A t \in DOMAIN stripe : applied[t] \in Nat
    BY <1>2 DEF TypeOK
  <2>3. ASSUME NEW t \in DOMAIN stripe
        PROVE  /\ stripe'[t].status = "open" <=> stripe'[t].n = 0
               /\ stripe'[t].status = "open" => ~ stripe'[t].atEnd
               /\ applied[t] <= stripe'[t].n
    BY <1>1, <1>2, <2>1, <2>2 DEF StripeInv
  <2> QED
    BY <1>1, <1>3, <2>3 DEF StripeInv
<1>7. \A e \in Event : EventInv(e) => EventInv(e)'
  BY <1>0, ChangeEvents
<1>8. EventsInv'
  <2> SUFFICES ASSUME NEW e \in pending' PROVE EventInv(e)'
    BY DEF EventsInv
  <2>1. CASE e \in pending
    BY <1>7, <2>1 DEF EventsInv, TypeOK
  <2>2. CASE e \notin pending
    <3>1. PICK k \in kinds : e = [kind |-> k, s |-> s, status |-> status,
                                  atEnd |-> atEnd, n |-> stripe[s].n + 1]
      BY <1>1, <2>2
    <3>2. /\ e.kind = k /\ e.s = s /\ e.status = status /\ e.atEnd = atEnd
          /\ e.n = stripe'[s].n
      BY <1>1, <3>1
    <3>3. 1 <= e.n /\ e.n <= stripe'[s].n
      BY <1>1, <1>2, <3>2
    <3>4. /\ k \in {"completed", "paid"} => status = "active"
          /\ k = "deleted" => status = "canceled"
      BY DEF Changes
    <3> QED
      BY <1>1, <3>2, <3>3, <3>4 DEF EventInv
  <2> QED
    BY <2>1, <2>2
<1>9. HooksInv'
  <2> SUFFICES ASSUME NEW h \in hook PROVE HookInv(h)'
    BY <1>3 DEF HooksInv
  <2>1. h.e \in Event
    BY DEF TypeOK
  <2> QED
    BY <1>3, <1>7, <2>1 DEF HooksInv, HookInv
<1>10. CancelsInv'
  <2> SUFFICES ASSUME NEW u \in Users, cancel'[u] # 0
               PROVE  /\ rows[cancel'[u]].stripeID # NotLinked
                      /\ stripe'[rows[cancel'[u]].stripeID].status = "canceled"
    BY <1>3 DEF CancelsInv
  <2>1. CASE rows[cancel'[u]].stripeID = s /\ status = "canceled"
    BY <1>1, <1>2, <2>1
  <2>2. CASE cancel'[u] = cancel[u]
    <3> DEFINE t == rows[cancel[u]].stripeID
    <3>1. t # NotLinked /\ stripe[t].status = "canceled"
      BY <2>2 DEF CancelsInv
    <3>2. cancel[u] \in DOMAIN rows
      BY <2>2 DEF TypeOK
    <3>3. t \in DOMAIN stripe
      BY <3>1, <3>2 DEF RowsInv, RowInv
    <3>4. t # s
      BY <3>1 DEF Changes
    <3> QED
      BY <1>1, <2>2, <3>1, <3>3, <3>4
  <2> QED
    BY <2>1, <2>2
<1>11. FollowInv'
  <2> SUFFICES ASSUME NEW i \in DOMAIN rows, rows[i].customer \notin disorder
               PROVE  Follows(rows[i], rows[i].customer)'
    BY <1>3 DEF FollowInv
  <2>0. PICK t : t = rows[i].customer
    OBVIOUS
  <2>1. t \in DOMAIN stripe /\ Follows(rows[i], t)
    BY <2>0 DEF FollowInv, RowsInv, RowInv
  <2>2. pending \subseteq pending' /\ UNCHANGED <<rows, applied>>
    BY <1>1, <1>3
  <2>3. CASE t # s
    <3>1. stripe'[t] = stripe[t]
      BY <1>1, <2>1, <2>3
    <3>2. \A e \in pending : Newest(e, t) => Newest(e, t)'
      BY <2>2, <3>1 DEF Newest
    <3>3. (Told(t) => Told(t)') /\ (EndTold(t) => EndTold(t)')
      BY <2>2, <3>2 DEF Told, EndTold
    <3> QED
      BY <2>0, <2>1, <2>2, <3>1, <3>3 DEF Follows
  <2>4. CASE t = s
    <3>1. \A k \in kinds : \E e \in pending' :
            e.kind = k /\ e.s = t /\ e.n = stripe'[t].n
      <4> SUFFICES ASSUME NEW k \in kinds
                   PROVE  \E e \in pending' :
                            e.kind = k /\ e.s = s /\ e.n = stripe[s].n + 1
        BY <1>1, <2>4
      <4> DEFINE e == [kind |-> k, s |-> s, status |-> status,
                       atEnd |-> atEnd, n |-> stripe[s].n + 1]
      <4>1. e \in pending'
        BY <1>1
      <4>2. e.kind = k /\ e.s = s /\ e.n = stripe[s].n + 1
        OBVIOUS
      <4> HIDE DEF e
      <4> QED
        BY <4>1, <4>2
    <3>2. "updated" \in kinds => EndTold(t)'
      BY <3>1 DEF EndTold, Newest
    <3>3. Told(t)'
      <4>1. PICK k \in kinds : TRUE
        BY DEF Changes
      <4> QED
        BY <3>1, <4>1 DEF Told, Newest
    <3>4. applied[s] \in Nat /\ applied[s] <= stripe[s].n
      BY <1>2 DEF StripeInv, TypeOK
    <3>5. applied'[s] # stripe'[s].n
      BY <1>1, <1>2, <2>2, <3>4
    <3>6. \/ stripe'[s].status = "canceled"
          \/ stripe'[s].n <= 1 /\ rows'[i].atEnd = stripe'[s].atEnd
          \/ EndTold(t)'
      <4>1. CASE status = "canceled" \/ "updated" \in kinds
        BY <1>1, <3>2, <4>1
      <4>2. CASE stripe[s].status = "open" /\ ~ atEnd
        <5>1. stripe[s].n = 0 /\ stripe[s].atEnd = FALSE
          BY <4>2, SessionFacts DEF StripeInv
        <5>2. ~ EndTold(t)
          BY <2>4, <5>1 DEF EndTold, Newest, EventsInv, EventInv
        <5>3. rows[i].atEnd = stripe[s].atEnd
          BY <2>1, <2>4, <4>2, <5>2 DEF Follows
        <5>4. atEnd = FALSE
          BY <4>2 DEF Changes
        <5>5. rows'[i].atEnd = stripe'[s].atEnd
          BY <1>1, <2>2, <5>1, <5>3, <5>4, Zenon
        <5>6. stripe'[s].n <= 1
          BY <1>1, <5>1
        <5> QED
          BY <5>5, <5>6
      <4> QED
        BY <4>1, <4>2 DEF Changes
    <3> QED
      BY <2>0, <2>2, <2>4, <3>3, <3>5, <3>6 DEF Follows
  <2> QED
    BY <2>3, <2>4
<1>12. PremiumWasPaid'
  BY <1>1, <1>2, <1>3 DEF PremiumWasPaid
<1> QED
  BY <1>4, <1>5, <1>6, <1>8, <1>9, <1>10, <1>11, <1>12

-----------------------------------------------------------------------------
(* The changes at Stripe, one by one. *)

LEMMA PayKeeps ==
  ASSUME BillingInv, NEW s \in DOMAIN stripe, Pay(s)
  PROVE  BillingInv'
<1> DEFINE kinds == {"completed", "paid"}
<1>1. kinds \subseteq Kinds /\ kinds # {} /\ "deleted" \notin kinds
  BY DEF Kinds
<1>2. /\ Tell(s, "active", FALSE, kinds) /\ stripe[s].status = "open"
      /\ UNCHANGED <<rows, hook, cancel, applied, disorder, gateway>>
  BY DEF Pay, Elsewhere
<1> HIDE DEF kinds
<1>3. Changes(s, "active", FALSE, kinds)
  BY <1>1, <1>2 DEF Changes, StripeStatus
<1> QED
  BY <1>2, <1>3, ChangeKeeps DEF BillingInv, TypeOK

(* An invoice that is paid at last is told twice over. *)
LEMMA RenewKeeps ==
  ASSUME BillingInv, NEW s \in DOMAIN stripe, Renew(s)
  PROVE  BillingInv'
<1> DEFINE kinds == {"paid", "updated"}
<1>1. kinds \subseteq Kinds /\ "updated" \in kinds /\ "deleted" \notin kinds
  BY DEF Kinds
<1>2. /\ Tell(s, "active", stripe[s].atEnd, kinds)
      /\ stripe[s].status # "canceled"
      /\ UNCHANGED <<rows, hook, cancel, applied, disorder, gateway>>
  BY DEF Renew, Elsewhere
<1>3. stripe[s].atEnd \in BOOLEAN
  BY SessionFacts DEF BillingInv
<1> HIDE DEF kinds
<1>4. Changes(s, "active", stripe[s].atEnd, kinds)
  BY <1>1, <1>2, <1>3 DEF Changes, StripeStatus
<1> QED
  BY <1>2, <1>4, ChangeKeeps DEF BillingInv, TypeOK

(* An update alone leaves the session active, past due or unpaid. *)
LEMMA UpdateTold ==
  ASSUME BillingInv, NEW s \in DOMAIN stripe, NEW status, NEW atEnd,
         status \in {"active", "past_due", "unpaid"}, atEnd \in BOOLEAN,
         stripe[s].status # "canceled", Tell(s, status, atEnd, {"updated"}),
         UNCHANGED <<rows, hook, cancel, applied, disorder, gateway>>
  PROVE  BillingInv'
<1> DEFINE kinds == {"updated"}
<1>1. /\ kinds \subseteq Kinds /\ "updated" \in kinds /\ "deleted" \notin kinds
      /\ kinds \intersect {"completed", "paid"} = {}
      /\ Tell(s, status, atEnd, kinds)
  BY DEF Kinds
<1> HIDE DEF kinds
<1>2. Changes(s, status, atEnd, kinds)
  BY <1>1 DEF Changes, StripeStatus
<1> QED
  BY <1>2, ChangeKeeps DEF BillingInv, TypeOK

(* A payment that fails is told by an update. *)
LEMMA PaymentFailsKeeps ==
  ASSUME BillingInv, NEW s \in DOMAIN stripe, PaymentFails(s)
  PROVE  BillingInv'
<1>1. stripe[s].atEnd \in BOOLEAN
  BY SessionFacts DEF BillingInv
<1>2. PICK status \in {"past_due", "unpaid"} :
        Tell(s, status, stripe[s].atEnd, {"updated"})
  BY DEF PaymentFails
<1>3. /\ stripe[s].status # "canceled"
      /\ UNCHANGED <<rows, hook, cancel, applied, disorder, gateway>>
  BY DEF PaymentFails, Elsewhere
<1>4. status \in {"active", "past_due", "unpaid"}
  OBVIOUS
<1> QED
  BY <1>1, <1>2, <1>3, <1>4, UpdateTold

(* So is a user who leaves at the end of the period. *)
LEMMA PortalCancelsKeeps ==
  ASSUME BillingInv, NEW s \in DOMAIN stripe, PortalCancels(s)
  PROVE  BillingInv'
<1>1. PICK status : /\ status = stripe[s].status
                    /\ status \in {"active", "past_due", "unpaid"}
                    /\ status # "canceled"
                    /\ Tell(s, status, TRUE, {"updated"})
  BY DEF PortalCancels
<1>5. PICK atEnd : atEnd = TRUE
  OBVIOUS
<1>2. UNCHANGED <<rows, hook, cancel, applied, disorder, gateway>>
  BY DEF PortalCancels, Elsewhere
<1>3. atEnd \in BOOLEAN /\ Tell(s, status, atEnd, {"updated"})
  BY <1>1, <1>5
<1> QED
  BY <1>1, <1>2, <1>3, UpdateTold

(* The end is told by the one event that says so. *)
LEMMA SubscriptionEndsKeeps ==
  ASSUME BillingInv, NEW s \in DOMAIN stripe, SubscriptionEnds(s)
  PROVE  BillingInv'
<1>1. UNCHANGED <<rows, hook, cancel, applied, disorder, gateway>>
  BY DEF SubscriptionEnds, Elsewhere
<1>2. PICK status, atEnd, kinds :
        status = "canceled" /\ atEnd = FALSE /\ kinds = {"deleted"}
  OBVIOUS
<1>3. Changes(s, status, atEnd, kinds)
  BY <1>2 DEF SubscriptionEnds, Changes, Kinds, StripeStatus
<1> QED
  BY <1>1, <1>3, ChangeKeeps DEF BillingInv, TypeOK

(* A cancellation remembers the row of the session it ended. *)
LEMMA CancelSubscriptionKeeps ==
  ASSUME BillingInv, NEW u \in Users, CancelSubscription(u)
  PROVE  BillingInv'
<1>1. PICK i : i = GetSubscriptionByUser(u)
  OBVIOUS
<1>2. PICK s : s = rows[i].stripeID
  OBVIOUS
<1>3. /\ i # 0 /\ s # NotLinked
      /\ stripe[s].status \in {"active", "past_due", "unpaid"}
      /\ Tell(s, "canceled", FALSE, {"deleted"})
      /\ cancel' = [cancel EXCEPT ![u] = i]
      /\ UNCHANGED <<rows, hook, applied, disorder, gateway>>
  BY <1>1, <1>2 DEF CancelSubscription
<1>4. i \in DOMAIN rows
  BY <1>1, <1>3, NewestRow DEF BillingInv
<1>5. s \in DOMAIN stripe
  BY <1>2, <1>3, <1>4 DEF BillingInv, RowsInv, RowInv
<1>6. PICK status, atEnd, kinds :
        status = "canceled" /\ atEnd = FALSE /\ kinds = {"deleted"}
  OBVIOUS
<1>8. Changes(s, status, atEnd, kinds)
  BY <1>3, <1>6 DEF Changes, Kinds, StripeStatus
<1>7. /\ cancel' \in [Users -> {0} \union DOMAIN rows]
      /\ \A v \in Users : v # u => cancel'[v] = cancel[v]
      /\ cancel'[u] = i
  BY <1>3, <1>4 DEF BillingInv, TypeOK
<1> QED
  BY <1>2, <1>3, <1>5, <1>6, <1>7, <1>8, ChangeKeeps

-----------------------------------------------------------------------------
(* The table. *)

(* Steps that leave the table, Stripe and its events alone. *)
LEMMA TableKept ==
  ASSUME BillingInv, UNCHANGED <<rows, stripe, pending, applied, disorder>>
  PROVE  RowsInv' /\ StripeInv' /\ EventsInv' /\ FollowInv'
<1> USE DEF BillingInv
<1>1. RowsInv'
  BY DEF RowsInv, RowInv
<1>2. StripeInv'
  BY DEF StripeInv
<1>3. EventsInv'
  BY DEF EventsInv, EventInv
<1>4. FollowInv'
  BY DEF FollowInv, Follows, Told, EndTold, Newest
<1> QED
  BY <1>1, <1>2, <1>3, <1>4

(* An UPDATE changes one row, and what that row was written from. *)
LEMMA WriteFacts ==
  ASSUME TypeOK, NEW i \in DOMAIN rows, NEW row \in Row, NEW n \in Nat,
         row.stripeID \in Sessions, UpdateSubscription(i, row, n)
  PROVE  /\ rows' \in Seq(Row) /\ Len(rows') = Len(rows)
         /\ DOMAIN rows' = DOMAIN rows
         /\ rows'[i] = row
         /\ \A j \in DOMAIN rows : j # i => rows'[j] = rows[j]
         /\ applied' \in [Sessions -> Nat]
         /\ applied'[row.stripeID] = n
         /\ \A t \in Sessions : t # row.stripeID => applied'[t] = applied[t]
<1>1. rows' = [rows EXCEPT ![i] = row] /\ rows \in Seq(Row)
  BY DEF UpdateSubscription, TypeOK
<1>2. DOMAIN rows = 1..Len(rows)
  BY RowFacts
<1>3. /\ rows' \in Seq(Row) /\ Len(rows') = Len(rows)
      /\ \A j \in 1..Len(rows) : rows'[j] = IF j = i THEN row ELSE rows[j]
  <2> HIDE DEF Row
  <2> QED
    BY <1>1, <1>2, ExceptSeq
<1>4. DOMAIN rows' = DOMAIN rows
  BY <1>1
<1>5. applied' = [applied EXCEPT ![row.stripeID] = n]
  BY DEF UpdateSubscription
<1>6. /\ applied' \in [Sessions -> Nat]
      /\ applied'[row.stripeID] = n
      /\ \A t \in Sessions : t # row.stripeID => applied'[t] = applied[t]
  BY <1>5 DEF TypeOK
<1> QED
  BY <1>2, <1>3, <1>4, <1>6

(* A row written from a change that was made, which it then follows unless it
   was written out of order, takes events of its own session only. *)
LEMMA WriteKeeps ==
  ASSUME BillingInv, NEW i \in DOMAIN rows, NEW row \in Row, NEW n \in Nat,
         NEW s, s = rows[i].stripeID, s # NotLinked,
         row.stripeID = s, row.customer = s, row.user = rows[i].user,
         n <= stripe[s].n, UpdateSubscription(i, row, n),
         UNCHANGED <<stripe, redis, ask>>,
         hook' \subseteq hook, nats' \subseteq Users,
         pending' \subseteq pending, \A e \in pending \ pending' : e.s = s,
         cancel' \in [Users -> {0} \union DOMAIN rows],
         \A u \in Users : cancel'[u] \in {0, cancel[u]},
         disorder \subseteq disorder', disorder' \subseteq Sessions,
         s \in disorder' \/ Follows(row, s)'
  PROVE  BillingInv'
<1> USE DEF BillingInv
<1>1. /\ s \in DOMAIN stripe /\ rows[i].customer = s /\ RowInv(i)
      /\ s \in Sessions
  BY SessionFacts DEF RowsInv, RowInv
<1>2. /\ rows' \in Seq(Row) /\ Len(rows') = Len(rows)
      /\ DOMAIN rows' = DOMAIN rows
      /\ rows'[i] = row
      /\ \A j \in DOMAIN rows : j # i => rows'[j] = rows[j]
      /\ applied' \in [Sessions -> Nat]
      /\ applied'[s] = n
      /\ \A t \in Sessions : t # s => applied'[t] = applied[t]
  BY <1>1, WriteFacts
<1>3. \A j \in DOMAIN rows : /\ rows'[j].customer = rows[j].customer
                             /\ rows'[j].stripeID = rows[j].stripeID
                             /\ rows'[j].user = rows[j].user
  BY <1>1, <1>2
<1>4. TypeOK'
  BY <1>2 DEF TypeOK
<1>5. RowsInv'
  <2>1. \A j \in DOMAIN rows : RowInv(j)'
    BY <1>3 DEF RowsInv, RowInv
  <2>2. \A j, k \in DOMAIN rows : rows'[j].customer = rows'[k].customer => j = k
    BY <1>3 DEF RowsInv
  <2>3. \A t \in DOMAIN stripe : stripe[t].url =>
          \E j \in DOMAIN rows : rows'[j].customer = t
    <3> SUFFICES ASSUME NEW t \in DOMAIN stripe, stripe[t].url
                 PROVE  \E j \in DOMAIN rows : rows'[j].customer = t
      OBVIOUS
    <3>1. PICK j \in DOMAIN rows : rows[j].customer = t
      BY DEF RowsInv
    <3> QED
      BY <1>3, <3>1
  <2> QED
    BY <1>2, <2>1, <2>2, <2>3 DEF RowsInv
<1>6. StripeInv'
  BY <1>1, <1>2, SessionFacts DEF StripeInv
<1>7. EventsInv'
  BY DEF EventsInv, EventInv
<1>8. HooksInv'
  <2> SUFFICES ASSUME NEW h \in hook PROVE HookInv(h)'
    BY DEF HooksInv
  <2>1. h.i \in DOMAIN rows
    BY DEF TypeOK
  <2>2. EventInv(h.e)'
    BY DEF HooksInv, HookInv, EventInv
  <2> QED
    BY <1>3, <2>1, <2>2 DEF HooksInv, HookInv
<1>9. CancelsInv'
  <2> SUFFICES ASSUME NEW u \in Users, cancel'[u] # 0
               PROVE  /\ rows'[cancel'[u]].stripeID # NotLinked
                      /\ stripe'[rows'[cancel'[u]].stripeID].status = "canceled"
    BY DEF CancelsInv
  <2>1. cancel'[u] = cancel[u] /\ cancel[u] \in DOMAIN rows
    BY DEF TypeOK
  <2> QED
    BY <1>3, <2>1 DEF CancelsInv
<1>10. FollowInv'
  <2> SUFFICES ASSUME NEW j \in DOMAIN rows, rows'[j].customer \notin disorder'
               PROVE  Follows(rows[j], rows[j].customer)'
    BY <1>2 DEF FollowInv
  <2>1. CASE j = i
    <3>1. rows'[j] = row /\ rows'[j].customer = s
      BY <1>1, <1>2, <2>1
    <3> QED
      BY <2>1, <3>1 DEF Follows
  <2>2. CASE j # i
    <3>1. PICK t : t = rows[j].customer
      OBVIOUS
    <3>2. t # s /\ t \in DOMAIN stripe /\ t \in Sessions
      BY <1>1, <2>2, <3>1, SessionFacts DEF RowsInv, RowInv
    <3>3. /\ rows'[j] = rows[j] /\ applied'[t] = applied[t]
          /\ Follows(rows[j], t)
      BY <1>2, <2>2, <3>1, <3>2 DEF FollowInv
    <3>4. (Told(t) => Told(t)') /\ (EndTold(t) => EndTold(t)')
      BY <3>2 DEF Told, EndTold, Newest
    <3> QED
      BY <3>1, <3>3, <3>4 DEF Follows
  <2> QED
    BY <2>1, <2>2
<1>11. PremiumWasPaid'
  BY DEF PremiumWasPaid
<1> QED
  BY <1>4, <1>5, <1>6, <1>7, <1>8, <1>9, <1>10, <1>11

(* A webhook's row is that of its event. *)
LEMMA HookFacts ==
  ASSUME BillingInv, NEW h \in hook
  PROVE  /\ h.i \in DOMAIN rows /\ h.e \in Event /\ h.row \in Row
         /\ HookInv(h) /\ h.e.s \in DOMAIN stripe /\ h.e.s \in Sessions
         /\ h.e.s # NotLinked /\ h.e.n \in Nat /\ h.e.n <= stripe[h.e.s].n
<1>1. h.i \in DOMAIN rows /\ h.e \in Event /\ h.row \in Row /\ HookInv(h)
  BY DEF BillingInv, TypeOK, HooksInv
<1> QED
  BY <1>1, SessionFacts DEF BillingInv, HookInv, EventInv, Event

(* What a handler writes: it touches neither the user nor the session, and
   the fields its event tells of are as the event says. *)
LEMMA WrittenFacts ==
  ASSUME BillingInv, NEW h \in hook, NEW row, row = Written(h.e, h.i, h.row),
         row.status \in Stored
  PROVE  /\ row \in Row
         /\ row.stripeID = h.e.s /\ row.customer = h.e.s
         /\ row.user = rows[h.i].user
         /\ row.status = h.e.status
         /\ h.e.kind = "updated" => row.atEnd = h.e.atEnd
         /\ h.e.kind \in {"completed", "paid"} => row.atEnd = h.row.atEnd
<1>1. /\ h.i \in DOMAIN rows /\ h.e \in Event /\ h.row \in Row
      /\ HookInv(h) /\ h.e.s \in Sessions /\ rows[h.i] \in Row
  BY HookFacts, RowFacts DEF BillingInv
<1>2. /\ h.row.stripeID = h.e.s /\ h.row.customer = h.e.s
      /\ h.row.user = rows[h.i].user /\ rows[h.i].stripeID = h.e.s
      /\ rows[h.i].customer = h.e.s
      /\ h.e.kind \in {"completed", "paid"} => h.e.status = "active"
      /\ h.e.kind = "deleted" => h.e.status = "canceled"
  BY <1>1 DEF HookInv, EventInv
<1>3. h.e.kind \in Kinds /\ h.e.atEnd \in BOOLEAN
  BY <1>1 DEF Event
<1>4. CASE h.e.kind = "completed"
  <2>1. row = HandleCheckoutCompleted(h.row, h.e)
    BY <1>4 DEF Written
  <2> QED
    BY <1>1, <1>2, <1>4, <2>1 DEF HandleCheckoutCompleted, Row, Stored
<1>5. CASE h.e.kind = "paid"
  <2>1. row = HandleInvoicePaid(h.row, h.e)
    BY <1>5 DEF Written
  <2> QED
    BY <1>1, <1>2, <1>5, <2>1 DEF HandleInvoicePaid, Row, Stored
<1>6. CASE h.e.kind = "updated"
  <2>1. row = HandleSubscriptionUpdated(h.row, h.e)
    BY <1>6 DEF Written
  <2>2. row.status = h.e.status
    BY <1>1, <2>1 DEF HandleSubscriptionUpdated, Row
  <2> QED
    BY <1>1, <1>2, <1>3, <1>6, <2>1, <2>2 DEF HandleSubscriptionUpdated, Row
<1>7. CASE h.e.kind = "deleted"
  <2>1. row = MarkCanceled(rows[h.i], FALSE)
    BY <1>7 DEF Written
  <2> QED
    BY <1>1, <1>2, <1>7, <2>1 DEF MarkCanceled, Row, Stored
<1> QED
  BY <1>3, <1>4, <1>5, <1>6, <1>7 DEF Kinds

(* Steps that leave the table, Stripe and its events alone keep the invariant
   when they keep what is about the handlers and the gateway. *)
LEMMA StepsAside ==
  ASSUME BillingInv, UNCHANGED <<rows, stripe, pending, applied, disorder>>,
         TypeOK', HooksInv', CancelsInv', PremiumWasPaid'
  PROVE  BillingInv'
BY TableKept DEF BillingInv

(* The row of a cancellation is written as Stripe left its session, which has
   ended; so it stays, whatever webhooks have written meanwhile. *)
LEMMA StoreCancelKeeps ==
  ASSUME BillingInv, NEW u \in Users, StoreCancel(u)
  PROVE  BillingInv'
<1>1. PICK i : i = cancel[u]
  OBVIOUS
<1>2. PICK s : s = rows[i].stripeID
  OBVIOUS
<1>3. PICK row : row = MarkCanceled(rows[i], TRUE)
  OBVIOUS
<1>4. PICK n : n = stripe[s].n
  OBVIOUS
<1>5. /\ i # 0 /\ UpdateSubscription(i, row, n)
      /\ cancel' = [cancel EXCEPT ![u] = 0]
      /\ UNCHANGED <<stripe, pending, hook, disorder, gateway>>
  BY <1>1, <1>2, <1>3, <1>4 DEF StoreCancel
<1>6. i \in DOMAIN rows /\ rows[i] \in Row
  BY <1>1, <1>5, RowFacts DEF BillingInv, TypeOK
<1>7. s # NotLinked /\ stripe[s].status = "canceled"
  BY <1>1, <1>2, <1>5 DEF BillingInv, CancelsInv
<1>8. s \in DOMAIN stripe /\ rows[i].customer = s /\ rows[i].stripeID = s
  BY <1>2, <1>6, <1>7 DEF BillingInv, RowsInv, RowInv
<1>9. /\ row \in Row /\ row.stripeID = s /\ row.customer = s
      /\ row.user = rows[i].user /\ row.status = "canceled"
  BY <1>3, <1>6, <1>8 DEF MarkCanceled, Row, Stored
<1>10. n \in Nat /\ n <= stripe[s].n /\ s \in Sessions
  BY <1>4, <1>8, SessionFacts DEF BillingInv
<1>11. UNCHANGED <<nats, redis, ask>>
  BY <1>5 DEF gateway
<1>12. /\ cancel' \in [Users -> {0} \union DOMAIN rows]
       /\ \A v \in Users : cancel'[v] \in {0, cancel[v]}
       /\ nats' \subseteq Users /\ disorder' \subseteq Sessions
  BY <1>5, <1>11 DEF BillingInv, TypeOK
<1>13. applied'[s] = n
  BY <1>5, <1>6, <1>9, <1>10, WriteFacts DEF BillingInv
<1>14. Follows(row, s)'
  BY <1>4, <1>5, <1>7, <1>9, <1>13 DEF Follows
<1> QED
  BY <1>2, <1>5, <1>6, <1>7, <1>9, <1>10, <1>11, <1>12, <1>14, WriteKeeps

(* A cancellation whose write is lost leaves the row to the event of the end,
   which is pending. *)
LEMMA CancelLostKeeps ==
  ASSUME BillingInv, NEW u \in Users, CancelLost(u)
  PROVE  BillingInv'
<1> USE DEF BillingInv
<1>1. /\ cancel' = [cancel EXCEPT ![u] = 0]
      /\ UNCHANGED <<rows, stripe, pending, hook, applied, disorder, nats, redis,
                     ask>>
  BY DEF CancelLost, gateway
<1>2. /\ cancel' \in [Users -> {0} \union DOMAIN rows]
      /\ \A v \in Users : cancel'[v] # 0 => cancel'[v] = cancel[v]
  BY <1>1 DEF TypeOK
<1>3. TypeOK'
  BY <1>1, <1>2 DEF TypeOK
<1>4. HooksInv'
  BY <1>1 DEF HooksInv, HookInv, EventInv
<1>5. CancelsInv'
  BY <1>1, <1>2 DEF CancelsInv
<1>6. PremiumWasPaid'
  BY <1>1 DEF PremiumWasPaid
<1> QED
  BY <1>1, <1>3, <1>4, <1>5, <1>6, StepsAside

(* A webhook reads the row its subscription is linked to, which is the row of
   its session. *)
LEMMA HandleWebhookKeeps ==
  ASSUME BillingInv, NEW e \in pending, HandleWebhook(e)
  PROVE  BillingInv'
<1> USE DEF BillingInv
<1>1. PICK i \in GetSubscriptionByStripeID(e.s) :
        hook' = hook \union {[e |-> e, i |-> i, row |-> rows[i]]}
  BY DEF HandleWebhook
<1>2. UNCHANGED <<rows, applied, disorder, stripe, pending, cancel, nats, redis,
                  ask>>
  BY DEF HandleWebhook, table, gateway
<1>3. i \in DOMAIN rows /\ rows[i].stripeID = e.s /\ rows[i] \in Row
  BY RowFacts DEF GetSubscriptionByStripeID
<1>4. e \in Event /\ EventInv(e) /\ e.s \in DOMAIN stripe /\ e.s # NotLinked
  BY SessionFacts DEF TypeOK, EventsInv, EventInv
<1>5. rows[i].customer = e.s
  BY <1>3, <1>4 DEF RowsInv, RowInv
<1>6. PICK h : h = [e |-> e, i |-> i, row |-> rows[i]]
  OBVIOUS
<1>7. /\ h.e = e /\ h.i = i /\ h.row = rows[i]
      /\ h \in [e : Event, i : DOMAIN rows, row : Row]
  BY <1>3, <1>4, <1>6
<1>8. hook' = hook \union {h}
  BY <1>1, <1>6
<1>9. TypeOK'
  BY <1>2, <1>7, <1>8 DEF TypeOK
<1>10. HookInv(h)
  BY <1>3, <1>4, <1>5, <1>7 DEF HookInv
<1>11. HooksInv'
  <2> SUFFICES ASSUME NEW g \in hook' PROVE HookInv(g)'
    BY DEF HooksInv
  <2>1. HookInv(g)
    BY <1>8, <1>10 DEF HooksInv
  <2> QED
    BY <1>2, <2>1 DEF HookInv, EventInv
<1>12. CancelsInv'
  BY <1>2 DEF CancelsInv
<1>13. PremiumWasPaid'
  BY <1>2 DEF PremiumWasPaid
<1> QED
  BY <1>2, <1>9, <1>11, <1>12, <1>13, StepsAside

(* A webhook that fails is not answered with 200, and its event stays. *)
LEMMA WebhookFailsKeeps ==
  ASSUME BillingInv, NEW h \in hook, WebhookFails(h)
  PROVE  BillingInv'
<1> USE DEF BillingInv
<1>1. /\ hook' = hook \ {h}
      /\ UNCHANGED <<rows, applied, disorder, stripe, pending, cancel, nats,
                     redis, ask>>
  BY DEF WebhookFails, table, gateway
<1>2. TypeOK'
  BY <1>1 DEF TypeOK
<1>3. HooksInv'
  BY <1>1 DEF HooksInv, HookInv, EventInv
<1>4. CancelsInv'
  BY <1>1 DEF CancelsInv
<1>5. PremiumWasPaid'
  BY <1>1 DEF PremiumWasPaid
<1> QED
  BY <1>1, <1>2, <1>3, <1>4, <1>5, StepsAside

(* A webhook that neither came after a newer one nor wrote over a change of
   its row leaves the row following Stripe.  Its event is the newest, or the
   newest is still pending: it is not the one acknowledged. *)
LEMMA StoreWebhookKeeps ==
  ASSUME BillingInv, NEW h \in hook, StoreWebhook(h)
  PROVE  BillingInv'
<1>1. PICK e, i, s, n : e = h.e /\ i = h.i /\ s = e.s /\ n = e.n
  OBVIOUS
<1>2. PICK row : row = Written(e, i, h.row)
  OBVIOUS
<1>3. /\ UpdateSubscription(i, row, n)
      /\ disorder' = IF \/ n < applied[s]
                        \/ e.kind # "deleted" /\ rows[i] # h.row
                     THEN disorder \union {s} ELSE disorder
      /\ PublishSubscriptionChanged(rows[i].user)
      /\ Acknowledge(e)
      /\ hook' = hook \ {h}
      /\ UNCHANGED <<stripe, cancel, redis, ask>>
  BY <1>1, <1>2 DEF StoreWebhook
<1>4. row.status \in Stored
  BY <1>3 DEF UpdateSubscription
<1>5. /\ i \in DOMAIN rows /\ e \in Event /\ h.row \in Row
      /\ s \in DOMAIN stripe /\ s \in Sessions /\ s # NotLinked
      /\ n \in Nat /\ n <= stripe[s].n /\ HookInv(h)
  BY <1>1, HookFacts
<1>6. /\ row \in Row /\ row.stripeID = s /\ row.customer = s
      /\ row.user = rows[i].user /\ row.status = e.status
      /\ e.kind = "updated" => row.atEnd = e.atEnd
      /\ e.kind \in {"completed", "paid"} => row.atEnd = h.row.atEnd
  BY <1>1, <1>2, <1>4, WrittenFacts
<1>7. /\ rows[i].stripeID = s /\ rows[i].customer = s /\ EventInv(e)
  BY <1>1, <1>5 DEF HookInv
<1>8. applied'[s] = n
  BY <1>3, <1>5, <1>6, WriteFacts DEF BillingInv
<1>9. /\ nats' \subseteq Users /\ pending' \subseteq pending
      /\ disorder \subseteq disorder' /\ disorder' \subseteq Sessions
      /\ hook' \subseteq hook
      /\ cancel' \in [Users -> {0} \union DOMAIN rows]
      /\ \A u \in Users : cancel'[u] \in {0, cancel[u]}
      /\ \A f \in pending \ pending' : f = e
  BY <1>3, <1>5, BillingAssumption DEF BillingInv, TypeOK,
     PublishSubscriptionChanged, Acknowledge
<1>10. ASSUME s \notin disorder' PROVE Follows(row, s)'
  <2>1. /\ ~ (n < applied[s])
        /\ e.kind # "deleted" => rows[i] = h.row
        /\ s \notin disorder
    BY <1>3, <1>10
  <2>2. Follows(rows[i], s)
    BY <1>5, <1>7, <2>1 DEF BillingInv, FollowInv
  <2>3. applied[s] \in Nat /\ stripe[s].n \in Nat /\ 1 <= n
    BY <1>1, <1>5, <1>7, SessionFacts DEF BillingInv, TypeOK, EventInv
  <2>4. e.kind \in Kinds
    BY <1>5 DEF Event
  <2>5. stripe' = stripe
    BY <1>3
  <2>6. CASE n = stripe[s].n
    <3>1. row.status = stripe[s].status /\ e.atEnd = stripe[s].atEnd
      BY <1>1, <1>6, <1>7, <2>6 DEF EventInv
    <3>2. \/ stripe[s].status = "canceled"
          \/ row.atEnd = stripe[s].atEnd
          \/ EndTold(s)'
      <4>1. CASE e.kind = "deleted"
        BY <1>7, <3>1, <4>1, <1>6 DEF EventInv
      <4>2. CASE e.kind = "updated"
        BY <1>6, <3>1, <4>2
      <4>3. CASE e.kind \in {"completed", "paid"}
        <5>1. row.atEnd = rows[i].atEnd
          BY <1>6, <2>1, <4>3
        <5>2. EndTold(s) => EndTold(s)'
          BY <1>9, <2>5, <4>3 DEF EndTold, Newest
        <5>3. \/ stripe[s].status = "canceled"
              \/ rows[i].atEnd = stripe[s].atEnd
              \/ EndTold(s)
          BY <2>2 DEF Follows
        <5> QED
          BY <5>1, <5>2, <5>3
      <4> QED
        BY <2>4, <4>1, <4>2, <4>3 DEF Kinds
    <3> QED
      BY <1>8, <2>5, <2>6, <3>1, <3>2 DEF Follows
  <2>7. CASE n # stripe[s].n
    <3>1. applied[s] # stripe[s].n /\ ~ (stripe[s].n <= 1)
      BY <1>5, <2>1, <2>3, <2>7
    <3>2. Told(s)'
      BY <1>1, <1>9, <2>2, <2>5, <2>7, <3>1 DEF Follows, Told, Newest
    <3>3. EndTold(s) => EndTold(s)'
      BY <1>1, <1>9, <2>5, <2>7 DEF EndTold, Newest
    <3>4. stripe[s].status = "canceled" \/ EndTold(s)
      BY <2>2, <3>1 DEF Follows
    <3> QED
      BY <1>8, <2>5, <2>7, <3>2, <3>3, <3>4 DEF Follows
  <2> QED
    BY <2>6, <2>7
<1>11. \A f \in pending \ pending' : f.s = s
  BY <1>1, <1>9
<1>12. UNCHANGED <<stripe, redis, ask>>
  BY <1>3
<1> QED
  BY <1>3, <1>5, <1>6, <1>7, <1>9, <1>10, <1>11, <1>12, WriteKeeps

-----------------------------------------------------------------------------
(* Checkouts and links. *)

(* A checkout adds a session and, unless another row is not linked, its row;
   nobody can pay a session without one. *)
LEMMA CheckoutFacts ==
  ASSUME BillingInv, NEW u \in Users, NEW slug, CreateCheckoutSession(u, slug),
         NEW s, s = Len(stripe) + 1
  PROVE  /\ s \in Sessions \ DOMAIN stripe /\ s \in Nat /\ Len(rows) < s
         /\ stripe' \in Seq(Entry) /\ Len(stripe') = s /\ s <= MaxSessions
         /\ DOMAIN stripe' = DOMAIN stripe \union {s}
         /\ \A t \in DOMAIN stripe : t # s /\ stripe'[t] = stripe[t]
         /\ stripe'[s].user = u /\ stripe'[s].status = "open"
         /\ stripe'[s].n = 0 /\ stripe'[s].atEnd = FALSE
         /\ stripe'[s].url <=> rows' # rows
         /\ rows' = Insert(u, s)
<1>1. /\ stripe \in Seq(Entry) /\ Len(stripe) \in Nat
      /\ DOMAIN stripe = 1..Len(stripe) /\ Len(rows) <= Len(stripe)
      /\ Len(rows) \in Nat
  BY SessionFacts, RowFacts DEF BillingInv, TypeOK
<1> DEFINE entry == [user |-> u, status |-> "open", atEnd |-> FALSE, n |-> 0,
                     url |-> rows' # rows]
<1>2. /\ stripe' = Append(stripe, entry) /\ Len(stripe) < MaxSessions
      /\ rows' = Insert(u, s)
  BY DEF CreateCheckoutSession
<1>3. /\ entry \in Entry /\ entry.user = u /\ entry.status = "open"
      /\ entry.n = 0 /\ entry.atEnd = FALSE
      /\ entry.url <=> rows' # rows
  BY DEF Entry, StripeStatus
<1> HIDE DEF entry
<1>4. /\ stripe' \in Seq(Entry) /\ Len(stripe') = s
      /\ \A t \in 1..Len(stripe) : stripe'[t] = stripe[t]
      /\ stripe'[s] = entry
  BY <1>1, <1>2, <1>3, AppendProperties
<1>5. DOMAIN stripe' = 1..s
  BY <1>4, LenProperties
<1>6. s \in Sessions \ DOMAIN stripe /\ s \in Nat /\ s <= MaxSessions
  BY <1>1, <1>2, BillingAssumption DEF Sessions
<1>7. DOMAIN stripe' = DOMAIN stripe \union {s}
  BY <1>1, <1>5
<1>8. \A t \in DOMAIN stripe : t # s /\ stripe'[t] = stripe[t]
  BY <1>1, <1>4
<1>9. stripe'[s].url <=> rows' # rows
  BY <1>3, <1>4, Zenon
<1>10. /\ stripe'[s].user = u /\ stripe'[s].status = "open"
       /\ stripe'[s].n = 0 /\ stripe'[s].atEnd = FALSE
  BY <1>3, <1>4, Zenon
<1>11. Len(rows) < s
  BY <1>1
<1> QED
  BY <1>2, <1>4, <1>6, <1>7, <1>8, <1>9, <1>10, <1>11

(* The rows there were stay; at most one is added, that of the session. *)
LEMMA InsertFacts ==
  ASSUME TypeOK, NEW u \in Users, NEW s \in Sessions, rows' = Insert(u, s)
  PROVE  /\ rows' \in Seq(Row) /\ Len(rows') <= Len(rows) + 1
         /\ DOMAIN rows \subseteq DOMAIN rows'
         /\ \A i \in DOMAIN rows : rows'[i] = rows[i]
         /\ \A i \in DOMAIN rows' \ DOMAIN rows :
              /\ i = Len(rows) + 1
              /\ rows'[i].user = u /\ rows'[i].customer = s
              /\ rows'[i].stripeID = NotLinked /\ rows'[i].atEnd = FALSE
         /\ rows' # rows => \E i \in DOMAIN rows' : rows'[i].customer = s
<1>1. rows \in Seq(Row) /\ Len(rows) \in Nat /\ DOMAIN rows = 1..Len(rows)
  BY RowFacts DEF TypeOK
<1> DEFINE row == [user |-> u, customer |-> s, stripeID |-> NotLinked,
                   status |-> "incomplete", atEnd |-> FALSE]
<1>2. /\ row \in Row /\ row.user = u /\ row.customer = s
      /\ row.stripeID = NotLinked /\ row.atEnd = FALSE
  BY DEF Row, Stored, NotLinked
<1>3. rows' = rows \/ rows' = Append(rows, row)
  BY DEF Insert
<1> HIDE DEF row
<1>4. CASE rows' = rows
  BY <1>1, <1>4
<1>5. CASE rows' = Append(rows, row)
  <2>1. /\ rows' \in Seq(Row) /\ Len(rows') = Len(rows) + 1
        /\ \A i \in 1..Len(rows) : rows'[i] = rows[i]
        /\ rows'[Len(rows) + 1] = row
    <3> HIDE DEF Row
    <3> QED
      BY <1>1, <1>2, <1>5, AppendProperties
  <2>2. DOMAIN rows' = 1..(Len(rows) + 1)
    <3> HIDE DEF Row
    <3> QED
      BY <2>1, LenProperties
  <2>3. \A i \in DOMAIN rows' \ DOMAIN rows : i = Len(rows) + 1
    BY <1>1, <2>2
  <2>4. DOMAIN rows \subseteq DOMAIN rows' /\ Len(rows) + 1 \in DOMAIN rows'
    BY <1>1, <2>2
  <2>5. \A i \in DOMAIN rows' \ DOMAIN rows : rows'[i] = row
    BY <2>1, <2>3
  <2>6. Len(rows') <= Len(rows) + 1
    BY <1>1, <2>1
  <2>7. \A i \in DOMAIN rows : rows'[i] = rows[i]
    BY <1>1, <2>1
  <2>8. \A i \in DOMAIN rows' \ DOMAIN rows :
          /\ rows'[i].user = u /\ rows'[i].customer = s
          /\ rows'[i].stripeID = NotLinked /\ rows'[i].atEnd = FALSE
    BY <1>2, <2>5, Zenon
  <2>9. \E i \in DOMAIN rows' : rows'[i].customer = s
    BY <1>2, <2>1, <2>4
  <2> HIDE DEF Row
  <2> QED
    BY <2>1, <2>3, <2>4, <2>6, <2>7, <2>8, <2>9
<1> QED
  BY <1>3, <1>4, <1>5

(* A checkout: the row it adds says nothing yet, and nor does its session. *)
LEMMA CheckoutKeeps ==
  ASSUME BillingInv, NEW u \in Users, NEW slug, CreateCheckoutSession(u, slug)
  PROVE  BillingInv'
<1> USE DEF BillingInv
<1>1. PICK s : s = Len(stripe) + 1
  OBVIOUS
<1>2. /\ s \in Sessions \ DOMAIN stripe /\ s \in Nat /\ Len(rows) < s
      /\ stripe' \in Seq(Entry) /\ Len(stripe') = s /\ s <= MaxSessions
      /\ DOMAIN stripe' = DOMAIN stripe \union {s}
      /\ \A t \in DOMAIN stripe : t # s /\ stripe'[t] = stripe[t]
      /\ stripe'[s].user = u /\ stripe'[s].status = "open"
      /\ stripe'[s].n = 0 /\ stripe'[s].atEnd = FALSE
      /\ stripe'[s].url <=> rows' # rows
      /\ rows' = Insert(u, s)
  BY <1>1, CheckoutFacts
<1>3. /\ rows' \in Seq(Row) /\ Len(rows') <= Len(rows) + 1
      /\ DOMAIN rows \subseteq DOMAIN rows'
      /\ \A i \in DOMAIN rows : rows'[i] = rows[i]
      /\ \A i \in DOMAIN rows' \ DOMAIN rows :
           /\ i = Len(rows) + 1
           /\ rows'[i].user = u /\ rows'[i].customer = s
           /\ rows'[i].stripeID = NotLinked /\ rows'[i].atEnd = FALSE
      /\ rows' # rows => \E i \in DOMAIN rows' : rows'[i].customer = s
  <2>1. TypeOK /\ s \in Sessions /\ rows' = Insert(u, s)
    BY <1>2
  <2> HIDE DEF BillingInv
  <2> QED
    BY <2>1, InsertFacts, Zenon
<1>4. UNCHANGED <<pending, hook, cancel, applied, disorder, nats, redis, ask>>
  BY DEF CreateCheckoutSession, gateway
<1>5. TypeOK'
  <2>1. Len(rows') <= Len(stripe')
    <3>1. Len(rows) \in Nat /\ Len(rows') \in Nat
      <4> HIDE DEF Row
      <4> QED
        BY <1>3, RowFacts, LenProperties
    <3> QED
      BY <1>2, <1>3, <3>1
  <2>2. hook' \subseteq [e : Event, i : DOMAIN rows', row : Row]
    BY <1>3, <1>4 DEF TypeOK
  <2>3. cancel' \in [Users -> {0} \union DOMAIN rows']
    BY <1>3, <1>4 DEF TypeOK
  <2> QED
    BY <1>2, <1>3, <1>4, <2>1, <2>2, <2>3 DEF TypeOK, Entry
<1>6. RowsInv'
  <2>1. ASSUME NEW i \in DOMAIN rows PROVE RowInv(i)'
    <3>1. RowInv(i) /\ rows'[i] = rows[i]
      BY <1>3 DEF RowsInv
    <3> QED
      BY <1>2, <3>1 DEF RowInv
  <2>2. ASSUME NEW i \in DOMAIN rows' \ DOMAIN rows PROVE RowInv(i)'
    BY <1>2, <1>3 DEF RowInv
  <2>3. \A i \in DOMAIN rows : rows'[i].customer \in DOMAIN stripe
    BY <1>3 DEF RowsInv, RowInv
  <2>4. ASSUME NEW i \in DOMAIN rows', NEW j \in DOMAIN rows',
               rows'[i].customer = rows'[j].customer
        PROVE  i = j
    BY <1>2, <1>3, <2>3, <2>4 DEF RowsInv
  <2>5. ASSUME NEW t \in DOMAIN stripe', stripe'[t].url
        PROVE  \E i \in DOMAIN rows' : rows'[i].customer = t
    <3>1. CASE t = s
      BY <1>2, <1>3, <2>5, <3>1
    <3>2. CASE t # s
      <4>1. t \in DOMAIN stripe /\ stripe[t].url
        BY <1>2, <2>5, <3>2
      <4>2. PICK i \in DOMAIN rows : rows[i].customer = t
        BY <4>1 DEF RowsInv
      <4> QED
        BY <1>3, <4>2
    <3> QED
      BY <3>1, <3>2
  <2> QED
    BY <2>1, <2>2, <2>4, <2>5 DEF RowsInv
<1>7. StripeInv'
  <2>1. applied[s] = 0
    BY <1>2 DEF StripeInv
  <2>2. ASSUME NEW t \in DOMAIN stripe'
        PROVE  /\ stripe'[t].status = "open" <=> stripe'[t].n = 0
               /\ stripe'[t].status = "open" => ~ stripe'[t].atEnd
               /\ applied[t] <= stripe'[t].n
    <3>1. CASE t = s
      BY <1>2, <2>1, <3>1
    <3>2. CASE t # s
      <4>1. t \in DOMAIN stripe /\ stripe'[t] = stripe[t]
        BY <1>2, <3>2
      <4> QED
        BY <4>1 DEF StripeInv
    <3> QED
      BY <3>1, <3>2
  <2>3. \A t \in Sessions \ DOMAIN stripe' : applied[t] = 0
    BY <1>2 DEF StripeInv
  <2> QED
    BY <1>4, <2>2, <2>3 DEF StripeInv
<1>8. \A e : EventInv(e) => EventInv(e)'
  BY <1>2 DEF EventInv
<1>9. EventsInv'
  BY <1>4, <1>8 DEF EventsInv
<1>10. HooksInv'
  <2> SUFFICES ASSUME NEW h \in hook PROVE HookInv(h)'
    BY <1>4 DEF HooksInv
  <2>1. h.i \in DOMAIN rows /\ HookInv(h)
    BY DEF HooksInv, TypeOK
  <2>2. rows'[h.i] = rows[h.i] /\ EventInv(h.e)'
    BY <1>3, <1>8, <2>1 DEF HookInv
  <2> QED
    BY <2>1, <2>2 DEF HookInv
<1>11. CancelsInv'
  <2> SUFFICES ASSUME NEW v \in Users, cancel[v] # 0
               PROVE  /\ rows'[cancel[v]].stripeID # NotLinked
                      /\ stripe'[rows'[cancel[v]].stripeID].status = "canceled"
    BY <1>4 DEF CancelsInv
  <2>1. cancel[v] \in DOMAIN rows
    BY DEF TypeOK
  <2>2. /\ rows[cancel[v]].stripeID # NotLinked
        /\ stripe[rows[cancel[v]].stripeID].status = "canceled"
    BY DEF CancelsInv
  <2>3. rows[cancel[v]].stripeID \in DOMAIN stripe
    BY <2>1, <2>2 DEF RowsInv, RowInv
  <2> QED
    BY <1>2, <1>3, <2>1, <2>2, <2>3
<1>12. FollowInv'
  <2> SUFFICES ASSUME NEW i \in DOMAIN rows', rows'[i].customer \notin disorder
               PROVE  Follows(rows[i], rows[i].customer)'
    BY <1>4 DEF FollowInv
  <2>1. CASE i \in DOMAIN rows
    <3>1. PICK t : t = rows[i].customer
      OBVIOUS
    <3>2. rows'[i] = rows[i] /\ t \in DOMAIN stripe /\ Follows(rows[i], t)
      BY <1>3, <2>1, <3>1 DEF FollowInv, RowsInv, RowInv
    <3>3. stripe'[t] = stripe[t]
      BY <1>2, <3>2
    <3>4. (Told(t) => Told(t)') /\ (EndTold(t) => EndTold(t)')
      BY <1>4, <3>3 DEF Told, EndTold, Newest
    <3> QED
      BY <1>4, <3>1, <3>2, <3>3, <3>4 DEF Follows
  <2>2. CASE i \notin DOMAIN rows
    <3>1. rows'[i].customer = s /\ rows'[i].atEnd = FALSE
      BY <1>3, <2>2
    <3>2. applied'[s] = 0
      BY <1>2, <1>4 DEF StripeInv
    <3>3. rows'[i].atEnd = stripe'[s].atEnd
      BY <1>2, <3>1, Zenon
    <3>4. stripe'[s].n = 0
      BY <1>2
    <3> QED
      BY <3>1, <3>2, <3>3, <3>4 DEF Follows
  <2> QED
    BY <2>1, <2>2
<1>13. PremiumWasPaid'
  BY <1>2, <1>4 DEF PremiumWasPaid
<1> QED
  BY <1>5, <1>6, <1>7, <1>9, <1>10, <1>11, <1>12, <1>13

(* An operator links a row to the subscription of its own session, which has
   been paid. *)
LEMMA LinkKeeps ==
  ASSUME BillingInv, NEW i \in DOMAIN rows, Link(i)
  PROVE  BillingInv'
<1> USE DEF BillingInv
<1>1. PICK s : s = rows[i].customer
  OBVIOUS
<1>2. /\ rows[i].stripeID = NotLinked /\ stripe[s].status # "open"
      /\ rows' = [rows EXCEPT ![i].stripeID = s]
      /\ UNCHANGED <<stripe, pending, hook, cancel, applied, disorder, nats,
                     redis, ask>>
  BY <1>1 DEF Link, gateway
<1>3. /\ s \in DOMAIN stripe /\ s \in Sessions /\ stripe[s].n \in Nat
      /\ s # NotLinked /\ RowInv(i) /\ rows[i] \in Row
      /\ rows \in Seq(Row) /\ DOMAIN rows = 1..Len(rows)
  BY <1>1, RowFacts, SessionFacts DEF RowsInv, RowInv, TypeOK
<1>4. stripe[s].n > 0
  BY <1>2, <1>3 DEF StripeInv
<1>5. PICK row : row = [rows[i] EXCEPT !.stripeID = s]
  OBVIOUS
<1>6. /\ row \in Row /\ row.stripeID = s /\ row.customer = s
      /\ row.user = rows[i].user /\ row.status = rows[i].status
      /\ row.atEnd = rows[i].atEnd
  BY <1>1, <1>3, <1>5 DEF Row
<1>7. rows' = [rows EXCEPT ![i] = row]
  BY <1>2, <1>5
<1>8. /\ rows' \in Seq(Row) /\ Len(rows') = Len(rows)
      /\ \A j \in DOMAIN rows : rows'[j] = IF j = i THEN row ELSE rows[j]
  <2> HIDE DEF Row
  <2> QED
    BY <1>3, <1>6, <1>7, ExceptSeq
<1>9. DOMAIN rows' = DOMAIN rows
  BY <1>7
<1>10. \A j \in DOMAIN rows :
         /\ rows'[j].customer = rows[j].customer
         /\ rows'[j].user = rows[j].user
         /\ rows'[j].status = rows[j].status
         /\ rows'[j].atEnd = rows[j].atEnd
         /\ rows[j].stripeID # NotLinked => rows'[j] = rows[j]
  BY <1>1, <1>2, <1>6, <1>8
<1>11. TypeOK'
  BY <1>2, <1>8, <1>9 DEF TypeOK
<1>12. RowsInv'
  <2>1. ASSUME NEW j \in DOMAIN rows PROVE RowInv(j)'
    <3>1. RowInv(j)
      BY DEF RowsInv
    <3>2. CASE j = i
      BY <1>1, <1>2, <1>3, <1>4, <1>6, <1>8, <3>1, <3>2 DEF RowInv
    <3>3. CASE j # i
      BY <1>2, <1>8, <3>1, <3>3 DEF RowInv
    <3> QED
      BY <3>2, <3>3
  <2>2. ASSUME NEW t \in DOMAIN stripe, stripe[t].url
        PROVE  \E j \in DOMAIN rows : rows'[j].customer = t
    <3>1. PICK j \in DOMAIN rows : rows[j].customer = t
      BY <2>2 DEF RowsInv
    <3> QED
      BY <1>10, <3>1
  <2>3. \A j, k \in DOMAIN rows : rows'[j].customer = rows'[k].customer => j = k
    BY <1>10 DEF RowsInv
  <2> QED
    BY <1>2, <1>9, <2>1, <2>2, <2>3 DEF RowsInv
<1>13. StripeInv' /\ EventsInv'
  BY <1>2 DEF StripeInv, EventsInv, EventInv
<1>14. HooksInv'
  <2> SUFFICES ASSUME NEW h \in hook PROVE HookInv(h)'
    BY <1>2 DEF HooksInv
  <2>1. h.i \in DOMAIN rows /\ HookInv(h) /\ h.e.s # NotLinked
    BY HookFacts
  <2>2. rows'[h.i] = rows[h.i]
    BY <1>10, <2>1 DEF HookInv
  <2> QED
    BY <1>2, <2>1, <2>2 DEF HookInv, EventInv
<1>15. CancelsInv'
  <2> SUFFICES ASSUME NEW v \in Users, cancel[v] # 0
               PROVE  /\ rows'[cancel[v]].stripeID # NotLinked
                      /\ stripe'[rows'[cancel[v]].stripeID].status = "canceled"
    BY <1>2 DEF CancelsInv
  <2>1. cancel[v] \in DOMAIN rows
    BY DEF TypeOK
  <2> QED
    BY <1>2, <1>10, <2>1 DEF CancelsInv
<1>16. FollowInv'
  <2> SUFFICES ASSUME NEW j \in DOMAIN rows, rows'[j].customer \notin disorder
               PROVE  Follows(rows[j], rows[j].customer)'
    BY <1>2, <1>9 DEF FollowInv
  <2>1. PICK t : t = rows[j].customer
    OBVIOUS
  <2>2. /\ rows'[j].customer = t /\ rows'[j].status = rows[j].status
        /\ rows'[j].atEnd = rows[j].atEnd /\ Follows(rows[j], t)
    BY <1>10, <2>1 DEF FollowInv
  <2>3. (Told(t) => Told(t)') /\ (EndTold(t) => EndTold(t)')
    BY <1>2 DEF Told, EndTold, Newest
  <2> QED
    BY <1>2, <2>2, <2>3 DEF Follows
<1>17. PremiumWasPaid'
  BY <1>2 DEF PremiumWasPaid
<1> QED
  BY <1>11, <1>12, <1>13, <1>14, <1>15, <1>16, <1>17

-----------------------------------------------------------------------------
(* The gateway. *)

(* What keeps the invariant as far as the gateway can disturb it. *)
LEMMA GatewayAside ==
  ASSUME BillingInv, UNCHANGED <<rows, stripe, pending, hook, cancel, applied,
           disorder>>,
         nats' \subseteq Users, redis' \in [Keys -> Tiers \union {Miss}],
         ask' \in [Visitors -> Tiers \union {Idle}], PremiumWasPaid'
  PROVE  BillingInv'
<1> USE DEF BillingInv
<1>1. TypeOK'
  BY DEF TypeOK
<1>2. HooksInv'
  BY DEF HooksInv, HookInv, EventInv
<1>3. CancelsInv'
  BY DEF CancelsInv
<1> QED
  BY <1>1, <1>2, <1>3, StepsAside

(* Every visitor has an entry of its own. *)
LEMMA OwnKeys ==
  /\ \A u \in Visitors : CacheKey(u) \in Keys
  /\ \A u, v \in Visitors : CacheKey(u) = CacheKey(v) => u = v
<1>1. \A u \in Visitors : CacheKey(u) \in Keys
  BY DEF Keys
<1>2. \A u, v \in Visitors : CacheKey(u) = CacheKey(v) => u = v
  BY DEF CacheKey
<1> QED
  BY <1>1, <1>2

(* The database grants the premium tier for a row that is linked, and only a
   session that has been paid is. *)
LEMMA GrantedWasPaid ==
  ASSUME BillingInv, NEW u, DbTier(u) = "premium"
  PROVE  \E s \in DOMAIN stripe : stripe[s].user = u /\ stripe[s].n > 0
<1> USE DEF BillingInv
<1>1. PICK i : i = GetSubscriptionByUser(u)
  OBVIOUS
<1>2. i # 0 /\ rows[i].stripeID # NotLinked
  BY <1>1 DEF DbTier
<1>3. i \in DOMAIN rows /\ rows[i].user = u
  BY <1>1, <1>2, NewestRow
<1>4. RowInv(i)
  BY <1>3 DEF RowsInv
<1> QED
  BY <1>2, <1>3, <1>4 DEF RowInv

(* A request that has queried the database holds what was granted. *)
LEMMA ResolveTierKeeps ==
  ASSUME BillingInv, NEW u \in Visitors, ResolveTier(u)
  PROVE  BillingInv'
<1>1. PICK tier : tier = DbTier(u)
  OBVIOUS
<1>2. /\ ask' = [ask EXCEPT ![u] = tier]
      /\ UNCHANGED <<rows, stripe, pending, hook, cancel, applied, disorder, nats,
                     redis>>
  BY <1>1 DEF ResolveTier, table
<1>3. tier \in Tiers
  BY <1>1 DEF DbTier, Tiers
<1>4. /\ ask' \in [Visitors -> Tiers \union {Idle}]
      /\ ask'[u] = tier /\ \A v \in Visitors : v # u => ask'[v] = ask[v]
  BY <1>2, <1>3 DEF BillingInv, TypeOK
<1>5. /\ nats' \subseteq Users /\ redis' \in [Keys -> Tiers \union {Miss}]
  BY <1>2 DEF BillingInv, TypeOK
<1>6. PremiumWasPaid'
  <2> SUFFICES ASSUME NEW v \in Visitors,
                      "premium" \in {redis[CacheKey(v)], ask'[v]}
               PROVE  \E s \in DOMAIN stripe :
                        stripe[s].user = v /\ stripe[s].n > 0
    BY <1>2 DEF PremiumWasPaid
  <2>1. CASE "premium" \in {redis[CacheKey(v)], ask[v]}
    BY <2>1 DEF BillingInv, PremiumWasPaid
  <2>2. CASE "premium" \notin {redis[CacheKey(v)], ask[v]}
    <3>1. v = u /\ DbTier(u) = "premium"
      BY <1>1, <1>4, <2>2
    <3> QED
      BY <3>1, GrantedWasPaid
  <2> QED
    BY <2>1, <2>2
<1> QED
  BY <1>2, <1>4, <1>5, <1>6, GatewayAside

(* It stores that under the key of its own user. *)
LEMMA CacheSetKeeps ==
  ASSUME BillingInv, NEW u \in Visitors, CacheSet(u)
  PROVE  BillingInv'
<1>1. PICK key : key = CacheKey(u)
  OBVIOUS
<1>2. PICK tier : tier = ask[u]
  OBVIOUS
<1>3. /\ tier # Idle /\ redis' = [redis EXCEPT ![key] = tier]
      /\ ask' = [ask EXCEPT ![u] = Idle]
      /\ UNCHANGED <<rows, stripe, pending, hook, cancel, applied, disorder, nats>>
  BY <1>1, <1>2 DEF CacheSet, table
<1>4. /\ redis \in [Keys -> Tiers \union {Miss}] /\ tier \in Tiers
      /\ ask \in [Visitors -> Tiers \union {Idle}]
  BY <1>2, <1>3 DEF BillingInv, TypeOK
<1>5. /\ redis' \in [Keys -> Tiers \union {Miss}]
      /\ ask' \in [Visitors -> Tiers \union {Idle}]
      /\ ask'[u] = Idle /\ \A v \in Visitors : v # u => ask'[v] = ask[v]
      /\ redis'[key] = tier
      /\ \A k \in Keys : k # key => redis'[k] = redis[k]
  BY <1>1, <1>3, <1>4, OwnKeys
<1>6. nats' \subseteq Users
  BY <1>3 DEF BillingInv, TypeOK
<1>7. \A v \in Visitors : v # u => redis'[CacheKey(v)] = redis[CacheKey(v)]
  BY <1>1, <1>5, OwnKeys
<1>8. PremiumWasPaid'
  <2> SUFFICES ASSUME NEW v \in Visitors,
                      "premium" \in {redis'[CacheKey(v)], ask'[v]}
               PROVE  \E s \in DOMAIN stripe :
                        stripe[s].user = v /\ stripe[s].n > 0
    BY <1>3 DEF PremiumWasPaid
  <2>1. "premium" \in {redis[CacheKey(v)], ask[v]}
    <3>1. CASE v = u
      <4>1. "premium" # Idle
        BY DEF Idle
      <4> QED
        BY <1>1, <1>2, <1>5, <3>1, <4>1
    <3>2. CASE v # u
      BY <1>5, <1>7, <3>2
    <3> QED
      BY <3>1, <3>2
  <2> QED
    BY <2>1 DEF BillingInv, PremiumWasPaid
<1> QED
  BY <1>3, <1>5, <1>6, <1>8, GatewayAside

(* Entries that go leave only those that were there. *)
LEMMA EntriesGo ==
  ASSUME BillingInv, UNCHANGED <<rows, stripe, pending, hook, cancel, applied,
           disorder, ask>>,
         nats' \subseteq nats, redis' \in [Keys -> Tiers \union {Miss}],
         \A k \in Keys : redis'[k] \in {Miss, redis[k]}
  PROVE  BillingInv'
<1>1. \A u \in Visitors : redis'[CacheKey(u)] \in {Miss, redis[CacheKey(u)]}
  BY OwnKeys
<1>2. PremiumWasPaid'
  BY <1>1 DEF BillingInv, PremiumWasPaid, Miss
<1>3. /\ nats' \subseteq Users
      /\ ask' \in [Visitors -> Tiers \union {Idle}]
  BY DEF BillingInv, TypeOK
<1> QED
  BY <1>2, <1>3, GatewayAside

(* Redis drops an entry. *)
LEMMA ExpiresKeeps ==
  ASSUME BillingInv, NEW u \in Visitors, Expires(u)
  PROVE  BillingInv'
<1>1. PICK key : key = CacheKey(u)
  OBVIOUS
<1>2. /\ redis' = [redis EXCEPT ![key] = Miss]
      /\ UNCHANGED <<rows, stripe, pending, hook, cancel, applied, disorder, nats,
                     ask>>
  BY <1>1 DEF Expires, table
<1>3. /\ redis' \in [Keys -> Tiers \union {Miss}]
      /\ \A k \in Keys : redis'[k] \in {Miss, redis[k]}
  BY <1>2 DEF BillingInv, TypeOK
<1> QED
  BY <1>2, <1>3, EntriesGo

(* A message drops an entry too, though not that of a tier. *)
LEMMA OnSubscriptionChangedKeeps ==
  ASSUME BillingInv, NEW u \in Users, OnSubscriptionChanged(u)
  PROVE  BillingInv'
<1>1. /\ nats' = nats \ {u}
      /\ redis' = [k \in Keys |->
           IF k = InvalidatedKey(u) THEN Miss ELSE redis[k]]
      /\ UNCHANGED <<rows, stripe, pending, hook, cancel, applied, disorder, ask>>
  BY DEF OnSubscriptionChanged, table
<1>2. /\ redis' \in [Keys -> Tiers \union {Miss}]
      /\ \A k \in Keys : redis'[k] \in {Miss, redis[k]}
  BY <1>1 DEF BillingInv, TypeOK
<1> QED
  BY <1>1, <1>2, EntriesGo

(* The portal is opened for the customer of the newest row. *)
LEMMA PortalKeeps ==
  ASSUME BillingInv, NEW u \in Users, HandleStripeCreatePortal(u)
  PROVE  BillingInv'
<1>1. PICK row \in GetSubscription(u) : PortalCancels(row.customer)
  BY DEF HandleStripeCreatePortal, CreatePortalSession
<1>2. PICK i : i = GetSubscriptionByUser(u)
  OBVIOUS
<1>3. i # 0 /\ row = rows[i]
  BY <1>1, <1>2 DEF GetSubscription
<1>4. i \in DOMAIN rows
  BY <1>2, <1>3, NewestRow DEF BillingInv
<1>5. row.customer \in DOMAIN stripe
  BY <1>3, <1>4 DEF BillingInv, RowsInv, RowInv
<1> QED
  BY <1>1, <1>5, PortalCancelsKeeps

-----------------------------------------------------------------------------
(* The specification. *)

LEMMA InitBilling ==
  ASSUME Init
  PROVE  BillingInv
<1> USE DEF Init
<1>1. TypeOK
  <2>1. /\ <<>> \in Seq(Row) /\ Len(<<>>) = 0
    <3> HIDE DEF Row
    <3> QED
      OBVIOUS
  <2>2. /\ stripe \in Seq([user : Users, status : StripeStatus, atEnd : BOOLEAN,
                           n : Nat, url : BOOLEAN])
        /\ Len(stripe) <= MaxSessions
    BY <2>1, BillingAssumption
  <2>3. redis \in [Keys -> Tiers \union {Miss}]
    OBVIOUS
  <2>4. ask \in [Visitors -> Tiers \union {Idle}]
    OBVIOUS
  <2>5. /\ cancel \in [Users -> {0} \union DOMAIN rows]
        /\ applied \in [Sessions -> Nat]
    OBVIOUS
  <2>6. rows \in Seq(Row) /\ Len(rows) <= Len(stripe)
    BY <2>1
  <2> QED
    BY <2>2, <2>3, <2>4, <2>5, <2>6 DEF TypeOK
<1>2. DOMAIN rows = {} /\ DOMAIN stripe = {}
  OBVIOUS
<1>3. RowsInv
  BY <1>2 DEF RowsInv
<1>4. StripeInv
  BY <1>2 DEF StripeInv
<1>5. EventsInv /\ HooksInv
  BY DEF EventsInv, HooksInv
<1>6. CancelsInv
  BY DEF CancelsInv
<1>7. FollowInv
  BY <1>2 DEF FollowInv
<1>8. PremiumWasPaid
  BY OwnKeys DEF PremiumWasPaid, Miss, Idle
<1> QED
  BY <1>1, <1>3, <1>4, <1>5, <1>6, <1>7, <1>8 DEF BillingInv

(* Every step keeps the invariant. *)
LEMMA NextBilling ==
  ASSUME BillingInv, [Next]_vars
  PROVE  BillingInv'
<1>1. CASE \E u \in Users : Request(u)
  <2>1. PICK u \in Users : Request(u)
    BY <1>1
  <2>2. CASE \E slug : CreateCheckoutSession(u, slug)
    BY <2>2, CheckoutKeeps
  <2>3. CASE HandleStripeCreatePortal(u)
    BY <2>3, PortalKeeps
  <2>4. CASE CancelSubscription(u)
    BY <2>4, CancelSubscriptionKeeps
  <2>5. CASE StoreCancel(u)
    BY <2>5, StoreCancelKeeps
  <2>6. CASE CancelLost(u)
    BY <2>6, CancelLostKeeps
  <2> QED
    BY <2>1, <2>2, <2>3, <2>4, <2>5, <2>6 DEF Request, HandleSubscribe,
       HandleStripeCreateCheckout, HandleCreateSubscription, HandleCancel
<1>2. CASE \E u \in Users : OnSubscriptionChanged(u)
  BY <1>2, OnSubscriptionChangedKeeps
<1>3. CASE \E u \in Visitors : Gateway(u)
  BY <1>3, ResolveTierKeeps, CacheSetKeeps, ExpiresKeeps DEF Gateway
<1>4. CASE \E s \in DOMAIN stripe : Stripe(s)
  BY <1>4, PayKeeps, RenewKeeps, PaymentFailsKeeps, SubscriptionEndsKeeps
     DEF Stripe
<1>5. CASE \E i \in DOMAIN rows : Link(i)
  BY <1>5, LinkKeeps
<1>6. CASE \E e \in pending : HandleWebhook(e)
  BY <1>6, HandleWebhookKeeps
<1>7. CASE \E h \in hook : StoreWebhook(h) \/ WebhookFails(h)
  BY <1>7, StoreWebhookKeeps, WebhookFailsKeeps
<1>8. CASE UNCHANGED vars
  <2>1. UNCHANGED <<rows, stripe, pending, hook, cancel, nats, redis, ask, applied,
                    disorder>>
    BY <1>8 DEF vars
  <2>2. /\ redis' \in [Keys -> Tiers \union {Miss}]
        /\ \A k \in Keys : redis'[k] \in {Miss, redis[k]}
    BY <2>1 DEF BillingInv, TypeOK
  <2> QED
    BY <2>1, <2>2, EntriesGo
<1> QED
  BY <1>1, <1>2, <1>3, <1>4, <1>5, <1>6, <1>7, <1>8 DEF Next

(* In every behaviour each session has one row at most, events and handlers
   speak of changes that were made, and rows follow Stripe. *)
THEOREM BillingInvariant == Spec => []BillingInv
<1>1. Init => BillingInv
  BY InitBilling
<1>2. BillingInv /\ [Next]_vars => BillingInv'
  BY NextBilling
<1> QED
  BY <1>1, <1>2, PTL DEF Spec

(* A tier is served as premium only to a user who has paid for one. *)
THEOREM BillingPremium == Spec => []PremiumWasPaid
<1>1. BillingInv => PremiumWasPaid
  BY DEF BillingInv
<1> QED
  BY <1>1, BillingInvariant, PTL

(* A row that nothing is under way for says what Stripe says: an event of the
   newest change would still be pending. *)
LEMMA QuietRows ==
  ASSUME BillingInv
  PROVE  RowFollowsStripe
<1> USE DEF BillingInv
<1> SUFFICES ASSUME NEW i \in DOMAIN rows, NEW s, s = rows[i].stripeID,
                    s # NotLinked, Quiet(s), s \notin disorder
             PROVE  /\ rows[i].status = stripe[s].status
                    /\ rows[i].status = "canceled" \/ rows[i].atEnd = stripe[s].atEnd
  BY DEF RowFollowsStripe
<1>1. RowInv(i)
  BY DEF RowsInv
<1>2. rows[i].customer = s /\ stripe[s].n > 0
  BY <1>1 DEF RowInv
<1>3. Follows(rows[i], s)
  BY <1>2 DEF FollowInv
<1>4. ~ Told(s) /\ ~ EndTold(s)
  BY DEF Quiet, Told, EndTold, Newest
<1>5. rows[i].status = stripe[s].status
  BY <1>2, <1>3, <1>4 DEF Follows
<1>6. stripe[s].status = "canceled" \/ rows[i].atEnd = stripe[s].atEnd
  BY <1>3, <1>4 DEF Follows
<1> QED
  BY <1>5, <1>6

(* The rows are of their types, there is one for every session that can be
   paid, and Stripe's word is in them once nothing is under way. *)
THEOREM BillingRows == Spec => []RowsAreSound
<1>1. BillingInv => RowsAreSound
  <2> SUFFICES ASSUME BillingInv PROVE RowsAreSound
    OBVIOUS
  <2>1. PayableSessionsHaveRows
    <3> SUFFICES ASSUME NEW s \in DOMAIN stripe, stripe[s].url
                 PROVE  \E i \in DOMAIN rows :
                          /\ rows[i].user = stripe[s].user
                          /\ {j \in DOMAIN rows : rows[j].customer = s} = {i}
      BY DEF PayableSessionsHaveRows
    <3>1. PICK i \in DOMAIN rows : rows[i].customer = s
      BY DEF BillingInv, RowsInv
    <3>2. rows[i].user = stripe[s].user
      BY <3>1 DEF BillingInv, RowsInv, RowInv
    <3>3. \A j \in DOMAIN rows : rows[j].customer = s => j = i
      BY <3>1 DEF BillingInv, RowsInv
    <3>4. {j \in DOMAIN rows : rows[j].customer = s} = {i}
      BY <3>1, <3>3
    <3> QED
      BY <3>2, <3>4
  <2> QED
    BY <2>1, QuietRows DEF BillingInv, RowsAreSound
<1> QED
  BY <1>1, BillingInvariant, PTL
=============================================================================
