------------------------------ MODULE Billing -------------------------------
(***************************************************************************)
(* internal/billing and the gateway's tier resolver: what a subscription   *)
(* is worth, from the checkout at Stripe to the X-User-Tier header.        *)
(*                                                                         *)
(* Four parties share the table of subscriptions.  billing-service writes  *)
(* it from a checkout, from a user's cancellation and from Stripe's        *)
(* webhooks, each of which reads the row and writes it whole.  Stripe      *)
(* keeps its own state and tells of it by events that arrive in any order, *)
(* more than once, and until they are answered with 200.  The gateway      *)
(* reads the table through a cache in Redis, and listens on NATS for the   *)
(* users whose entry it should drop.  Nothing in the code stores a Stripe  *)
(* subscription id in a row: Link stands for an operator who does.         *)
(***************************************************************************)
EXTENDS Integers, Sequences, FiniteSets

CONSTANTS
  Users,
  Visitors,        \* bound: users whose requests ask for a tier
  MaxHooks,        \* bound: webhook requests worked on at once
  Priced,          \* slugs of plans with a stripe_price_id
  Unpriced,        \* the other slugs: the price is NULL in every migration
  MaxSessions,     \* bound: checkouts
  MaxChanges,      \* bound: MaxChanges[s] is how often Stripe changes s
  OperatorLinks    \* whether somebody links rows to Stripe by hand

ASSUME BillingAssumption ==
  /\ IsFiniteSet(Users) /\ Visitors \subseteq Users /\ MaxHooks \in Nat
  /\ Priced \intersect Unpriced = {}
  /\ MaxSessions \in Nat /\ MaxChanges \in [1..MaxSessions -> Nat]
  /\ OperatorLinks \in BOOLEAN

VARIABLES
  rows,      \* the table, in the order of created_at
  stripe,    \* Stripe's side: one entry per checkout session
  pending,   \* events Stripe has not had a 200 for
  hook,      \* webhook requests between their read and their write
  cancel,    \* CancelSubscription between Stripe's answer and its UPDATE
  nats,      \* users of subscription.changed messages on their way
  redis,     \* the gateway's keys
  ask,       \* ResolveTier between its query and its Set
  applied,   \* history: newest change of a session its row was written from
  disorder   \* history: sessions whose row was written out of order

vars == <<rows, stripe, pending, hook, cancel, nats, redis, ask, applied,
          disorder>>
table == <<rows, applied, disorder>>
gateway == <<nats, redis, ask>>

Sessions == 1..MaxSessions
NotLinked == 0                       \* stripe_subscription_id = ""
Idle == "idle"
Miss == "miss"
Tiers == {"registered", "premium"}
(* The CHECK on subscriptions.status. *)
Stored == {"active", "past_due", "canceled", "incomplete"}
StripeStatus == {"open", "active", "past_due", "unpaid", "canceled"}
Kinds == {"completed", "paid", "updated", "deleted"}
Row == [user : Users, customer : Sessions,
        stripeID : Sessions \union {NotLinked}, status : Stored,
        atEnd : BOOLEAN]
Event == [kind : Kinds, s : Sessions, status : StripeStatus,
          atEnd : BOOLEAN, n : Nat]

-----------------------------------------------------------------------------
(* The queries of repository_pg.go *)

Plans == Priced \union Unpriced
GetPlanBySlug(slug) == slug \in Plans

(* Mutant: the newest row of anybody. *)
GetSubscriptionOfAnyone(u) == Len(rows)
(* The newest row of the user, whatever its status; 0 when there is none. *)
GetSubscriptionByUser(u) ==
  LET mine == {i \in DOMAIN rows : rows[i].user = u}
  IN  IF mine = {} THEN 0 ELSE CHOOSE i \in mine : \A j \in mine : j <= i

(* The UNIQUE column holds at most one row with the empty id. *)
GetSubscriptionByStripeID(id) == {i \in DOMAIN rows : rows[i].stripeID = id}

(* UPDATE ... WHERE id, with a status the CHECK accepts. *)
UpdateSubscription(i, row, n) ==
  /\ row.status \in Stored
  /\ rows' = [rows EXCEPT ![i] = row]
  /\ applied' = [applied EXCEPT ![row.stripeID] = n]

MarkCanceled(row, atEnd) ==
  [row EXCEPT !.status = "canceled", !.atEnd = atEnd]

-----------------------------------------------------------------------------
(* Checkout *)

Insert(u, s) ==
  IF GetSubscriptionByStripeID(NotLinked) = {}
  THEN Append(rows, [user |-> u, customer |-> s, stripeID |-> NotLinked,
                     status |-> "incomplete", atEnd |-> FALSE])
  ELSE rows

(* The INSERT is refused when another checkout, of any user, has not been
   linked: Stripe's session is open by then, and nobody is given its URL. *)
CreateCheckoutSession(u, slug) ==
  /\ GetPlanBySlug(slug) /\ slug \in Priced
  /\ Len(stripe) < MaxSessions
  /\ LET s == Len(stripe) + 1 IN
       /\ rows' = Insert(u, s)
       /\ stripe' = Append(stripe,
            [user |-> u, status |-> "open", atEnd |-> FALSE, n |-> 0,
             url |-> rows' # rows])
  /\ UNCHANGED <<pending, hook, cancel, applied, disorder, gateway>>

HandleSubscribe(u) ==
  \E slug \in Plans : CreateCheckoutSession(u, slug)

(* The price id is passed on as if it were a slug. *)
HandleStripeCreateCheckout(u) ==
  \E priceId \in Plans : CreateCheckoutSession(u, priceId)

HandleCreateSubscription(u) ==
  \E plan \in Plans : CreateCheckoutSession(u, plan)

-----------------------------------------------------------------------------
(* Stripe (external): a session is paid once, and the subscription then lives
   on its own.  Each change is told by one or more events. *)

Tell(s, status, atEnd, kinds) ==
  LET n == stripe[s].n + 1 IN
    /\ n <= MaxChanges[s]
    /\ stripe' = [stripe EXCEPT ![s] =
         [@ EXCEPT !.status = status, !.atEnd = atEnd, !.n = n]]
    /\ pending' = pending \union
         {[kind |-> k, s |-> s, status |-> status, atEnd |-> atEnd, n |-> n] :
            k \in kinds}

Elsewhere == UNCHANGED <<rows, hook, cancel, applied, disorder, gateway>>

Pay(s) ==
  /\ stripe[s].url /\ stripe[s].status = "open"
  /\ Tell(s, "active", FALSE, {"completed", "paid"})
  /\ Elsewhere

Renew(s) ==
  /\ stripe[s].status \in {"past_due", "unpaid"}
  /\ Tell(s, "active", stripe[s].atEnd, {"paid", "updated"})
  /\ Elsewhere

PaymentFails(s) ==
  /\ stripe[s].status \in {"active", "past_due"}
  /\ \E status \in {"past_due", "unpaid"} \ {stripe[s].status} :
       Tell(s, status, stripe[s].atEnd, {"updated"})
  /\ Elsewhere

(* What a user may do in the portal: leave at the end of the period. *)
PortalCancels(s) ==
  /\ stripe[s].status \in {"active", "past_due"} /\ ~ stripe[s].atEnd
  /\ Tell(s, stripe[s].status, TRUE, {"updated"})
  /\ Elsewhere

SubscriptionEnds(s) ==
  /\ stripe[s].status \in {"active", "past_due", "unpaid"}
  /\ Tell(s, "canceled", FALSE, {"deleted"})
  /\ Elsewhere

(* An operator copies the id of the customer's subscription into the row. *)
Link(i) ==
  /\ OperatorLinks
  /\ rows[i].stripeID = NotLinked
  /\ stripe[rows[i].customer].status # "open"
  /\ rows' = [rows EXCEPT ![i].stripeID = rows[i].customer]
  /\ UNCHANGED <<stripe, pending, hook, cancel, applied, disorder, gateway>>

-----------------------------------------------------------------------------
(* The other handlers of a user *)

(* What a user is shown, and the portal is opened for: the newest row. *)
GetSubscription(u) == LET i == GetSubscriptionByUser(u)
                      IN  {rows[j] : j \in {i} \ {0}}

CreatePortalSession(customer) == PortalCancels(customer)

HandleStripeCreatePortal(u) ==
  \E row \in GetSubscription(u) : CreatePortalSession(row.customer)

(* subscription.Cancel at Stripe; the row is written in a second step. *)
CancelSubscription(u) ==
  LET i == GetSubscriptionByUser(u) IN
    /\ i # 0 /\ rows[i].stripeID # NotLinked
    /\ cancel[u] = 0
    /\ stripe[rows[i].stripeID].status \in {"active", "past_due", "unpaid"}
    /\ Tell(rows[i].stripeID, "canceled", FALSE, {"deleted"})
    /\ cancel' = [cancel EXCEPT ![u] = i]
    /\ UNCHANGED <<rows, hook, applied, disorder, gateway>>

(* Single-statement UPDATE of status and dates; nothing is published. *)
StoreCancel(u) ==
  /\ cancel[u] # 0
  /\ LET i == cancel[u] IN
       UpdateSubscription(i, MarkCanceled(rows[i], TRUE),
                          stripe[rows[i].stripeID].n)
  /\ cancel' = [cancel EXCEPT ![u] = 0]
  /\ UNCHANGED <<stripe, pending, hook, disorder, gateway>>

(* The UPDATE fails or the process dies. *)
CancelLost(u) ==
  /\ cancel[u] # 0
  /\ cancel' = [cancel EXCEPT ![u] = 0]
  /\ UNCHANGED <<rows, stripe, pending, hook, applied, disorder, gateway>>

HandleCancel(u) == CancelSubscription(u) \/ StoreCancel(u) \/ CancelLost(u)

-----------------------------------------------------------------------------
(* Webhooks *)

(* The row is looked up; without one the answer is 400 and the event stays. *)
HandleWebhook(e) ==
  /\ Cardinality(hook) < MaxHooks
  /\ \E i \in GetSubscriptionByStripeID(e.s) :
       hook' = hook \union {[e |-> e, i |-> i, row |-> rows[i]]}
  /\ UNCHANGED <<table, stripe, pending, cancel, gateway>>

(* The row each handler writes, from the row it read. *)
HandleCheckoutCompleted(row, e) ==
  [row EXCEPT !.stripeID = e.s, !.status = "active"]

(* Mutant: the invoice is only logged. *)
HandleInvoicePaidKeeps(row, e) == row

HandleInvoicePaid(row, e) == [row EXCEPT !.status = "active"]

(* Mutant: the status is taken for granted. *)
HandleSubscriptionUpdatedActive(row, e) ==
  [row EXCEPT !.status = "active", !.atEnd = e.atEnd]

HandleSubscriptionUpdated(row, e) ==
  [row EXCEPT !.status = e.status, !.atEnd = e.atEnd]

Written(e, i, row) ==
  CASE e.kind = "completed" -> HandleCheckoutCompleted(row, e)
    [] e.kind = "paid" -> HandleInvoicePaid(row, e)
    [] e.kind = "updated" -> HandleSubscriptionUpdated(row, e)
    [] e.kind = "deleted" -> MarkCanceled(rows[i], FALSE)

(* At most once: a message that is never taken stands for a lost one.  Those
   about users whose requests ask for no tier are left out. *)
PublishSubscriptionChanged(u) == nats' = nats \union ({u} \intersect Visitors)

(* Stripe may miss the 200, or send the event twice. *)
Acknowledge(e) == pending' \in {pending, pending \ {e}}

StoreWebhook(h) ==
  /\ LET e == h.e
         i == h.i
     IN  /\ UpdateSubscription(i, Written(e, i, h.row), e.n)
         /\ disorder' = IF \/ e.n < applied[e.s]
                           \/ e.kind # "deleted" /\ rows[i] # h.row
                        THEN disorder \union {e.s} ELSE disorder
         /\ PublishSubscriptionChanged(rows[i].user)
         /\ Acknowledge(e)
  /\ hook' = hook \ {h}
  /\ UNCHANGED <<stripe, cancel, redis, ask>>

(* The statement fails, or the CHECK refuses the status; the answer is 400. *)
WebhookFails(h) ==
  /\ hook' = hook \ {h}
  /\ UNCHANGED <<table, stripe, pending, cancel, gateway>>

-----------------------------------------------------------------------------
(* The gateway *)

(* cache.Set stores under its prefix; the NATS consumer deletes without. *)
CacheKey(u) == <<"saas", "tier", u>>
InvalidatedKey(u) == <<"tier", u>>
Keys == {CacheKey(u) : u \in Visitors}
          \union {InvalidatedKey(u) : u \in Visitors}

DbTier(u) ==
  LET i == GetSubscriptionByUser(u)
  IN  IF i # 0 /\ rows[i].status = "active" /\ rows[i].stripeID # NotLinked
      THEN "premium" ELSE "registered"

(* A hit is answered as it is; a miss asks the database. *)
ResolveTier(u) ==
  /\ ask[u] = Idle
  /\ redis[CacheKey(u)] = Miss
  /\ ask' = [ask EXCEPT ![u] = DbTier(u)]
  /\ UNCHANGED <<table, stripe, pending, hook, cancel, nats, redis>>

CacheSet(u) ==
  /\ ask[u] # Idle
  /\ redis' = [redis EXCEPT ![CacheKey(u)] = ask[u]]
  /\ ask' = [ask EXCEPT ![u] = Idle]
  /\ UNCHANGED <<table, stripe, pending, hook, cancel, nats>>

(* Mutant: entries live for good. *)
ExpiresNever(u) == FALSE /\ UNCHANGED vars

Expires(u) ==
  /\ redis[CacheKey(u)] # Miss
  /\ redis' = [redis EXCEPT ![CacheKey(u)] = Miss]
  /\ UNCHANGED <<table, stripe, pending, hook, cancel, nats, ask>>

OnSubscriptionChanged(u) ==
  /\ u \in nats
  /\ nats' = nats \ {u}
  /\ redis' = [k \in Keys |-> IF k = InvalidatedKey(u) THEN Miss ELSE redis[k]]
  /\ UNCHANGED <<table, stripe, pending, hook, cancel, ask>>

-----------------------------------------------------------------------------
Init ==
  /\ rows = <<>>
  /\ stripe = <<>>
  /\ pending = {}
  /\ hook = {}
  /\ cancel = [u \in Users |-> 0]
  /\ nats = {}
  /\ redis = [k \in Keys |-> Miss]
  /\ ask = [u \in Visitors |-> Idle]
  /\ applied = [s \in Sessions |-> 0]
  /\ disorder = {}

Request(u) ==
  \/ HandleSubscribe(u)
  \/ HandleStripeCreateCheckout(u)
  \/ HandleCreateSubscription(u)
  \/ HandleStripeCreatePortal(u)
  \/ HandleCancel(u)

Stripe(s) ==
  \/ Pay(s)
  \/ Renew(s)
  \/ PaymentFails(s)
  \/ SubscriptionEnds(s)

Gateway(u) ==
  \/ ResolveTier(u)
  \/ CacheSet(u)
  \/ Expires(u)

Next ==
  \/ \E u \in Users : Request(u) \/ OnSubscriptionChanged(u)
  \/ \E u \in Visitors : Gateway(u)
  \/ \E s \in DOMAIN stripe : Stripe(s)
  \/ \E i \in DOMAIN rows : Link(i)
  \/ \E e \in pending : HandleWebhook(e)
  \/ \E h \in hook : StoreWebhook(h) \/ WebhookFails(h)

Spec == Init /\ [][Next]_vars

(* Redis drops what is older than the ttl, a request that has queried the
   database goes on to store the answer, the operator gets to every row, a
   handler comes to its end, and Stripe repeats an invoice until it is taken
   (one of the deliveries finds the database up). *)
Invoice(s) ==
  \E e \in pending : e.s = s /\ e.kind = "paid" /\ HandleWebhook(e)
StoreInvoice(s) ==
  \E h \in hook : h.e.s = s /\ h.e.kind = "paid" /\ StoreWebhook(h)
HookEnds(k) ==
  \E h \in hook : h.e.kind = k /\ (StoreWebhook(h) \/ WebhookFails(h))
Fairness ==
  /\ \A u \in Visitors : WF_vars(Expires(u)) /\ WF_vars(CacheSet(u))
  /\ \A i \in Sessions : WF_vars(i \in DOMAIN rows /\ Link(i))
  /\ \A k \in Kinds : WF_vars(HookEnds(k))
  /\ \A s \in Sessions : SF_vars(Invoice(s)) /\ SF_vars(StoreInvoice(s))

FairSpec == Spec /\ Fairness

-----------------------------------------------------------------------------
(* The types of the variables. *)
TypeOK ==
  /\ rows \in Seq(Row) /\ Len(rows) <= Len(stripe)
  /\ stripe \in Seq([user : Users, status : StripeStatus, atEnd : BOOLEAN,
                     n : Nat, url : BOOLEAN])
  /\ Len(stripe) <= MaxSessions
  /\ pending \subseteq Event
  /\ hook \subseteq [e : Event, i : DOMAIN rows, row : Row]
  /\ cancel \in [Users -> {0} \union DOMAIN rows]
  /\ nats \subseteq Users
  /\ redis \in [Keys -> Tiers \union {Miss}]
  /\ ask \in [Visitors -> Tiers \union {Idle}]
  /\ applied \in [Sessions -> Nat]
  /\ disorder \subseteq Sessions

(* A user is taken for premium, by the gateway's cache or by a request about
   to fill it, only when that user has paid for a subscription at some time:
   the tier of one user is never served to another, and no unpaid checkout is
   worth anything. *)
PremiumWasPaid ==
  \A u \in Visitors :
    "premium" \in {redis[CacheKey(u)], ask[u]} =>
      \E s \in DOMAIN stripe : stripe[s].user = u /\ stripe[s].n > 0

(* A session that can be paid has exactly one row, of the user who will pay:
   the INSERT comes before the URL is given away. *)
PayableSessionsHaveRows ==
  \A s \in DOMAIN stripe : stripe[s].url =>
    \E i \in DOMAIN rows :
      /\ rows[i].user = stripe[s].user
      /\ {j \in DOMAIN rows : rows[j].customer = s} = {i}

(* Once Stripe has had a 200 for every event of a subscription, and no handler
   is at work on it, its row says what Stripe says, unless a webhook overtook
   a newer one or wrote over a row that had changed since it read it. *)
Quiet(s) ==
  /\ \A e \in pending : e.s # s
  /\ \A h \in hook : h.e.s # s
  /\ \A u \in Users : cancel[u] # 0 => rows[cancel[u]].stripeID # s
RowFollowsStripe ==
  \A i \in DOMAIN rows :
    LET s == rows[i].stripeID IN
      s # NotLinked /\ Quiet(s) /\ s \notin disorder =>
        /\ rows[i].status = stripe[s].status
        /\ rows[i].status = "canceled" \/ rows[i].atEnd = stripe[s].atEnd

(* The rows are of their types, there is one for each session that can be
   paid, and they say what Stripe says. *)
RowsAreSound == TypeOK /\ PayableSessionsHaveRows /\ RowFollowsStripe

(* A subscription that Stripe holds active is recorded as active sooner or
   later, unless it stops being active first or its events were handled out of
   order: the webhooks that come before the row is linked are repeated. *)
IsActive(s) == s \in DOMAIN stripe /\ stripe[s].status = "active"
IsRecorded(s) ==
  \E i \in DOMAIN rows : rows[i].stripeID = s /\ rows[i].status = "active"
PaidIsRecorded ==
  \A s \in Sessions :
    IsActive(s) ~> (~ IsActive(s) \/ s \in disorder \/ IsRecorded(s))

(* A tier that the database no longer grants leaves the cache, although no
   message ever removes it: the ttl is all there is. *)
StaleTierLeaves ==
  \A u \in Visitors :
    (redis[CacheKey(u)] = "premium" /\ DbTier(u) # "premium")
      ~> (redis[CacheKey(u)] # "premium" \/ DbTier(u) = "premium")
=============================================================================
