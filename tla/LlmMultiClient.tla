--------------------------- MODULE LlmMultiClient ---------------------------
(***************************************************************************)
(* pkg/llm/multiclient.go: the router in front of the language-model       *)
(* providers, with its per-provider circuit breaker, and the two things    *)
(* that drive it: provider.LoadAll, which registers the providers of the   *)
(* database when agent-service starts, and the health-check goroutine.     *)
(*                                                                         *)
(* Any number of goroutines are inside Stream or Complete at once.  Both   *)
(* take a snapshot of the provider names under the lock and then work      *)
(* through it with the lock released: the Enabled flag is read at the      *)
(* moment a provider's turn comes, the client is called with no lock held, *)
(* and the outcome is recorded in a later critical section.                *)
(***************************************************************************)
EXTENDS Integers, FiniteSets, Sequences

CONSTANTS
  Providers,                \* names of the active rows of ai_providers
  Models,                   \* model ids
  Calls,                    \* goroutines that call Stream or Complete
  Serves,                   \* Serves[p]: active models of p in the database
  Weight,                   \* Weight[p]: the priority column
  CircuitBreakerThreshold,  \* multiclient.go: 3
  NoModel,                  \* req.Model = ""
  NoProvider                \* a model that is not a key of modelMap

ASSUME ConstantsAssumption ==
  /\ IsFiniteSet(Providers)
  /\ IsFiniteSet(Calls)
  /\ Serves \in [Providers -> SUBSET Models]
  /\ Weight \in [Providers -> Int]
  /\ CircuitBreakerThreshold \in Nat \ {0}
  /\ NoModel \notin Models
  /\ NoProvider \notin Providers

VARIABLES
  toLoad,         \* providers LoadAll has not come to yet
  registered,     \* DOMAIN mc.providers
  enabled,        \* providers whose ProviderConfig.Enabled is true
  modelMap,       \* mc.modelMap
  defaults,       \* mc.defaults
  failureCounts,  \* mc.failureCounts
  fallbackCount,  \* mc.fallbackCount
  call,           \* the goroutines inside Stream / Complete
  prober,         \* the health-check goroutine
  healthy,        \* providers whose HealthCheck would succeed now
  steady          \* history: providers enabled ever since a call without
                  \* a model began

vars == <<toLoad, registered, enabled, modelMap, defaults, failureCounts,
          fallbackCount, call, prober, healthy, steady>>

routing == <<registered, modelMap>>

-----------------------------------------------------------------------------
Listed(s) == {s[i] : i \in DOMAIN s}

(* rebuildDefaults: the providers of S once each, by descending weight.  The
   map is walked in no particular order, so equal weights may come out either
   way. *)
Ranked(S) ==
  {s \in [1..Cardinality(S) -> S] :
     /\ Listed(s) = S
     /\ \A i, j \in DOMAIN s : i < j => Weight[s[i]] >= Weight[s[j]]}

RebuildDefaults(S) == defaults' \in Ranked(S)

(* Mutant: the owner of the model first and then everyone else, which is
   the routing the comment in Stream rules out. *)
CandidatesWithFallback(m) ==
  IF m = NoModel THEN defaults
  ELSE IF modelMap[m] # NoProvider
       THEN <<modelMap[m]>> \o SelectSeq(defaults, LAMBDA p : p # modelMap[m])
       ELSE <<>>

(* The providers a request for model m is allowed to use, in order. *)
Candidates(m) ==
  IF m = NoModel THEN defaults
  ELSE IF modelMap[m] # NoProvider THEN <<modelMap[m]>> ELSE <<>>

Trips(n) == n >= CircuitBreakerThreshold

-----------------------------------------------------------------------------
Idle == [pc |-> "idle", model |-> NoModel, names |-> <<>>, failed |-> {}]

Init ==
  /\ toLoad = Providers
  /\ registered = {}
  /\ enabled = {}
  /\ modelMap = [m \in Models |-> NoProvider]
  /\ defaults = <<>>
  /\ failureCounts = [p \in Providers |-> 0]
  /\ fallbackCount = 0
  /\ call = [c \in Calls |-> Idle]
  /\ prober = [pc |-> "idle", todo |-> {}, target |-> NoProvider]
  /\ healthy \in SUBSET Providers
  /\ steady = [c \in Calls |-> {}]

(* Mutant: the client itself is not stored. *)
RegisterForgets(p, ms) ==
  /\ enabled' = enabled \union {p}
  /\ modelMap' = [m \in Models |-> IF m \in ms THEN p ELSE modelMap[m]]
  /\ RebuildDefaults(enabled')
  /\ UNCHANGED registered

(* MultiClient.Register for provider p with the model names ms. *)
Register(p, ms) ==
  /\ registered' = registered \union {p}
  /\ enabled' = enabled \union {p}
  /\ modelMap' = [m \in Models |-> IF m \in ms THEN p ELSE modelMap[m]]
  /\ RebuildDefaults(enabled')

(* One round of LoadAll's loop: a provider whose models cannot be listed,
   which has none active, whose key cannot be decrypted or whose type is
   unknown is skipped; Ollama may keep only some of its models.  Nothing is
   served before LoadAll returns. *)
LoadNext(p) ==
  /\ p \in toLoad
  /\ toLoad' = toLoad \ {p}
  /\ \/ \E ms \in SUBSET Serves[p] \ {{}} : Register(p, ms)
     \/ UNCHANGED <<registered, enabled, modelMap, defaults>>
  /\ UNCHANGED <<failureCounts, fallbackCount, call, prober, healthy, steady>>

Serving == toLoad = {}

-----------------------------------------------------------------------------
(* Stream / Complete up to the first RUnlock: the snapshot of names. *)
Begin(c, m) ==
  /\ Serving
  /\ call[c].pc \in {"idle", "answered", "failed"}
  /\ call' = [call EXCEPT ![c] =
       [pc |-> IF Candidates(m) = <<>> THEN "failed" ELSE "route",
        model |-> m, names |-> Candidates(m), failed |-> {}]]
  /\ steady' = [steady EXCEPT ![c] = IF m = NoModel THEN enabled ELSE {}]
  /\ UNCHANGED <<toLoad, routing, enabled, defaults, failureCounts,
                 fallbackCount, prober, healthy>>

(* Mutant: a turn that does not look at Enabled. *)
DispatchUnchecked(c) ==
  /\ call[c].pc = "route"
  /\ call[c].names # <<>>
  /\ call' = [call EXCEPT ![c].pc = "calling"]
  /\ UNCHANGED <<toLoad, routing, enabled, defaults, failureCounts,
                 fallbackCount, prober, healthy, steady>>

(* The turn of the next name: its config is looked up and Enabled is read,
   both without the lock that guards writes to Enabled. *)
Dispatch(c) ==
  /\ call[c].pc = "route"
  /\ call[c].names # <<>>
  /\ IF Head(call[c].names) \in registered \cap enabled
     THEN call' = [call EXCEPT ![c].pc = "calling"]
     ELSE call' = [call EXCEPT ![c].names = Tail(@)]
  /\ UNCHANGED <<toLoad, routing, enabled, defaults, failureCounts,
                 fallbackCount, prober, healthy, steady>>

(* No name is left: "all providers failed" or "no available providers". *)
GiveUp(c) ==
  /\ call[c].pc = "route"
  /\ call[c].names = <<>>
  /\ call' = [call EXCEPT ![c].pc = "failed"]
  /\ UNCHANGED <<toLoad, routing, enabled, defaults, failureCounts,
                 fallbackCount, prober, healthy, steady>>

(* recordFailure, under the lock. *)
RecordFailure(p) ==
  /\ failureCounts' = [failureCounts EXCEPT ![p] = @ + 1]
  /\ IF Trips(failureCounts'[p])
     THEN /\ enabled' = enabled \ {p}
          /\ RebuildDefaults(enabled')
     ELSE UNCHANGED <<enabled, defaults>>

(* Mutant: the loop returns on the first error. *)
CallFailsAndReturns(c) ==
  /\ call[c].pc = "calling"
  /\ LET p == Head(call[c].names) IN
       /\ RecordFailure(p)
       /\ call' = [call EXCEPT ![c].pc = "failed", ![c].failed = @ \union {p}]
  /\ steady' = [d \in Calls |-> steady[d] \cap enabled']
  /\ UNCHANGED <<toLoad, routing, fallbackCount, prober, healthy>>

(* Mutant: a failed name is tried again instead of the next one. *)
CallFailsAndRetries(c) ==
  /\ call[c].pc = "calling"
  /\ LET p == Head(call[c].names) IN
       /\ RecordFailure(p)
       /\ call' = [call EXCEPT ![c].pc = "route", ![c].failed = @ \union {p}]
  /\ steady' = [d \in Calls |-> steady[d] \cap enabled']
  /\ UNCHANGED <<toLoad, routing, fallbackCount, prober, healthy>>

(* The client call returned an error: it is recorded and the loop goes on
   with the next name. *)
CallFails(c) ==
  /\ call[c].pc = "calling"
  /\ LET p == Head(call[c].names) IN
       /\ RecordFailure(p)
       /\ call' = [call EXCEPT ![c] =
            [pc |-> "route", model |-> @.model, names |-> Tail(@.names),
             failed |-> @.failed \union {p}]]
  /\ steady' = [d \in Calls |-> steady[d] \cap enabled']
  /\ UNCHANGED <<toLoad, routing, fallbackCount, prober, healthy>>

(* The client call succeeded: resetFailures, under the lock, and the fallback
   counter, which moves when the provider used is not the owner of the model.
   (modelMap is read there without the lock; it is not written any more.) *)
CallSucceeds(c) ==
  /\ call[c].pc = "calling"
  /\ LET m == call[c].model
         used == Head(call[c].names)
     IN /\ failureCounts' = [failureCounts EXCEPT ![used] = 0]
        /\ fallbackCount' =
             IF m \in Models /\ modelMap[m] \notin {NoProvider, used}
             THEN fallbackCount + 1 ELSE fallbackCount
  /\ call' = [call EXCEPT ![c] =
       [pc |-> "answered", model |-> NoModel, names |-> <<>>,
        failed |-> @.failed]]
  /\ steady' = [steady EXCEPT ![c] = {}]
  /\ UNCHANGED <<toLoad, routing, enabled, defaults, prober, healthy>>

(* One goroutine inside Complete; Stream is the same code around the other
   method of the client. *)
CallStep(c) ==
  \/ \E m \in Models \union {NoModel} : Begin(c, m)
  \/ Dispatch(c)
  \/ GiveUp(c)
  \/ CallFails(c)
  \/ CallSucceeds(c)

-----------------------------------------------------------------------------
(* runHealthChecks takes its snapshot when the ticker fires. *)
Tick ==
  /\ Serving
  /\ prober.pc = "idle"
  /\ registered # {}
  /\ prober' = [prober EXCEPT !.pc = "scan", !.todo = registered]
  /\ UNCHANGED <<toLoad, routing, enabled, defaults, failureCounts,
                 fallbackCount, call, healthy, steady>>

(* The loop skips a provider that is enabled when its turn comes ... *)
SkipEnabled(p) ==
  /\ prober.pc = "scan"
  /\ p \in prober.todo \cap enabled
  /\ prober' = [prober EXCEPT !.todo = @ \ {p}]
  /\ UNCHANGED <<toLoad, routing, enabled, defaults, failureCounts,
                 fallbackCount, call, healthy, steady>>

(* ... and re-enables a disabled one whose HealthCheck succeeds.  The probe
   is a call with no lock held, answered or timed out within 10 seconds. *)
StartProbe(p) ==
  /\ prober.pc = "scan"
  /\ p \in prober.todo \ enabled
  /\ prober' = [pc |-> "probe", todo |-> prober.todo \ {p}, target |-> p]
  /\ UNCHANGED <<toLoad, routing, enabled, defaults, failureCounts,
                 fallbackCount, call, healthy, steady>>

(* Mutant: the counter is not cleared with the flag. *)
ReenableKeepsCount(p) ==
  /\ enabled' = enabled \union {p}
  /\ UNCHANGED failureCounts
  /\ RebuildDefaults(enabled')

(* Mutant: the fallback order is not rebuilt. *)
ReenableKeepsDefaults(p) ==
  /\ enabled' = enabled \union {p}
  /\ failureCounts' = [failureCounts EXCEPT ![p] = 0]
  /\ UNCHANGED defaults

Reenable(p) ==
  /\ enabled' = enabled \union {p}
  /\ failureCounts' = [failureCounts EXCEPT ![p] = 0]
  /\ RebuildDefaults(enabled')

(* Mutant: the loop gives the round up when a probe fails. *)
FinishProbeStops(p) ==
  /\ prober.pc = "probe"
  /\ prober.target = p
  /\ IF p \in healthy
     THEN /\ Reenable(p)
          /\ prober' = [prober EXCEPT !.pc = "scan", !.target = NoProvider]
     ELSE UNCHANGED <<enabled, failureCounts, defaults, prober>>
  /\ UNCHANGED <<toLoad, routing, fallbackCount, call, healthy, steady>>

FinishProbe(p) ==
  /\ prober.pc = "probe"
  /\ prober.target = p
  /\ prober' = [prober EXCEPT !.pc = "scan", !.target = NoProvider]
  /\ IF p \in healthy THEN Reenable(p)
     ELSE UNCHANGED <<enabled, failureCounts, defaults>>
  /\ UNCHANGED <<toLoad, routing, fallbackCount, call, healthy, steady>>

EndScan ==
  /\ prober.pc = "scan"
  /\ prober.todo = {}
  /\ prober' = [prober EXCEPT !.pc = "idle"]
  /\ UNCHANGED <<toLoad, routing, enabled, defaults, failureCounts,
                 fallbackCount, call, healthy, steady>>

ProbeStep ==
  \/ Tick
  \/ \E p \in Providers : SkipEnabled(p) \/ StartProbe(p) \/ FinishProbe(p)
  \/ EndScan

(* A provider goes down or comes back. *)
Toggle(p) ==
  /\ healthy' = IF p \in healthy THEN healthy \ {p} ELSE healthy \union {p}
  /\ UNCHANGED <<toLoad, routing, enabled, defaults, failureCounts,
                 fallbackCount, call, prober, steady>>

Next ==
  \/ \E p \in Providers : LoadNext(p)
  \/ \E c \in Calls : CallStep(c)
  \/ ProbeStep
  \/ \E p \in Providers : Toggle(p)

Spec == Init /\ [][Next]_vars

(* The loader runs, the ticker fires and the probe it starts ends within its
   timeout; a call in progress goes on and the client returns.  Nothing is
   said about new requests or about the providers' health. *)
Fairness ==
  /\ WF_vars(\E p \in Providers : LoadNext(p))
  /\ WF_vars(ProbeStep)
  /\ \A c \in Calls :
       /\ WF_vars(Dispatch(c) \/ GiveUp(c))
       /\ WF_vars(CallFails(c) \/ CallSucceeds(c))

FairSpec == Spec /\ Fairness

-----------------------------------------------------------------------------
CallState ==
  [pc : {"idle", "route", "calling", "answered", "failed"},
   model : Models \union {NoModel},
   names : Seq(Providers),
   failed : SUBSET Providers]

BreakerTypeOK ==
  /\ toLoad \in SUBSET Providers
  /\ registered \in SUBSET Providers
  /\ enabled \in SUBSET registered
  /\ modelMap \in [Models -> registered \union {NoProvider}]
  /\ defaults \in Seq(Providers)
  /\ failureCounts \in [Providers -> Nat]
  /\ fallbackCount \in Nat

CallTypeOK ==
  /\ call \in [Calls -> CallState]
  /\ \A c \in Calls : call[c].pc = "calling" => call[c].names # <<>>
  /\ steady \in [Calls -> SUBSET Providers]

ProberTypeOK ==
  /\ prober \in [pc : {"idle", "scan", "probe"}, todo : SUBSET registered,
                 target : registered \union {NoProvider}]
  /\ prober.pc = "probe" => prober.target # NoProvider
  /\ healthy \in SUBSET Providers

(* Every variable holds a value of its type; in particular the flags, the
   routing table and the probes only ever name registered providers. *)
TypeOK == BreakerTypeOK /\ CallTypeOK /\ ProberTypeOK

(* Goroutines whose call to p is out: their outcome is yet to be recorded. *)
InFlight(p) == {c \in Calls : call[c].pc = "calling" /\ Head(call[c].names) = p}

(* rebuildDefaults runs wherever Enabled is written: whatever the order in
   which failures, late answers and probes are recorded, the fallback order is
   the enabled providers, the highest weight first. *)
DefaultsFollowEnabled == defaults \in Ranked(enabled)

(* recordFailure and runHealthChecks against each other: no provider is
   enabled with its failure budget used up.  If one were, requests would keep
   going to a provider the breaker has given up on until one of them failed. *)
OpenCircuitIsDisabled ==
  \A p \in enabled : failureCounts[p] < CircuitBreakerThreshold

(* The breaker caps what a dead provider costs: failures recorded and failures
   still possible never exceed the threshold by more than the goroutines that
   had passed the Enabled test before it was cleared. *)
FailureOvershoot ==
  \A p \in Providers :
    failureCounts[p] + Cardinality(InFlight(p))
      <= CircuitBreakerThreshold - 1 + Cardinality(Calls)

(* multiclient.go:85-88: a request that names a model is sent to the provider
   that owns it and to no other, also after that provider has failed. *)
ExplicitModelStaysWithOwner ==
  \A c \in Calls :
    call[c].pc = "calling" /\ call[c].model # NoModel =>
      Head(call[c].names) = modelMap[call[c].model]

(* The fallback loop of Stream and Complete: a request without a model fails
   only when every provider that stayed enabled from its snapshot to its end
   was tried for it and failed, however the breaker and the probes moved the
   others meanwhile. *)
DefaultCallTriesAllSteady ==
  \A c \in Calls :
    call[c].pc = "failed" /\ call[c].model = NoModel =>
      steady[c] \subseteq call[c].failed

(* The circuit is half-open at the next tick: a registered provider that is up
   for good does not stay disabled, whatever the late outcomes of calls that
   were out when it was disabled. *)
HealthyProviderReturns ==
  \A p \in Providers :
    <>[](p \in healthy) => []<>(p \in registered => p \in enabled)

(* A call inside the loop ends, with an answer or an error: the snapshot makes
   the loop finite even while providers are re-enabled behind it. *)
CallsEnd ==
  \A c \in Calls : call[c].pc = "route" ~> call[c].pc \in {"answered", "failed"}
=============================================================================
