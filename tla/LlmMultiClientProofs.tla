------------------------ MODULE LlmMultiClientProofs ------------------------
(***************************************************************************)
(* The safety properties of LlmMultiClient for any number of providers,    *)
(* models and callers and any threshold.  SafetyInv is inductive: it adds  *)
(* to the properties what a call in progress knows of its snapshot.  With  *)
(* OnceInv, that a snapshot has no name twice, the fallback loop is shown  *)
(* to be finite and to ask no provider twice.                              *)
(***************************************************************************)
EXTENDS LlmMultiClient, FiniteSetTheorems, TLAPS

(* Nothing has failed before loading is over, so a registration never enables
   a provider that has used its budget up. *)
LoadInv ==
  toLoad # {} => \A p \in Providers : failureCounts[p] = 0

(* What a call has left to try.  Calls are made once loading is over; one
   with an explicit model has at most its owner ahead of it; one without a
   model has every provider that stayed enabled ahead of it or behind it as
   a failure. *)
CallInv ==
  \A c \in Calls :
    /\ call[c].pc # "idle" => toLoad = {}
    /\ steady[c] \subseteq enabled
    /\ call[c].pc \in {"route", "calling"} /\ call[c].model # NoModel =>
         call[c].names \in {<<>>, <<modelMap[call[c].model]>>}
    /\ call[c].pc \in {"route", "calling"} /\ call[c].model = NoModel =>
         steady[c] \subseteq call[c].failed \union Listed(call[c].names)

SafetyInv ==
  /\ TypeOK
  /\ DefaultsFollowEnabled
  /\ OpenCircuitIsDisabled
  /\ FailureOvershoot
  /\ LoadInv
  /\ CallInv
  /\ DefaultCallTriesAllSteady

-----------------------------------------------------------------------------
(* A ranking of a set of providers is a sequence of providers. *)
LEMMA RankedIsSeq ==
  ASSUME NEW S \in SUBSET Providers, NEW s \in Ranked(S)
  PROVE  s \in Seq(Providers) /\ Listed(s) = S
<1>1. IsFiniteSet(S)
  BY FS_Subset, ConstantsAssumption
<1>2. Cardinality(S) \in Nat
  BY <1>1, FS_CardinalityType
<1>3. s \in [1..Cardinality(S) -> Providers]
  BY DEF Ranked
<1> QED
  BY <1>2, <1>3 DEF Ranked

(* The head and the tail of the names a call has left. *)
LEMMA HeadTail ==
  ASSUME NEW s \in Seq(Providers), s # <<>>
  PROVE  /\ Head(s) \in Providers
         /\ Tail(s) \in Seq(Providers)
         /\ Listed(s) = {Head(s)} \union Listed(Tail(s))
<1>1. Head(s) \in Providers /\ Tail(s) \in Seq(Providers)
  OBVIOUS
<1>2. ASSUME NEW i \in DOMAIN s
      PROVE  s[i] \in {Head(s)} \union Listed(Tail(s))
  <2>1. CASE i = 1
    BY <2>1
  <2>2. CASE i # 1
    <3>1. i - 1 \in DOMAIN Tail(s) /\ Tail(s)[i - 1] = s[i]
      BY <1>2, <2>2
    <3> QED
      BY <3>1 DEF Listed
  <2> QED
    BY <2>1, <2>2
<1>3. ASSUME NEW i \in DOMAIN Tail(s)
      PROVE  Tail(s)[i] \in Listed(s)
  <2>1. i + 1 \in DOMAIN s /\ Tail(s)[i] = s[i + 1]
    BY <1>3
  <2> QED
    BY <2>1 DEF Listed
<1>4. Head(s) \in Listed(s)
  <2>1. 1 \in DOMAIN s /\ Head(s) = s[1]
    OBVIOUS
  <2> QED
    BY <2>1 DEF Listed
<1> QED
  BY <1>1, <1>2, <1>3, <1>4 DEF Listed

LEMMA TailOfOne == ASSUME NEW x PROVE Tail(<<x>>) = <<>>
OBVIOUS

LEMMA CallsFinite ==
  /\ Cardinality(Calls) \in Nat
  /\ \A S \in SUBSET Calls : /\ IsFiniteSet(S)
                             /\ Cardinality(S) \in Nat
                             /\ Cardinality(S) <= Cardinality(Calls)
BY FS_Subset, FS_CardinalityType, ConstantsAssumption

LEMMA EmptyRanking == <<>> \in Ranked({})
<1>1. Cardinality({}) = 0
  BY FS_EmptySet
<1> QED
  BY <1>1 DEF Ranked, Listed

-----------------------------------------------------------------------------
LEMMA InitSafety == Init => SafetyInv
<1> SUFFICES ASSUME Init PROVE SafetyInv
  OBVIOUS
<1> USE ConstantsAssumption
<1>1. TypeOK
  BY DEF Init, TypeOK, BreakerTypeOK, CallTypeOK, ProberTypeOK, CallState, Idle
<1>2. DefaultsFollowEnabled
  BY EmptyRanking DEF Init, DefaultsFollowEnabled
<1>3. OpenCircuitIsDisabled
  BY DEF Init, OpenCircuitIsDisabled
<1>4. FailureOvershoot
  <2> SUFFICES ASSUME NEW p \in Providers
               PROVE  failureCounts[p] + Cardinality(InFlight(p))
                        <= CircuitBreakerThreshold - 1 + Cardinality(Calls)
    BY DEF FailureOvershoot
  <2>1. InFlight(p) = {}
    BY DEF Init, Idle, InFlight
  <2>2. Cardinality(InFlight(p)) = 0
    BY <2>1, FS_EmptySet
  <2> QED
    BY <2>2, CallsFinite DEF Init
<1>5. LoadInv /\ CallInv /\ DefaultCallTriesAllSteady
  BY DEF Init, Idle, LoadInv, CallInv, DefaultCallTriesAllSteady
<1> QED
  BY <1>1, <1>2, <1>3, <1>4, <1>5 DEF SafetyInv

(* Every step keeps the types. *)
LEMMA NextType == TypeOK /\ DefaultsFollowEnabled /\ [Next]_vars => TypeOK'
<1> SUFFICES ASSUME TypeOK, DefaultsFollowEnabled, [Next]_vars PROVE TypeOK'
  OBVIOUS
<1> USE ConstantsAssumption
<1>a. BreakerTypeOK /\ CallTypeOK /\ ProberTypeOK
  BY DEF TypeOK
<1>1. ASSUME NEW p \in Providers, LoadNext(p) PROVE TypeOK'
  <2>1. BreakerTypeOK' /\ registered \in SUBSET registered'
    <3>1. CASE \E ms \in SUBSET Serves[p] \ {{}} : Register(p, ms)
      <4>1. PICK ms \in SUBSET Serves[p] \ {{}} : Register(p, ms)
        BY <3>1
      <4>2. enabled' \in SUBSET Providers /\ defaults' \in Ranked(enabled')
        BY <1>a, <4>1 DEF Register, RebuildDefaults, BreakerTypeOK
      <4>3. defaults' \in Seq(Providers)
        BY <4>2, RankedIsSeq
      <4>4. modelMap' \in [Models -> registered' \union {NoProvider}]
        BY <1>a, <4>1 DEF Register, BreakerTypeOK
      <4> QED
        BY <1>a, <1>1, <4>1, <4>3, <4>4 DEF LoadNext, Register, BreakerTypeOK
    <3>2. CASE UNCHANGED <<registered, enabled, modelMap, defaults>>
      BY <1>a, <1>1, <3>2 DEF LoadNext, BreakerTypeOK
    <3> QED
      BY <1>1, <3>1, <3>2 DEF LoadNext
  <2>2. CallTypeOK'
    BY <1>a, <1>1 DEF LoadNext, CallTypeOK
  <2>3. ProberTypeOK'
    BY <1>a, <1>1, <2>1 DEF LoadNext, ProberTypeOK
  <2> QED
    BY <2>1, <2>2, <2>3 DEF TypeOK
<1>2. ASSUME NEW c \in Calls, CallStep(c) PROVE TypeOK'
  <2>1. ProberTypeOK'
    <3>1. UNCHANGED <<prober, healthy, registered>>
      BY <1>2 DEF CallStep, Begin, Dispatch, GiveUp, CallFails, CallSucceeds,
                  routing
    <3> QED
      BY <1>a, <3>1 DEF ProberTypeOK
  <2>2. call[c] \in CallState
    BY <1>a DEF CallTypeOK
  <2>3. BreakerTypeOK' /\ CallTypeOK'
    <3>1. ASSUME NEW m \in Models \union {NoModel}, Begin(c, m)
          PROVE  BreakerTypeOK' /\ CallTypeOK'
      <4>1. Candidates(m) \in Seq(Providers)
        BY <1>a DEF Candidates, BreakerTypeOK
      <4>2. BreakerTypeOK'
        BY <1>a, <3>1 DEF Begin, BreakerTypeOK, routing
      <4>3. steady' \in [Calls -> SUBSET Providers]
        BY <1>a, <3>1 DEF Begin, CallTypeOK, BreakerTypeOK
      <4> DEFINE r == [pc |-> IF Candidates(m) = <<>> THEN "failed" ELSE "route",
                       model |-> m, names |-> Candidates(m), failed |-> {}]
      <4>4. r \in CallState /\ r.pc # "calling"
        BY <4>1 DEF CallState
      <4>5. call' = [call EXCEPT ![c] = r]
        BY <3>1 DEF Begin
      <4> HIDE DEF r
      <4> QED
        BY <1>a, <4>2, <4>3, <4>4, <4>5 DEF CallTypeOK
    <3>2. CASE Dispatch(c)
      <4>1. BreakerTypeOK'
        BY <1>a, <3>2 DEF Dispatch, BreakerTypeOK, routing
      <4>2. Tail(call[c].names) \in Seq(Providers)
        BY <2>2, <3>2, HeadTail DEF Dispatch, CallState
      <4>3. UNCHANGED steady
        BY <3>2 DEF Dispatch
      <4>4. CASE call' = [call EXCEPT ![c].pc = "calling"]
        <5>1. [call[c] EXCEPT !.pc = "calling"] \in CallState
          BY <2>2 DEF CallState
        <5>2. call[c].names # <<>>
          BY <3>2 DEF Dispatch
        <5> QED
          BY <1>a, <4>1, <4>3, <4>4, <5>1, <5>2 DEF CallTypeOK
      <4>5. CASE call' = [call EXCEPT ![c].names = Tail(@)]
        <5>1. [call[c] EXCEPT !.names = Tail(call[c].names)] \in CallState
          BY <2>2, <4>2 DEF CallState
        <5>2. call[c].pc = "route"
          BY <3>2 DEF Dispatch
        <5> QED
          BY <1>a, <4>1, <4>3, <4>5, <5>1, <5>2 DEF CallTypeOK
      <4> QED
        BY <3>2, <4>4, <4>5 DEF Dispatch
    <3>3. CASE GiveUp(c)
      <4>1. BreakerTypeOK'
        BY <1>a, <3>3 DEF GiveUp, BreakerTypeOK, routing
      <4>2. [call[c] EXCEPT !.pc = "failed"] \in CallState
        BY <2>2 DEF CallState
      <4>3. call' = [call EXCEPT ![c].pc = "failed"] /\ UNCHANGED steady
        BY <3>3 DEF GiveUp
      <4> QED
        BY <1>a, <4>1, <4>2, <4>3 DEF CallTypeOK
    <3>4. CASE CallFails(c)
      <4> DEFINE p == Head(call[c].names)
      <4>1. /\ p \in Providers
            /\ Tail(call[c].names) \in Seq(Providers)
            /\ RecordFailure(p)
        BY <1>a, <2>2, <3>4, HeadTail DEF CallFails, CallState, CallTypeOK
      <4> DEFINE r == [pc |-> "route", model |-> call[c].model,
                       names |-> Tail(call[c].names),
                       failed |-> call[c].failed \union {p}]
      <4>2. r \in CallState /\ r.pc = "route"
        BY <2>2, <4>1 DEF CallState
      <4>8. call' = [call EXCEPT ![c] = r]
        BY <3>4 DEF CallFails
      <4> HIDE DEF r
      <4>a. failureCounts' \in [Providers -> Nat]
        <5>1. /\ failureCounts \in [Providers -> Nat]
              /\ failureCounts' = [failureCounts EXCEPT ![p] = @ + 1]
          BY <1>a, <4>1 DEF RecordFailure, BreakerTypeOK
        <5> HIDE DEF p
        <5> QED
          BY <4>1, <5>1
      <4>b. /\ enabled' \in SUBSET enabled
            /\ defaults' = defaults \/ defaults' \in Ranked(enabled')
        BY <4>1 DEF RecordFailure, RebuildDefaults
      <4>3. /\ enabled' \in SUBSET enabled
            /\ defaults' = defaults \/ defaults' \in Ranked(enabled')
            /\ failureCounts' \in [Providers -> Nat]
        BY <4>a, <4>b
      <4>4. defaults' \in Seq(Providers)
        BY <1>a, <4>3, RankedIsSeq DEF BreakerTypeOK
      <4>5. steady' = [d \in Calls |-> steady[d] \cap enabled']
            /\ UNCHANGED <<toLoad, registered, modelMap, fallbackCount>>
        BY <3>4 DEF CallFails, routing
      <4>6. BreakerTypeOK'
        BY <1>a, <4>3, <4>4, <4>5 DEF BreakerTypeOK
      <4>7. CallTypeOK'
        BY <1>a, <4>2, <4>5, <4>8 DEF CallTypeOK
      <4> QED
        BY <4>6, <4>7
    <3>5. CASE CallSucceeds(c)
      <4>1. Head(call[c].names) \in Providers
        BY <1>a, <2>2, <3>5, HeadTail DEF CallSucceeds, CallState, CallTypeOK
      <4>2. BreakerTypeOK'
        BY <1>a, <3>5, <4>1 DEF CallSucceeds, BreakerTypeOK, routing
      <4> DEFINE r == [pc |-> "answered", model |-> NoModel, names |-> <<>>,
                       failed |-> call[c].failed]
      <4>3. r \in CallState /\ r.pc = "answered"
        BY <2>2 DEF CallState
      <4>5. call' = [call EXCEPT ![c] = r]
        BY <3>5 DEF CallSucceeds
      <4> HIDE DEF r
      <4>4. steady' \in [Calls -> SUBSET Providers]
        BY <1>a, <3>5 DEF CallSucceeds, CallTypeOK
      <4> QED
        BY <1>a, <4>2, <4>3, <4>4, <4>5 DEF CallTypeOK
    <3> QED
      BY <1>2, <3>1, <3>2, <3>3, <3>4, <3>5 DEF CallStep
  <2> QED
    BY <2>1, <2>3 DEF TypeOK
<1>3. CASE ProbeStep
  <2>1. CASE Tick \/ EndScan
    <3>1. BreakerTypeOK' /\ CallTypeOK'
      BY <1>a, <2>1 DEF Tick, EndScan, routing, BreakerTypeOK, CallTypeOK
    <3>2. ProberTypeOK'
      BY <1>a, <2>1 DEF Tick, EndScan, routing, ProberTypeOK
    <3> QED
      BY <3>1, <3>2 DEF TypeOK
  <2>2. ASSUME NEW p \in Providers, SkipEnabled(p) \/ StartProbe(p)
        PROVE  TypeOK'
    <3>1. BreakerTypeOK' /\ CallTypeOK'
      BY <1>a, <2>2
      DEF SkipEnabled, StartProbe, routing, BreakerTypeOK, CallTypeOK
    <3>2. ProberTypeOK'
      BY <1>a, <2>2 DEF SkipEnabled, StartProbe, routing, ProberTypeOK
    <3> QED
      BY <3>1, <3>2 DEF TypeOK
  <2>3. ASSUME NEW p \in Providers, FinishProbe(p) PROVE TypeOK'
    <3>1. p \in registered /\ registered' = registered
      BY <1>a, <2>3 DEF FinishProbe, ProberTypeOK, routing
    <3>2. ProberTypeOK'
      BY <1>a, <2>3, <3>1 DEF FinishProbe, ProberTypeOK
    <3>3. CallTypeOK'
      BY <1>a, <2>3 DEF FinishProbe, CallTypeOK
    <3>4. BreakerTypeOK'
      <4>1. CASE p \in healthy
        <5>1. Reenable(p)
          BY <2>3, <4>1 DEF FinishProbe
        <5>2. enabled' \in SUBSET registered /\ defaults' \in Ranked(enabled')
          BY <1>a, <3>1, <5>1 DEF Reenable, RebuildDefaults, BreakerTypeOK
        <5>3. defaults' \in Seq(Providers)
          BY <1>a, <5>2, RankedIsSeq DEF BreakerTypeOK
        <5>4. failureCounts' \in [Providers -> Nat]
          BY <1>a, <5>1 DEF Reenable, BreakerTypeOK
        <5> QED
          BY <1>a, <2>3, <5>2, <5>3, <5>4 DEF FinishProbe, routing, BreakerTypeOK
      <4>2. CASE p \notin healthy
        BY <1>a, <2>3, <4>2 DEF FinishProbe, routing, BreakerTypeOK
      <4> QED
        BY <4>1, <4>2
    <3> QED
      BY <3>2, <3>3, <3>4 DEF TypeOK
  <2> QED
    BY <1>3, <2>1, <2>2, <2>3 DEF ProbeStep
<1>4. ASSUME NEW p \in Providers, Toggle(p) PROVE TypeOK'
  BY <1>a, <1>4
  DEF Toggle, routing, TypeOK, BreakerTypeOK, CallTypeOK, ProberTypeOK
<1>5. CASE UNCHANGED vars
  BY <1>a, <1>5 DEF vars, TypeOK, BreakerTypeOK, CallTypeOK, ProberTypeOK
<1> QED
  BY <1>1, <1>2, <1>3, <1>4, <1>5 DEF Next

-----------------------------------------------------------------------------
(* The flag, the counter and the fallback order move together. *)
LEMMA NextBreaker ==
  SafetyInv /\ [Next]_vars => DefaultsFollowEnabled' /\ OpenCircuitIsDisabled'
<1> SUFFICES ASSUME SafetyInv, [Next]_vars
             PROVE  DefaultsFollowEnabled' /\ OpenCircuitIsDisabled'
  OBVIOUS
<1> USE ConstantsAssumption
<1>a. /\ defaults \in Ranked(enabled)
      /\ \A p \in enabled : failureCounts[p] < CircuitBreakerThreshold
      /\ failureCounts \in [Providers -> Nat]
      /\ enabled \in SUBSET Providers
  BY DEF SafetyInv, TypeOK, BreakerTypeOK, DefaultsFollowEnabled,
         OpenCircuitIsDisabled
<1>b. SUFFICES /\ defaults' \in Ranked(enabled')
               /\ \A p \in enabled' :
                    failureCounts'[p] < CircuitBreakerThreshold
  BY DEF DefaultsFollowEnabled, OpenCircuitIsDisabled
<1>1. ASSUME NEW p \in Providers, LoadNext(p)
      PROVE  /\ defaults' \in Ranked(enabled')
             /\ \A q \in enabled' : failureCounts'[q] < CircuitBreakerThreshold
  <2>1. CASE UNCHANGED <<registered, enabled, modelMap, defaults>>
    BY <1>a, <1>1, <2>1 DEF LoadNext
  <2>2. CASE \E ms \in SUBSET Serves[p] \ {{}} : Register(p, ms)
    <3>1. failureCounts[p] < CircuitBreakerThreshold
      BY <1>1 DEF LoadNext, SafetyInv, LoadInv
    <3> QED
      BY <1>a, <1>1, <2>2, <3>1 DEF LoadNext, Register, RebuildDefaults
  <2> QED
    BY <1>1, <2>1, <2>2 DEF LoadNext
<1>2. ASSUME NEW c \in Calls, CallStep(c)
      PROVE  /\ defaults' \in Ranked(enabled')
             /\ \A q \in enabled' : failureCounts'[q] < CircuitBreakerThreshold
  <2>1. CASE UNCHANGED <<enabled, defaults, failureCounts>>
    BY <1>a, <2>1
  <2>2. CASE CallFails(c)
    <3>1. RecordFailure(Head(call[c].names))
      BY <2>2 DEF CallFails
    <3> QED
      BY <1>a, <3>1 DEF RecordFailure, Trips, RebuildDefaults
  <2>3. CASE CallSucceeds(c)
    BY <1>a, <2>3 DEF CallSucceeds
  <2> QED
    BY <1>2, <2>1, <2>2, <2>3 DEF CallStep, Begin, Dispatch, GiveUp
<1>3. CASE ProbeStep
  <2>1. CASE UNCHANGED <<enabled, defaults, failureCounts>>
    BY <1>a, <2>1
  <2>2. ASSUME NEW p \in Providers, FinishProbe(p)
        PROVE  /\ defaults' \in Ranked(enabled')
               /\ \A q \in enabled' :
                    failureCounts'[q] < CircuitBreakerThreshold
    BY <1>a, <2>2 DEF FinishProbe, Reenable, RebuildDefaults
  <2> QED
    BY <1>3, <2>1, <2>2 DEF ProbeStep, Tick, SkipEnabled, StartProbe, EndScan
<1>4. ASSUME NEW p \in Providers, Toggle(p)
      PROVE  UNCHANGED <<enabled, defaults, failureCounts>>
  BY <1>4 DEF Toggle
<1>5. CASE UNCHANGED vars
  BY <1>a, <1>5 DEF vars
<1> QED
  BY <1>a, <1>1, <1>2, <1>3, <1>4, <1>5 DEF Next

(* The step of a call changes the calls in flight to p at most by c. *)
LEMMA NextOvershoot == SafetyInv /\ [Next]_vars => FailureOvershoot'
<1> SUFFICES ASSUME SafetyInv, [Next]_vars, NEW p \in Providers
             PROVE  failureCounts'[p] + Cardinality(InFlight(p)')
                      <= CircuitBreakerThreshold - 1 + Cardinality(Calls)
  BY DEF FailureOvershoot
<1> USE ConstantsAssumption
<1> DEFINE Bound == CircuitBreakerThreshold - 1 + Cardinality(Calls)
<1>a. /\ failureCounts \in [Providers -> Nat]
      /\ failureCounts[p] + Cardinality(InFlight(p)) <= Bound
      /\ \A q \in enabled : failureCounts[q] < CircuitBreakerThreshold
      /\ call \in [Calls -> CallState]
  BY DEF SafetyInv, TypeOK, BreakerTypeOK, CallTypeOK, FailureOvershoot,
         OpenCircuitIsDisabled
<1>b. /\ InFlight(p) \in SUBSET Calls
      /\ InFlight(p)' \in SUBSET Calls
  BY DEF InFlight
<1>c. /\ Cardinality(Calls) \in Nat
      /\ Cardinality(InFlight(p)) \in Nat
      /\ Cardinality(InFlight(p)') \in Nat
      /\ Cardinality(InFlight(p)') <= Cardinality(Calls)
      /\ IsFiniteSet(InFlight(p))
  BY <1>b, CallsFinite
<1>d. ASSUME UNCHANGED failureCounts, InFlight(p)' \subseteq InFlight(p)
      PROVE  failureCounts'[p] + Cardinality(InFlight(p)') <= Bound
  <2>1. Cardinality(InFlight(p)') <= Cardinality(InFlight(p))
    BY <1>c, <1>d, FS_Subset
  <2> QED
    BY <1>a, <1>c, <1>d, <2>1
<1>e. ASSUME failureCounts'[p] < CircuitBreakerThreshold,
             failureCounts'[p] \in Nat
      PROVE  failureCounts'[p] + Cardinality(InFlight(p)') <= Bound
  BY <1>c, <1>e
<1>1. CASE UNCHANGED <<call, failureCounts>>
  BY <1>d, <1>1 DEF InFlight
<1>2. ASSUME NEW c \in Calls, CallStep(c)
      PROVE  failureCounts'[p] + Cardinality(InFlight(p)') <= Bound
  <2>1. ASSUME NEW m \in Models \union {NoModel}, Begin(c, m)
        PROVE  failureCounts'[p] + Cardinality(InFlight(p)') <= Bound
    <3>1. InFlight(p)' \subseteq InFlight(p)
      BY <1>a, <2>1 DEF Begin, InFlight
    <3> QED
      BY <1>d, <2>1, <3>1 DEF Begin
  <2>2. CASE Dispatch(c)
    <3>1. CASE Head(call[c].names) \in enabled /\ p = Head(call[c].names)
      BY <1>a, <1>e, <2>2, <3>1 DEF Dispatch
    <3>2. CASE ~(Head(call[c].names) \in enabled /\ p = Head(call[c].names))
      <4>2. ASSUME NEW e \in Calls, e # c PROVE call'[e] = call[e]
        BY <1>a, <2>2, <4>2 DEF Dispatch
      <4>3. \/ call'[c].pc = "route"
            \/ call'[c].names = call[c].names /\ Head(call[c].names) # p
        BY <1>a, <2>2, <3>2 DEF Dispatch, CallState
      <4>1. InFlight(p)' \subseteq InFlight(p)
        BY <4>2, <4>3 DEF InFlight
      <4> QED
        BY <1>d, <2>2, <4>1 DEF Dispatch
    <3> QED
      BY <3>1, <3>2
  <2>3. CASE GiveUp(c)
    <3>1. InFlight(p)' \subseteq InFlight(p)
      BY <1>a, <2>3 DEF GiveUp, InFlight
    <3> QED
      BY <1>d, <2>3, <3>1 DEF GiveUp
  <2>4. CASE CallFails(c)
    <3>1. InFlight(p)' = InFlight(p) \ {c}
      BY <1>a, <2>4 DEF CallFails, InFlight
    <3>2. failureCounts' = [failureCounts EXCEPT ![Head(call[c].names)] = @ + 1]
      BY <2>4 DEF CallFails, RecordFailure
    <3>3. CASE p = Head(call[c].names)
      <4>1. c \in InFlight(p)
        BY <2>4, <3>3 DEF CallFails, InFlight
      <4>2. Cardinality(InFlight(p)') = Cardinality(InFlight(p)) - 1
        BY <1>c, <3>1, <4>1, FS_RemoveElement
      <4>3. failureCounts'[p] = failureCounts[p] + 1
        BY <1>a, <3>2, <3>3
      <4> QED
        BY <1>a, <1>c, <4>2, <4>3
    <3>4. CASE p # Head(call[c].names)
      <4>1. failureCounts'[p] = failureCounts[p]
        BY <1>a, <3>2, <3>4
      <4>2. Cardinality(InFlight(p)') <= Cardinality(InFlight(p))
        BY <1>c, <3>1, FS_Subset
      <4> QED
        BY <1>a, <1>c, <4>1, <4>2
    <3> QED
      BY <3>3, <3>4
  <2>5. CASE CallSucceeds(c)
    <3>5. call'[c].pc = "answered"
      BY <1>a, <2>5 DEF CallSucceeds
    <3>6. ASSUME NEW e \in Calls, e # c PROVE call'[e] = call[e]
      BY <1>a, <2>5, <3>6 DEF CallSucceeds
    <3>1. InFlight(p)' \subseteq InFlight(p)
      BY <3>5, <3>6 DEF InFlight
    <3>2. failureCounts' = [failureCounts EXCEPT ![Head(call[c].names)] = 0]
      BY <2>5 DEF CallSucceeds
    <3>3. failureCounts'[p] \in Nat /\ failureCounts'[p] <= failureCounts[p]
      BY <1>a, <3>2
    <3>4. Cardinality(InFlight(p)') <= Cardinality(InFlight(p))
      BY <1>c, <3>1, FS_Subset
    <3> QED
      BY <1>a, <1>c, <3>3, <3>4
  <2> QED
    BY <1>2, <2>1, <2>2, <2>3, <2>4, <2>5 DEF CallStep
<1>3. ASSUME NEW q \in Providers, FinishProbe(q)
      PROVE  failureCounts'[p] + Cardinality(InFlight(p)') <= Bound
  <2>1. InFlight(p)' = InFlight(p)
    BY <1>3 DEF FinishProbe, InFlight
  <2>2. failureCounts' = [failureCounts EXCEPT ![q] = 0]
        \/ UNCHANGED failureCounts
    BY <1>3 DEF FinishProbe, Reenable
  <2>3. failureCounts'[p] \in Nat /\ failureCounts'[p] <= failureCounts[p]
    BY <1>a, <2>2
  <2> QED
    BY <1>a, <1>c, <2>1, <2>3
<1> QED
  BY <1>1, <1>2, <1>3
  DEF Next, ProbeStep, LoadNext, Tick, SkipEnabled, StartProbe, EndScan,
      Toggle, vars

LEMMA NextLoad == SafetyInv /\ [Next]_vars => LoadInv'
<1> SUFFICES ASSUME SafetyInv, [Next]_vars, toLoad' # {}
             PROVE  \A p \in Providers : failureCounts'[p] = 0
  BY DEF LoadInv
<1>1. toLoad' \subseteq toLoad
  BY DEF Next, LoadNext, CallStep, Begin, Dispatch, GiveUp, CallFails,
         CallSucceeds, ProbeStep, Tick, SkipEnabled, StartProbe, FinishProbe,
         EndScan, Toggle, vars
<1>2. /\ \A p \in Providers : failureCounts[p] = 0
      /\ \A c \in Calls : call[c].pc = "idle"
      /\ failureCounts \in [Providers -> Nat]
  BY <1>1 DEF SafetyInv, LoadInv, CallInv, TypeOK, BreakerTypeOK
<1>3. \A c \in Calls : ~CallFails(c) /\ ~CallSucceeds(c)
  BY <1>2 DEF CallFails, CallSucceeds
<1>4. ASSUME NEW p \in Providers, FinishProbe(p)
      PROVE  failureCounts' \in {failureCounts, [failureCounts EXCEPT ![p] = 0]}
  BY <1>4 DEF FinishProbe, Reenable
<1>5. \/ UNCHANGED failureCounts
      \/ \E p \in Providers : failureCounts' = [failureCounts EXCEPT ![p] = 0]
  BY <1>3, <1>4
  DEF Next, LoadNext, CallStep, Begin, Dispatch, GiveUp, ProbeStep, Tick,
      SkipEnabled, StartProbe, EndScan, Toggle, vars
<1> QED
  BY <1>2, <1>5

(* What call d knows of its snapshot and how it ends, written for one call. *)
KnowsSnapshot(d) ==
  /\ call[d].pc # "idle" => toLoad = {}
  /\ steady[d] \subseteq enabled
  /\ call[d].pc \in {"route", "calling"} /\ call[d].model # NoModel =>
       call[d].names \in {<<>>, <<modelMap[call[d].model]>>}
  /\ call[d].pc \in {"route", "calling"} /\ call[d].model = NoModel =>
       steady[d] \subseteq call[d].failed \union Listed(call[d].names)
  /\ call[d].pc = "failed" /\ call[d].model = NoModel =>
       steady[d] \subseteq call[d].failed

LEMMA NextCall ==
  SafetyInv /\ [Next]_vars => CallInv' /\ DefaultCallTriesAllSteady'
<1> SUFFICES ASSUME SafetyInv, [Next]_vars, NEW d \in Calls
             PROVE  KnowsSnapshot(d)'
  BY DEF CallInv, DefaultCallTriesAllSteady, KnowsSnapshot
<1> USE ConstantsAssumption
<1>a. KnowsSnapshot(d)
  BY DEF SafetyInv, CallInv, DefaultCallTriesAllSteady, KnowsSnapshot
<1>b. /\ BreakerTypeOK /\ CallTypeOK
      /\ defaults \in Ranked(enabled)
  BY DEF SafetyInv, TypeOK, DefaultsFollowEnabled
<1>c. /\ call \in [Calls -> CallState]
      /\ call[d] \in CallState
      /\ enabled \in SUBSET Providers
      /\ steady \in [Calls -> SUBSET Providers]
      /\ Listed(defaults) = enabled
  BY <1>b, RankedIsSeq DEF BreakerTypeOK, CallTypeOK
<1>d. Listed(<<>>) = {}
  BY DEF Listed
<1>1. ASSUME NEW p \in Providers, LoadNext(p) PROVE KnowsSnapshot(d)'
  <2>1. call[d].pc = "idle"
    BY <1>1, <1>a DEF LoadNext, KnowsSnapshot
  <2>2. enabled \subseteq enabled'
    BY <1>1 DEF LoadNext, Register
  <2>3. UNCHANGED <<call, steady>>
    BY <1>1 DEF LoadNext
  <2> QED
    BY <1>a, <2>1, <2>2, <2>3 DEF KnowsSnapshot
<1>2. ASSUME NEW c \in Calls, CallStep(c) PROVE KnowsSnapshot(d)'
  <2>1. ASSUME NEW m \in Models \union {NoModel}, Begin(c, m)
        PROVE  KnowsSnapshot(d)'
    <3>1. CASE d # c
      BY <1>a, <1>c, <2>1, <3>1 DEF Begin, KnowsSnapshot, routing
    <3>2. CASE d = c
      <4>1. /\ call'[d] = [pc |-> IF Candidates(m) = <<>> THEN "failed"
                                  ELSE "route",
                           model |-> m, names |-> Candidates(m),
                           failed |-> {}]
            /\ steady'[d] = IF m = NoModel THEN enabled ELSE {}
            /\ UNCHANGED <<toLoad, enabled, modelMap>>
            /\ toLoad = {}
        BY <1>c, <2>1, <3>2 DEF Begin, Serving, routing
      <4>2. CASE m = NoModel
        <5>1. Candidates(m) = defaults
          BY <4>2 DEF Candidates
        <5> QED
          BY <1>c, <1>d, <4>1, <4>2, <5>1 DEF KnowsSnapshot
      <4>3. CASE m # NoModel
        <5>1. Candidates(m) \in {<<>>, <<modelMap[m]>>}
          BY <4>3 DEF Candidates
        <5> QED
          BY <4>1, <4>3, <5>1 DEF KnowsSnapshot
      <4> QED
        BY <4>2, <4>3
    <3> QED
      BY <3>1, <3>2
  <2>2. CASE Dispatch(c)
    <3>a. UNCHANGED <<toLoad, enabled, modelMap, steady>>
      BY <2>2 DEF Dispatch, routing
    <3>1. CASE d # c \/ call' = [call EXCEPT ![c].pc = "calling"]
      <4>1. \/ call'[d] = call[d]
            \/ /\ call'[d].model = call[d].model
               /\ call'[d].names = call[d].names
               /\ call'[d].failed = call[d].failed
               /\ call[d].pc = "route" /\ call'[d].pc = "calling"
        BY <1>c, <2>2, <3>1 DEF Dispatch, CallState
      <4> QED
        BY <1>a, <3>a, <4>1 DEF KnowsSnapshot
    <3>2. CASE /\ d = c
               /\ Head(call[c].names) \notin registered \cap enabled
               /\ call' = [call EXCEPT ![c].names = Tail(@)]
      <4>1. /\ call'[d].model = call[d].model
            /\ call'[d].names = Tail(call[d].names)
            /\ call'[d].failed = call[d].failed
            /\ call'[d].pc = call[d].pc /\ call[d].pc = "route"
            /\ call[d].names # <<>>
        BY <1>c, <2>2, <3>2 DEF Dispatch, CallState
      <4>2. Listed(call[d].names) =
              {Head(call[d].names)} \union Listed(Tail(call[d].names))
        BY <1>c, <4>1, HeadTail DEF CallState
      <4>3. Head(call[d].names) \notin steady[d]
        BY <1>a, <1>b, <3>2 DEF KnowsSnapshot, BreakerTypeOK
      <4>4. call[d].model # NoModel => Tail(call[d].names) = <<>>
        BY <1>a, <4>1, TailOfOne DEF KnowsSnapshot
      <4> QED
        BY <1>a, <3>a, <4>1, <4>2, <4>3, <4>4 DEF KnowsSnapshot
    <3> QED
      BY <2>2, <3>1, <3>2 DEF Dispatch
  <2>3. CASE GiveUp(c)
    <3>1. /\ UNCHANGED <<toLoad, enabled, modelMap, steady>>
          /\ call'[d].model = call[d].model
          /\ call'[d].names = call[d].names
          /\ call'[d].failed = call[d].failed
          /\ \/ call'[d].pc = call[d].pc
             \/ call[d].pc = "route" /\ call'[d].pc = "failed"
                /\ call[d].names = <<>>
      BY <1>c, <2>3 DEF GiveUp, CallState, routing
    <3> QED
      BY <1>a, <1>d, <3>1 DEF KnowsSnapshot
  <2>4. CASE CallFails(c)
    <3>a. /\ enabled' \subseteq enabled
          /\ steady'[d] = steady[d] \cap enabled'
          /\ UNCHANGED <<toLoad, modelMap>>
      BY <2>4 DEF CallFails, RecordFailure, routing
    <3>1. CASE d # c
      <4>1. call'[d] = call[d]
        BY <1>c, <2>4, <3>1 DEF CallFails
      <4> QED
        BY <1>a, <3>a, <4>1 DEF KnowsSnapshot
    <3>2. CASE d = c
      <4>1. /\ call'[d] = [pc |-> "route", model |-> call[d].model,
                           names |-> Tail(call[d].names),
                           failed |-> call[d].failed
                                        \union {Head(call[d].names)}]
            /\ call[d].pc = "calling"
        BY <1>c, <2>4, <3>2 DEF CallFails
      <4>2. call[d].names # <<>>
        BY <1>b, <4>1 DEF CallTypeOK
      <4>3. Listed(call[d].names) =
              {Head(call[d].names)} \union Listed(Tail(call[d].names))
        BY <1>c, <4>2, HeadTail DEF CallState
      <4>4. call[d].model # NoModel => Tail(call[d].names) = <<>>
        BY <1>a, <4>1, <4>2, TailOfOne DEF KnowsSnapshot
      <4> QED
        BY <1>a, <3>a, <4>1, <4>3, <4>4 DEF KnowsSnapshot
    <3> QED
      BY <3>1, <3>2
  <2>5. CASE CallSucceeds(c)
    <3>a. UNCHANGED <<toLoad, enabled, modelMap>>
      BY <2>5 DEF CallSucceeds, routing
    <3>1. CASE d # c
      <4>1. call'[d] = call[d] /\ steady'[d] = steady[d]
        BY <1>c, <2>5, <3>1 DEF CallSucceeds
      <4> QED
        BY <1>a, <3>a, <4>1 DEF KnowsSnapshot
    <3>2. CASE d = c
      <4>1. /\ call'[d].pc = "answered"
            /\ steady'[d] = {}
            /\ call[d].pc = "calling"
        BY <1>c, <2>5, <3>2 DEF CallSucceeds
      <4> QED
        BY <1>a, <3>a, <4>1 DEF KnowsSnapshot
    <3> QED
      BY <3>1, <3>2
  <2> QED
    BY <1>2, <2>1, <2>2, <2>3, <2>4, <2>5 DEF CallStep
<1>3. CASE ProbeStep \/ (\E p \in Providers : Toggle(p)) \/ UNCHANGED vars
  <2>1. UNCHANGED <<toLoad, modelMap, call, steady>> /\ enabled \subseteq enabled'
    BY <1>3
    DEF ProbeStep, Tick, SkipEnabled, StartProbe, FinishProbe, Reenable,
        EndScan, Toggle, vars, routing
  <2> QED
    BY <1>a, <2>1 DEF KnowsSnapshot
<1> QED
  BY <1>1, <1>2, <1>3 DEF Next

-----------------------------------------------------------------------------
(* SafetyInv is an invariant of the specification. *)
THEOREM Safety == Spec => []SafetyInv
<1>1. SafetyInv /\ [Next]_vars => SafetyInv'
  BY NextType, NextBreaker, NextOvershoot, NextLoad, NextCall DEF SafetyInv
<1> QED
  BY InitSafety, <1>1, PTL DEF Spec

(* Types, for every set of providers, models and callers. *)
THEOREM TypeCorrect == Spec => []TypeOK
<1>1. SafetyInv => TypeOK
  BY DEF SafetyInv
<1> QED
  BY Safety, <1>1, PTL

(* The fallback order of a call without a model lists every enabled provider
   and no other, best weight first, whatever failure, recovery, probe or
   registration came in between: each of them sorts again under the lock. *)
THEOREM DefaultsAreCurrent == Spec => []DefaultsFollowEnabled
<1>1. SafetyInv => DefaultsFollowEnabled
  BY DEF SafetyInv
<1> QED
  BY Safety, <1>1, PTL

(* recordFailure, resetFailures and runHealthChecks keep the flag and the
   counter together: no enabled provider has used its failure budget up. *)
THEOREM BreakerIsSound == Spec => []OpenCircuitIsDisabled
<1>1. SafetyInv => OpenCircuitIsDisabled
  BY DEF SafetyInv
<1> QED
  BY Safety, <1>1, PTL

(* A provider that has failed for good costs at most threshold - 1 recorded
   failures and one more per concurrent caller. *)
THEOREM OvershootIsBounded == Spec => []FailureOvershoot
<1>1. SafetyInv => FailureOvershoot
  BY DEF SafetyInv
<1> QED
  BY Safety, <1>1, PTL

(* A request that names a model goes to the owner of the model only. *)
THEOREM ExplicitModelIsRouted == Spec => []ExplicitModelStaysWithOwner
<1>1. SafetyInv => ExplicitModelStaysWithOwner
  <2> SUFFICES ASSUME SafetyInv, NEW c \in Calls, call[c].pc = "calling",
                      call[c].model # NoModel
               PROVE  Head(call[c].names) = modelMap[call[c].model]
    BY DEF ExplicitModelStaysWithOwner
  <2>1. call[c].names = <<modelMap[call[c].model]>>
    BY DEF SafetyInv, CallInv, TypeOK, CallTypeOK
  <2> QED
    BY <2>1
<1> QED
  BY Safety, <1>1, PTL

(* A request without a model fails only when every provider that stayed
   enabled throughout was tried for it and failed. *)
THEOREM FallbackIsComplete == Spec => []DefaultCallTriesAllSteady
<1>1. SafetyInv => DefaultCallTriesAllSteady
  BY DEF SafetyInv
<1> QED
  BY Safety, <1>1, PTL

-----------------------------------------------------------------------------
(* A provider is asked once for a request: one that has failed is not asked
   again, though a probe may have enabled it meanwhile. *)
ProviderAskedOnce ==
  \A c \in Calls :
    call[c].pc = "calling" => Head(call[c].names) \notin call[c].failed

InLoop == {"route", "calling"}

(* What the loop of a request has to go through. *)
ToDo(k) ==
  CASE k.pc = "route" -> 2 * Len(k.names) + 1
    [] k.pc = "calling" -> 2 * Len(k.names)
    [] OTHER -> 0

MaxToDo == 2 * Cardinality(Providers) + 1

(* Every step of a request brings its end nearer. *)
CallsGoOn ==
  \A c \in Calls :
    call[c].pc \in InLoop =>
      call'[c] = call[c] \/ ToDo(call'[c]) < ToDo(call[c])
CallsRunDown == [][CallsGoOn]_vars

(* The snapshot has each provider once, and none that has failed. *)
Once(s) == \A i, j \in DOMAIN s : s[i] = s[j] => i = j

Fresh(k) ==
  k.pc \in InLoop =>
    /\ Once(k.names)
    /\ Listed(k.names) \cap k.failed = {}
    /\ Len(k.names) =< Cardinality(Providers)

OnceInv == \A c \in Calls : Fresh(call[c])

(* The providers are finitely many, and so are those of a ranking. *)
LEMMA RankedOnce ==
  ASSUME NEW S \in SUBSET Providers, NEW s \in Ranked(S)
  PROVE  Once(s) /\ Len(s) =< Cardinality(Providers)
<1>1. IsFiniteSet(S) /\ Cardinality(S) =< Cardinality(Providers)
      /\ Cardinality(S) \in Nat
  BY ConstantsAssumption, FS_Subset, FS_CardinalityType
<1>2. s \in [1 .. Cardinality(S) -> S] /\ Listed(s) = S
  BY DEF Ranked
<1>3. DOMAIN s = 1 .. Cardinality(S) /\ Len(s) = Cardinality(S)
  <2>1. s \in Seq(S)
    BY <1>1, <1>2
  <2> QED
    BY <1>1, <1>2, <2>1
<1>4. s \in Surjection(1 .. Cardinality(S), S)
  BY <1>2, <1>3 DEF Surjection, Listed
<1>5. /\ IsFiniteSet(1 .. Cardinality(S))
      /\ Cardinality(1 .. Cardinality(S)) = Cardinality(S)
  <2>1. 1 \in Int /\ Cardinality(S) \in Int
    BY <1>1
  <2> QED
    BY <1>1, <2>1, FS_Interval
<1>6. s \in Injection(1 .. Cardinality(S), S)
  BY <1>4, <1>5, FS_SurjSameCardinalityImpliesInj
<1> QED
  BY <1>1, <1>3, <1>6 DEF Injection, IsInjective, Once

(* A name that is dropped does not come again. *)
LEMMA OnceTail ==
  ASSUME NEW s \in Seq(Providers), s # <<>>, Once(s)
  PROVE  /\ Once(Tail(s)) /\ Head(s) \notin Listed(Tail(s))
         /\ Listed(Tail(s)) \subseteq Listed(s) /\ Head(s) \in Listed(s)
         /\ Len(s) \in Nat /\ Len(Tail(s)) = Len(s) - 1
<1>1. /\ Len(s) \in Nat /\ Len(s) > 0 /\ Len(Tail(s)) = Len(s) - 1
      /\ DOMAIN s = 1 .. Len(s) /\ Head(s) = s[1]
      /\ DOMAIN Tail(s) = 1 .. Len(s) - 1
  OBVIOUS
<1>2. \A i \in 1 .. Len(s) - 1 : Tail(s)[i] = s[i + 1]
  OBVIOUS
<1>3. \A i \in 1 .. Len(s) - 1 : i + 1 \in 1 .. Len(s) /\ i + 1 # 1
  BY <1>1
<1>4. 1 \in 1 .. Len(s)
  BY <1>1
<1>5. Once(Tail(s))
  <2> SUFFICES ASSUME NEW i \in DOMAIN Tail(s), NEW j \in DOMAIN Tail(s),
                      Tail(s)[i] = Tail(s)[j]
               PROVE  i = j
    BY DEF Once
  <2>1. s[i + 1] = s[j + 1]
    BY <1>1, <1>2
  <2>2. i + 1 = j + 1
    BY <1>1, <1>3, <2>1 DEF Once
  <2> QED
    BY <1>1, <2>2
<1>6. Head(s) \notin Listed(Tail(s))
  <2> SUFFICES ASSUME NEW i \in DOMAIN Tail(s), Tail(s)[i] = s[1]
               PROVE  FALSE
    BY <1>1 DEF Listed
  <2>1. s[i + 1] = s[1] /\ i + 1 \in 1 .. Len(s) /\ i + 1 # 1
    BY <1>1, <1>2, <1>3
  <2> QED
    BY <1>1, <1>4, <2>1 DEF Once
<1>7. Listed(Tail(s)) \subseteq Listed(s)
  BY <1>1, <1>2, <1>3 DEF Listed
<1>8. Head(s) \in Listed(s)
  BY <1>1, <1>4 DEF Listed
<1> QED
  BY <1>1, <1>5, <1>6, <1>7, <1>8

(* The snapshot of a request is a ranking, or the owner of its model. *)
LEMMA CandidatesOnce ==
  ASSUME TypeOK, DefaultsFollowEnabled, NEW m \in Models \union {NoModel}
  PROVE  /\ Once(Candidates(m)) /\ Candidates(m) \in Seq(Providers)
         /\ Len(Candidates(m)) =< Cardinality(Providers)
<1>1. enabled \in SUBSET Providers /\ defaults \in Seq(Providers)
  BY DEF TypeOK, BreakerTypeOK
<1>2. Cardinality(Providers) \in Nat
  BY ConstantsAssumption, FS_CardinalityType
<1>3. CASE m = NoModel
  BY <1>1, <1>3, RankedOnce DEF DefaultsFollowEnabled, Candidates
<1>4. CASE m # NoModel /\ modelMap[m] = NoProvider
  BY <1>2, <1>4 DEF Candidates, Once
<1>5. CASE m # NoModel /\ modelMap[m] # NoProvider
  <2>1. Candidates(m) = <<modelMap[m]>> /\ modelMap[m] \in Providers
    BY <1>1, <1>5 DEF Candidates, TypeOK, BreakerTypeOK
  <2>2. Cardinality(Providers) # 0
    BY <2>1, ConstantsAssumption, FS_EmptySet
  <2> QED
    BY <1>2, <2>1, <2>2 DEF Once
<1> QED
  BY <1>3, <1>4, <1>5

(* A snapshot is taken afresh, and only shortened. *)
LEMMA NextOnce ==
  ASSUME TypeOK, DefaultsFollowEnabled, OnceInv, [Next]_vars
  PROVE  OnceInv' /\ CallsGoOn
<1> SUFFICES ASSUME NEW d \in Calls
             PROVE  /\ Fresh(call'[d])
                    /\ call[d].pc \in InLoop =>
                         \/ call'[d] = call[d]
                         \/ ToDo(call'[d]) < ToDo(call[d])
  BY DEF OnceInv, CallsGoOn
<1>1. /\ Fresh(call[d]) /\ call \in [Calls -> CallState]
      /\ call[d].names \in Seq(Providers)
      /\ call[d].pc = "calling" => call[d].names # <<>>
  BY DEF OnceInv, TypeOK, CallTypeOK, CallState
<1>2. Cardinality(Providers) \in Nat
  BY ConstantsAssumption, FS_CardinalityType
<1>3. CASE call'[d] = call[d]
  BY <1>1, <1>3
<1>4. ASSUME NEW m \in Models \union {NoModel}, Begin(d, m)
      PROVE  Fresh(call'[d]) /\ call[d].pc \notin InLoop
  <2>1. call'[d] = [pc |-> IF Candidates(m) = <<>> THEN "failed" ELSE "route",
                    model |-> m, names |-> Candidates(m), failed |-> {}]
    BY <1>1, <1>4 DEF Begin
  <2>2. call[d].pc \notin InLoop
    BY <1>4 DEF Begin, InLoop
  <2> QED
    BY <2>1, <2>2, CandidatesOnce DEF Fresh
(* A name is dropped. *)
<1>5. ASSUME NEW k \in CallState,
             call[d].pc \in InLoop, call[d].names # <<>>,
             k.pc = "route", k.names = Tail(call[d].names),
             k.failed \subseteq call[d].failed \union {Head(call[d].names)}
      PROVE  Fresh(k) /\ ToDo(k) < ToDo(call[d])
  <2> DEFINE s == call[d].names
  <2>1. /\ Once(s) /\ Listed(s) \cap call[d].failed = {}
        /\ Len(s) =< Cardinality(Providers)
    BY <1>1, <1>5 DEF Fresh
  <2>2. /\ Once(Tail(s)) /\ Head(s) \notin Listed(Tail(s))
        /\ Listed(Tail(s)) \subseteq Listed(s)
        /\ Len(s) \in Nat /\ Len(Tail(s)) = Len(s) - 1
    BY <1>1, <1>5, <2>1, OnceTail
  <2>3. Listed(k.names) \cap k.failed = {}
    BY <1>5, <2>1, <2>2
  <2>4. Len(k.names) = Len(s) - 1
    BY <1>5, <2>2
  <2>5. Len(k.names) =< Cardinality(Providers)
    <3> HIDE DEF s
    <3> QED
      BY <1>2, <2>1, <2>2, <2>4
  <2>6. ToDo(k) = 2 * Len(k.names) + 1
    BY <1>5 DEF ToDo
  <2>7. ToDo(call[d]) \in {2 * Len(s), 2 * Len(s) + 1}
    BY <1>5 DEF ToDo, InLoop
  <2>8. ToDo(k) < ToDo(call[d])
    <3> HIDE DEF s
    <3> QED
      BY <2>2, <2>4, <2>6, <2>7
  <2> QED
    BY <1>5, <2>2, <2>3, <2>5, <2>8 DEF Fresh
<1>6. CASE Dispatch(d)
  <2>1. CASE call' = [call EXCEPT ![d].pc = "calling"]
    <3>1. /\ call[d].pc = "route" /\ call'[d].pc = "calling"
          /\ call'[d].names = call[d].names
          /\ call'[d].failed = call[d].failed
      BY <1>1, <1>6, <2>1 DEF Dispatch, CallState
    <3>2. Len(call[d].names) \in Nat
      BY <1>1
    <3>3. ToDo(call'[d]) = 2 * Len(call[d].names)
      BY <3>1 DEF ToDo
    <3>4. ToDo(call[d]) = 2 * Len(call[d].names) + 1
      BY <3>1 DEF ToDo
    <3>5. ToDo(call'[d]) < ToDo(call[d])
      BY <3>2, <3>3, <3>4
    <3> QED
      BY <1>1, <3>1, <3>5 DEF Fresh, InLoop
  <2>2. CASE call' = [call EXCEPT ![d].names = Tail(@)]
    <3>1. /\ call[d].pc = "route" /\ call'[d].pc = "route"
          /\ call[d].names # <<>>
          /\ call'[d].names = Tail(call[d].names)
          /\ call'[d].failed = call[d].failed
      BY <1>1, <1>6, <2>2 DEF Dispatch, CallState
    <3>2. call'[d] \in CallState
      BY <1>1, <2>2, <3>1, HeadTail DEF CallState
    <3> QED
      BY <1>5, <3>1, <3>2 DEF InLoop
  <2> QED
    BY <1>6, <2>1, <2>2 DEF Dispatch
<1>7. CASE GiveUp(d)
  <2>1. call[d].pc = "route" /\ call'[d].pc = "failed"
    BY <1>1, <1>7 DEF GiveUp, CallState
  <2>2. Len(call[d].names) \in Nat
    BY <1>1
  <2>3. ToDo(call'[d]) = 0 /\ ToDo(call[d]) = 2 * Len(call[d].names) + 1
    BY <2>1 DEF ToDo
  <2>4. ToDo(call'[d]) < ToDo(call[d])
    BY <2>2, <2>3
  <2> QED
    BY <2>1, <2>4 DEF Fresh, InLoop
<1>8. CASE CallFails(d)
  <2>1. /\ call[d].pc = "calling"
        /\ call'[d] = [pc |-> "route", model |-> call[d].model,
                       names |-> Tail(call[d].names),
                       failed |-> call[d].failed
                                    \union {Head(call[d].names)}]
    BY <1>1, <1>8 DEF CallFails
  <2>2. call'[d] \in CallState
    BY <1>1, <2>1, HeadTail DEF CallState
  <2> QED
    BY <1>1, <1>5, <2>1, <2>2 DEF InLoop
<1>9. CASE CallSucceeds(d)
  <2>1. call[d].pc = "calling" /\ call'[d].pc = "answered"
    BY <1>1, <1>9 DEF CallSucceeds, CallState
  <2>2. Len(call[d].names) \in Nat /\ Len(call[d].names) # 0
    BY <1>1, <2>1
  <2>3. ToDo(call'[d]) = 0 /\ ToDo(call[d]) = 2 * Len(call[d].names)
    BY <2>1 DEF ToDo
  <2>4. ToDo(call'[d]) < ToDo(call[d])
    BY <2>2, <2>3
  <2> QED
    BY <2>1, <2>4 DEF Fresh, InLoop
<1>10. \/ call'[d] = call[d]
       \/ \E m \in Models \union {NoModel} : Begin(d, m)
       \/ Dispatch(d) \/ GiveUp(d) \/ CallFails(d) \/ CallSucceeds(d)
  <2>1. ASSUME NEW c \in Calls, CallStep(c), c # d
        PROVE  call'[d] = call[d]
    BY <1>1, <2>1 DEF CallStep, Begin, Dispatch, GiveUp, CallFails,
       CallSucceeds
  <2>2. CASE \E c \in Calls : CallStep(c)
    BY <2>1, <2>2 DEF CallStep
  <2>3. CASE \/ \E p \in Providers : LoadNext(p) \/ Toggle(p)
             \/ ProbeStep \/ UNCHANGED vars
    BY <2>3 DEF LoadNext, Toggle, ProbeStep, Tick, SkipEnabled, StartProbe,
       FinishProbe, EndScan, vars
  <2> QED
    BY <2>2, <2>3 DEF Next
<1> QED
  BY <1>3, <1>4, <1>6, <1>7, <1>8, <1>9, <1>10

LEMMA OnceAlways == Spec => []OnceInv
<1>1. Init => OnceInv
  BY DEF Init, OnceInv, Fresh, InLoop, Idle
<1>2. SafetyInv => TypeOK /\ DefaultsFollowEnabled
  BY DEF SafetyInv
<1>3. TypeOK /\ DefaultsFollowEnabled /\ OnceInv /\ [Next]_vars => OnceInv'
  BY NextOnce
<1> QED
  BY <1>1, <1>2, <1>3, Safety, PTL DEF Spec

(* A request asks no provider again that has failed it, whatever the breaker
   and the probes do to the provider meanwhile. *)
THEOREM NobodyIsAskedTwice == Spec => []ProviderAskedOnce
<1>1. TypeOK /\ OnceInv => ProviderAskedOnce
  <2> SUFFICES ASSUME TypeOK, OnceInv, NEW c \in Calls,
                      call[c].pc = "calling"
               PROVE  Head(call[c].names) \notin call[c].failed
    BY DEF ProviderAskedOnce
  <2>1. call[c].names \in Seq(Providers) /\ call[c].names # <<>>
    BY DEF TypeOK, CallTypeOK, CallState
  <2>2. Once(call[c].names) /\ Listed(call[c].names) \cap call[c].failed = {}
    BY DEF OnceInv, Fresh, InLoop
  <2> QED
    BY <2>1, <2>2, OnceTail
<1> QED
  BY <1>1, OnceAlways, TypeCorrect, PTL

(* The loop of Stream and Complete takes at most two steps for each provider
   and one to give up: its snapshot has every provider once, and each step
   leaves it less to do, however many goroutines are in the loop with it. *)
THEOREM RequestsRunDown ==
  Spec => [](\A c \in Calls : ToDo(call[c]) \in 0 .. MaxToDo) /\ CallsRunDown
<1>1. TypeOK /\ OnceInv => \A c \in Calls : ToDo(call[c]) \in 0 .. MaxToDo
  <2> SUFFICES ASSUME TypeOK, OnceInv, NEW c \in Calls
               PROVE  ToDo(call[c]) \in 0 .. MaxToDo
    OBVIOUS
  <2>1. Cardinality(Providers) \in Nat
    BY ConstantsAssumption, FS_CardinalityType
  <2>2. call[c].names \in Seq(Providers)
    BY DEF TypeOK, CallTypeOK, CallState
  <2>3. Len(call[c].names) \in Nat
    BY <2>2
  <2>4. CASE call[c].pc \in InLoop
    <3>1. Len(call[c].names) =< Cardinality(Providers)
      BY <2>4 DEF OnceInv, Fresh
    <3>2. ToDo(call[c]) \in {2 * Len(call[c].names),
                             2 * Len(call[c].names) + 1}
      BY <2>4 DEF InLoop, ToDo
    <3> QED
      BY <2>1, <2>3, <3>1, <3>2 DEF MaxToDo
  <2>5. CASE call[c].pc \notin InLoop
    <3>1. ToDo(call[c]) = 0
      BY <2>5 DEF InLoop, ToDo
    <3> QED
      BY <2>1, <3>1 DEF MaxToDo
  <2> QED
    BY <2>4, <2>5
<1>2. SafetyInv => TypeOK /\ DefaultsFollowEnabled
  BY DEF SafetyInv
<1>3. TypeOK /\ DefaultsFollowEnabled /\ OnceInv /\ [Next]_vars
        => [CallsGoOn]_vars
  BY NextOnce
<1> QED
  BY <1>1, <1>2, <1>3, OnceAlways, Safety, PTL DEF Spec, CallsRunDown
=============================================================================
