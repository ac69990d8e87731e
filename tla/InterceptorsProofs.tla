-------------------------- MODULE InterceptorsProofs --------------------------
(***************************************************************************)
(* The interceptor chain for any number of concurrent calls, tenants and   *)
(* tiers.  Admission: the counter is the number of calls that have         *)
(* incremented it and not yet decremented it, and at most MaxInFlight of   *)
(* them are past the check.  Types: a call at its limiter holds one of its *)
(* own tenant.  The rate: what a tenant took and what is left in its       *)
(* limiters never exceeds their bursts and what time granted, and every    *)
(* limiter but the one in the map was evicted.                             *)
(***************************************************************************)
EXTENDS Interceptors, FiniteSetTheorems, SequenceTheorems, TLAPS

\* What the two properties need of the state.
AdmissionState == pc \in [Calls -> Locations] /\ current \in Int

AdmissionInv == AdmissionState /\ CounterIsExact /\ AtMostMaxInFlight

\* The steps of a call that happen past Admission.
PastAdmission(c) ==
    EdgeIdentity(c) \/ NoClaims(c) \/ LoadLimiter(c) \/ LoadOrStore(c) \/ Touch(c)
        \/ LimiterAllow(c) \/ Handler(c)

-----------------------------------------------------------------------------

\* The calls counted and the calls in flight are finite sets, the latter no larger.
LEMMA CallsFinite ==
    /\ IsFiniteSet(Counted) /\ IsFiniteSet(InFlight)
    /\ Cardinality(Counted) \in Nat /\ Cardinality(InFlight) \in Nat
    /\ Cardinality(InFlight) <= Cardinality(Counted)
<1>1. IsFiniteSet(Calls) BY InterceptorsAssumption
<1>2. Counted \subseteq Calls /\ InFlight \subseteq Counted BY DEF Counted, InFlight
<1> QED BY <1>1, <1>2, FS_Subset, FS_CardinalityType

\* A step that changes neither set nor the counter.
LEMMA NobodyCounts ==
    ASSUME AdmissionInv, current' = current, Counted' = Counted, InFlight' = InFlight,
           pc' \in [Calls -> Locations]
    PROVE  AdmissionInv'
BY DEF AdmissionInv, AdmissionState, CounterIsExact, AtMostMaxInFlight

\* A call that goes on past Admission stays in flight until its release.
LEMMA PastAdmissionStaysInFlight ==
    ASSUME AdmissionInv, MaxInFlight > 0, NEW c \in Calls, PastAdmission(c)
    PROVE  /\ current' = current /\ pc' \in [Calls -> Locations]
           /\ Counted' = Counted /\ InFlight' = InFlight
<1>1. /\ c \in InFlight /\ current' = current
      /\ \E l \in {"load", "store", "touch", "allow", "handler", "release"} : Goto(c, l)
    BY DEF PastAdmission, EdgeIdentity, NoClaims, LoadLimiter, LoadOrStore, Touch, LimiterAllow,
       Handler, At, Return, InFlight, admissionVars
<1>2. PICK l \in {"load", "store", "touch", "allow", "handler", "release"} : Goto(c, l)
    BY <1>1
<1>3. pc \in [Calls -> Locations] BY DEF AdmissionInv, AdmissionState
<1>4. pc' \in [Calls -> Locations] BY <1>2, <1>3 DEF Goto, Locations
<1>5. InFlight' = InFlight BY <1>1, <1>2, <1>3 DEF Goto, InFlight
<1>6. Counted' = Counted BY <1>1, <1>2, <1>3, <1>5 DEF Goto, Counted, InFlight
<1> QED BY <1>1, <1>4, <1>5, <1>6

\* Add(1) and the comparison: the call is counted, and in flight if it fits.
LEMMA AdmitKeeps ==
    ASSUME AdmissionInv, MaxInFlight > 0, NEW c \in Calls, Admit(c)
    PROVE  AdmissionInv'
<1>1. pc \in [Calls -> Locations] /\ current = Cardinality(Counted) /\ current \in Int
    BY DEF AdmissionInv, AdmissionState, CounterIsExact
<1>2. /\ At(c, "admit") /\ current' = current + 1
      /\ Goto(c, IF current' > MaxInFlight THEN "reject" ELSE "identity")
    BY DEF Admit
<1>3. pc' \in [Calls -> Locations] /\ current' \in Int
    BY <1>1, <1>2 DEF Goto, Locations
<1>4. c \notin Counted /\ Counted' = Counted \cup {c}
    <2>1. c \notin Counted BY <1>2 DEF At, Counted, InFlight
    <2>2. ASSUME NEW d \in Calls PROVE d \in Counted' <=> d \in Counted \cup {c}
        BY <1>1, <1>2 DEF Goto, Counted, InFlight
    <2>3. Counted \subseteq Calls /\ Counted' \subseteq Calls BY DEF Counted, InFlight
    <2> QED BY <2>1, <2>2, <2>3
<1>5. CounterIsExact'
    <2>1. Cardinality(Counted') = Cardinality(Counted) + 1
        BY <1>4, CallsFinite, FS_AddElement
    <2> QED BY <1>1, <1>2, <2>1 DEF CounterIsExact
<1>6. AtMostMaxInFlight'
    <2>1. CASE current' > MaxInFlight
        <3>1. InFlight' = InFlight BY <1>1, <1>2, <2>1 DEF At, Goto, InFlight
        <3> QED BY <3>1 DEF AdmissionInv, AtMostMaxInFlight
    <2>2. CASE ~(current' > MaxInFlight)
        <3>1. IsFiniteSet(Counted') BY <1>4, CallsFinite, FS_AddElement
        <3>2. InFlight' \subseteq Counted' BY DEF Counted
        <3>3. /\ Cardinality(InFlight') <= Cardinality(Counted')
              /\ Cardinality(InFlight') \in Nat /\ Cardinality(Counted') \in Nat
            BY <3>1, <3>2, FS_Subset, FS_CardinalityType
        <3>4. Cardinality(Counted') = current' BY <1>5 DEF CounterIsExact
        <3>5. MaxInFlight \in Nat BY InterceptorsAssumption
        <3> QED BY <1>3, <2>2, <3>3, <3>4, <3>5 DEF AtMostMaxInFlight
    <2> QED BY <2>1, <2>2
<1> QED BY <1>3, <1>5, <1>6 DEF AdmissionInv, AdmissionState

\* Add(-1), after a rejection or deferred: the call is no longer counted.
LEMMA LeaveKeeps ==
    ASSUME AdmissionInv, MaxInFlight > 0, NEW c \in Calls, Reject(c) \/ Release(c)
    PROVE  AdmissionInv'
<1>1. /\ pc \in [Calls -> Locations] /\ current = Cardinality(Counted) /\ current \in Int
      /\ Cardinality(InFlight) <= MaxInFlight
    BY DEF AdmissionInv, AdmissionState, CounterIsExact, AtMostMaxInFlight
<1>2. pc[c] \in {"reject", "release"} /\ current' = current - 1 /\ Goto(c, "idle")
    BY DEF Reject, Release, Answered, At
<1>3. pc' \in [Calls -> Locations] /\ current' \in Int BY <1>1, <1>2 DEF Goto, Locations
<1>4. c \in Counted /\ Counted' = Counted \ {c}
    <2>1. c \in Counted BY <1>2 DEF Counted, InFlight
    <2>2. ASSUME NEW d \in Calls PROVE d \in Counted' <=> d \in Counted \ {c}
        BY <1>1, <1>2 DEF Goto, Counted, InFlight
    <2>3. Counted \subseteq Calls /\ Counted' \subseteq Calls BY DEF Counted, InFlight
    <2> QED BY <2>1, <2>2, <2>3
<1>5. CounterIsExact'
    <2>1. Cardinality(Counted') = Cardinality(Counted) - 1
        BY <1>4, CallsFinite, FS_RemoveElement
    <2> QED BY <1>1, <1>2, <2>1 DEF CounterIsExact
<1>6. AtMostMaxInFlight'
    <2>1. InFlight' \subseteq InFlight
        <3>1. ASSUME NEW d \in Calls, d \in InFlight' PROVE d \in InFlight
            BY <1>1, <1>2, <3>1 DEF Goto, InFlight
        <3>2. InFlight' \subseteq Calls BY DEF InFlight
        <3> QED BY <3>1, <3>2
    <2>2. /\ Cardinality(InFlight') <= Cardinality(InFlight)
          /\ Cardinality(InFlight') \in Nat /\ Cardinality(InFlight) \in Nat
        BY <2>1, CallsFinite, FS_Subset, FS_CardinalityType
    <2>3. MaxInFlight \in Nat BY InterceptorsAssumption
    <2> QED BY <1>1, <2>2, <2>3 DEF AtMostMaxInFlight
<1> QED BY <1>3, <1>5, <1>6 DEF AdmissionInv, AdmissionState

-----------------------------------------------------------------------------

\* Every step keeps the invariant when admission is on.
LEMMA AdmissionStep ==
    ASSUME AdmissionInv, MaxInFlight > 0, [Next]_vars
    PROVE  AdmissionInv'
<1>a. pc \in [Calls -> Locations] BY DEF AdmissionInv, AdmissionState
<1>1. CASE UNCHANGED <<pc, current>>
    <2>1. Counted' = Counted /\ InFlight' = InFlight BY <1>1 DEF Counted, InFlight
    <2> QED BY <1>1, <1>a, <2>1, NobodyCounts
<1>2. ASSUME NEW c \in Calls, Arrive(c) PROVE AdmissionInv'
    <2>1. At(c, "idle") /\ Goto(c, "admit") /\ current' = current
        BY <1>2 DEF Arrive, admissionVars
    <2>2. Counted' = Counted /\ InFlight' = InFlight
        BY <1>a, <2>1 DEF At, Goto, Counted, InFlight
    <2>3. pc' \in [Calls -> Locations] BY <1>a, <2>1 DEF Goto, Locations
    <2> QED BY <2>1, <2>2, <2>3, NobodyCounts
<1>3. ASSUME NEW c \in Calls, Admit(c) PROVE AdmissionInv' BY <1>3, AdmitKeeps
<1>4. ASSUME NEW c \in Calls, Reject(c) \/ Release(c) PROVE AdmissionInv'
    BY <1>4, LeaveKeeps
<1>5. ASSUME NEW c \in Calls, PastAdmission(c) PROVE AdmissionInv'
    BY <1>5, PastAdmissionStaysInFlight, NobodyCounts
\* The sweeper and time touch neither the counter nor a call.
<1>6. ASSUME NEW t \in Tenants, NEW i, Refill(t, i) \/ Rest(t, i) \/ SweepLoad(t) \/ SweepDelete
      PROVE  UNCHANGED <<pc, current>>
    BY <1>6 DEF Refill, Rest, SweepLoad, SweepDelete, admissionVars
<1>7. SweepDelete => UNCHANGED <<pc, current>> BY DEF SweepDelete, admissionVars
<1>8. UNCHANGED vars => UNCHANGED <<pc, current>> BY DEF vars, admissionVars
<1> QED BY <1>1, <1>2, <1>3, <1>4, <1>5, <1>6, <1>7, <1>8 DEF Next, PastAdmission

\* The initial state: nobody is counted.
LEMMA AdmissionInit == Init => AdmissionInv
<1> SUFFICES ASSUME Init PROVE AdmissionInv OBVIOUS
<1>1. AdmissionState BY DEF Init, AdmissionState, Locations
<1>2. Counted = {} /\ InFlight = {} BY DEF Init, Counted, InFlight
<1>3. Cardinality({}) = 0 BY FS_EmptySet
<1>4. current = 0 /\ MaxInFlight \in Nat BY InterceptorsAssumption DEF Init
<1> QED BY <1>1, <1>2, <1>3, <1>4 DEF AdmissionInv, CounterIsExact, AtMostMaxInFlight

\* The invariant holds in every behaviour; with admission off it says nothing.
LEMMA AdmissionInvariant == Spec /\ MaxInFlight > 0 => []AdmissionInv
<1>1. ASSUME MaxInFlight > 0 PROVE AdmissionInv /\ [Next]_vars => AdmissionInv'
    BY <1>1, AdmissionStep
<1> SUFFICES ASSUME MaxInFlight > 0 PROVE Spec => []AdmissionInv OBVIOUS
<1> QED BY <1>1, AdmissionInit, PTL DEF Spec

\* The counter of Admission never drifts, for any number of calls, panics and rejections
\* (admission.go).
THEOREM CounterNeverDrifts == Spec => []CounterIsExact
<1>1. CASE MaxInFlight > 0
    <2>1. AdmissionInv => CounterIsExact BY DEF AdmissionInv
    <2> QED BY <1>1, <2>1, AdmissionInvariant, PTL
<1>2. CASE ~(MaxInFlight > 0)
    <2>1. CounterIsExact BY <1>2 DEF CounterIsExact
    <2> QED BY <2>1, PTL
<1> QED BY <1>1, <1>2

\* At most MaxInFlight calls are past Admission at once, although the counter overshoots the
\* cap while rejected calls undo their increment (admission.go).
THEOREM CapHolds == Spec => []AtMostMaxInFlight
<1>1. CASE MaxInFlight > 0
    <2>1. AdmissionInv => AtMostMaxInFlight BY DEF AdmissionInv
    <2> QED BY <1>1, <2>1, AdmissionInvariant, PTL
<1>2. CASE ~(MaxInFlight > 0)
    <2>1. AtMostMaxInFlight BY <1>2 DEF AtMostMaxInFlight
    <2> QED BY <2>1, PTL
<1> QED BY <1>1, <1>2

-----------------------------------------------------------------------------
(* The limiters: types, and what the sweeper and the calls rely on *)

Bucket(t) == [tokens : 0 .. NewLimiter(t).tokens, idle : BOOLEAN]

\* The limiters of every tenant, and the map's entries into them.
BucketsOK ==
    /\ buckets = [t \in Tenants |-> buckets[t]]
    /\ \A t \in Tenants : buckets[t] \in Seq(Bucket(t))

MapOK ==
    /\ limiters \in [Tenants -> Nat]
    /\ \A t \in Tenants : limiters[t] <= Len(buckets[t])

CallsOK ==
    /\ pc \in [Calls -> Locations]
    /\ call \in [Calls -> Requests]
    /\ result \in [Calls -> Statuses]
    /\ held \in [Calls -> Nat]

\* A call past EdgeIdentity has a tenant unless it is public; one that works with a limiter
\* has one of its own tenant's.
ClaimsOK(c) ==
    /\ pc[c] = "load" /\ HasClaims(c) => TenantOf(c) \in Tenants
    /\ pc[c] \in {"store", "touch", "allow"} => TenantOf(c) \in Tenants
    /\ pc[c] \in {"touch", "allow"} => held[c] \in 1 .. Len(buckets[TenantOf(c)])

ClaimsInv == \A c \in Calls : ClaimsOK(c)

\* The entry the sweeper is about to delete is still there.
SweeperInv ==
    /\ victim \in Tenants \cup {NoTenant}
    /\ victim # NoTenant => limiters[victim] # 0

TotalsOK ==
    passed \in [Tenants -> Nat] /\ granted \in [Tenants -> Nat] /\ evicted \in [Tenants -> Nat]

\* Every limiter that was ever stored is in the map or was evicted.
StoredInv ==
    \A t \in Tenants : Len(buckets[t]) = evicted[t] + (IF limiters[t] # 0 THEN 1 ELSE 0)

LimiterInv ==
    BucketsOK /\ MapOK /\ CallsOK /\ ClaimsInv /\ SweeperInv /\ TotalsOK /\ StoredInv

\* A tier's burst is a number or Unlimited.
LEMMA LimitType ==
    ASSUME NEW t
    PROVE  /\ Limited(t) => LimitOf(t) \in Nat /\ NewLimiter(t).tokens = LimitOf(t)
           /\ ~Limited(t) => NewLimiter(t).tokens = 0
           /\ NewLimiter(t).tokens \in Nat
           /\ NewLimiter(t) \in Bucket(t)
<1>1. LimitOf(t) \in Limits BY InterceptorsAssumption DEF LimitOf
<1>2. Limited(t) => LimitOf(t) \in Nat BY <1>1 DEF Limited, Limits
<1>3. /\ Limited(t) => NewLimiter(t).tokens = LimitOf(t)
      /\ ~Limited(t) => NewLimiter(t).tokens = 0
      /\ NewLimiter(t) = [tokens |-> NewLimiter(t).tokens, idle |-> FALSE]
    BY DEF NewLimiter
<1>4. NewLimiter(t).tokens \in Nat BY <1>2, <1>3
<1>5. NewLimiter(t) \in Bucket(t)
    <2>1. ASSUME NEW n \in Nat PROVE [tokens |-> n, idle |-> FALSE] \in [tokens : 0 .. n, idle : BOOLEAN]
        OBVIOUS
    <2> QED BY <1>3, <1>4, <2>1 DEF Bucket
<1> QED BY <1>2, <1>3, <1>4, <1>5

\* The lengths are numbers.
LEMMA Lengths == ASSUME BucketsOK PROVE \A t \in Tenants : Len(buckets[t]) \in Nat
BY LenProperties DEF BucketsOK

\* One limiter of t changes.
Changes(t, i, b) == buckets' = [buckets EXCEPT ![t] = [buckets[t] EXCEPT ![i] = b]]

\* The others, and the number of limiters, stay as they are.
LEMMA ChangedBuckets ==
    ASSUME BucketsOK, NEW t \in Tenants, NEW i \in 1 .. Len(buckets[t]), NEW b \in Bucket(t),
           Changes(t, i, b)
    PROVE  /\ BucketsOK'
           /\ \A u \in Tenants : Len(buckets'[u]) = Len(buckets[u])
           /\ buckets'[t] = [buckets[t] EXCEPT ![i] = b]
           /\ \A u \in Tenants \ {t} : buckets'[u] = buckets[u]
<1>1. buckets[t] \in Seq(Bucket(t)) BY DEF BucketsOK
<1>2. /\ buckets'[t] = [buckets[t] EXCEPT ![i] = b]
      /\ \A u \in Tenants \ {t} : buckets'[u] = buckets[u]
    BY DEF BucketsOK, Changes
<1>3. buckets'[t] \in Seq(Bucket(t)) /\ Len(buckets'[t]) = Len(buckets[t])
    BY <1>1, <1>2, ExceptSeq
<1>4. buckets' = [u \in Tenants |-> buckets'[u]] BY DEF BucketsOK, Changes
<1> QED BY <1>2, <1>3, <1>4 DEF BucketsOK

\* StoreNew adds a full limiter at the end of the tenant's.
LEMMA StoredBuckets ==
    ASSUME BucketsOK, NEW c \in Calls, TenantOf(c) \in Tenants, StoreNew(c)
    PROVE  LET t == TenantOf(c) IN
           /\ BucketsOK'
           /\ buckets'[t] = Append(buckets[t], NewLimiter(t))
           /\ Len(buckets'[t]) = Len(buckets[t]) + 1
           /\ \A u \in Tenants \ {t} : buckets'[u] = buckets[u]
<1> DEFINE t == TenantOf(c)
<1>1. buckets' = [buckets EXCEPT ![t] = Append(buckets[t], NewLimiter(t))] BY DEF StoreNew
<1>2. buckets[t] \in Seq(Bucket(t)) BY DEF BucketsOK
<1>3. /\ buckets'[t] = Append(buckets[t], NewLimiter(t))
      /\ \A u \in Tenants \ {t} : buckets'[u] = buckets[u]
      /\ buckets' = [u \in Tenants |-> buckets'[u]]
    BY <1>1 DEF BucketsOK
<1>4. buckets'[t] \in Seq(Bucket(t)) /\ Len(buckets'[t]) = Len(buckets[t]) + 1
    BY <1>2, <1>3, LimitType, AppendProperties
<1> QED BY <1>3, <1>4 DEF BucketsOK

\* A step of one call, or of none, that loses no limiter, leaves the claims of the others.
LEMMA OthersKeepTheirs ==
    ASSUME BucketsOK, BucketsOK', ClaimsInv, NEW d \in Calls, pc'[d] = pc[d], call'[d] = call[d],
           held'[d] = held[d], \A u \in Tenants : Len(buckets[u]) <= Len(buckets'[u])
    PROVE  ClaimsOK(d)'
<1>1. ClaimsOK(d) BY DEF ClaimsInv
<1>2. CASE pc[d] \in {"touch", "allow"}
    <2>1. TenantOf(d) \in Tenants /\ held[d] \in 1 .. Len(buckets[TenantOf(d)])
        BY <1>1, <1>2 DEF ClaimsOK
    <2>2. /\ Len(buckets[TenantOf(d)]) \in Nat /\ Len(buckets'[TenantOf(d)]) \in Nat
          /\ Len(buckets[TenantOf(d)]) <= Len(buckets'[TenantOf(d)])
        BY <2>1, LenProperties DEF BucketsOK
    <2>3. held[d] \in 1 .. Len(buckets'[TenantOf(d)]) BY <2>1, <2>2
    <2> QED BY <1>2, <2>1, <2>3 DEF ClaimsOK, TenantOf
<1>3. CASE pc[d] \notin {"touch", "allow"}
    BY <1>1, <1>3 DEF ClaimsOK, TenantOf, HasClaims
<1> QED BY <1>2, <1>3

-----------------------------------------------------------------------------

\* The steps that touch no limiter: c goes on, with a tenant if it reaches the rate limiter
\* with claims.
LEMMA PlainStepKeeps ==
    ASSUME LimiterInv, NEW c \in Calls,
           \/ Arrive(c) \/ Admit(c) \/ Reject(c) \/ Release(c)
           \/ EdgeIdentity(c) \/ NoClaims(c) \/ Handler(c)
    PROVE  LimiterInv'
<1>1. UNCHANGED <<limiterVars, sweeperVars>>
    BY DEF Arrive, Admit, Reject, Release, EdgeIdentity, NoClaims, Handler
<1>2. BucketsOK' /\ MapOK' /\ SweeperInv' /\ TotalsOK' /\ StoredInv'
    BY <1>1 DEF LimiterInv, BucketsOK, MapOK, SweeperInv, TotalsOK, StoredInv, limiterVars,
       sweeperVars
<1>3. /\ \E l \in Locations \ {"store", "touch", "allow"} :
            pc' = [pc EXCEPT ![c] = l]
      /\ \E r \in Requests : call' = [call EXCEPT ![c] = r]
      /\ \E s \in Statuses : result' = [result EXCEPT ![c] = s]
    <2>1. /\ pc \in [Calls -> Locations] /\ call \in [Calls -> Requests]
          /\ result \in [Calls -> Statuses]
        BY DEF LimiterInv, CallsOK
    <2>2. call = [call EXCEPT ![c] = call[c]] /\ call[c] \in Requests BY <2>1
    <2>3. result = [result EXCEPT ![c] = result[c]] /\ result[c] \in Statuses BY <2>1
    <2>4. NoRequest \in Requests BY DEF NoRequest, Requests
    <2>5. CASE Arrive(c) BY <2>3, <2>5 DEF Arrive, Goto, Locations
    <2>6. CASE Admit(c) BY <2>2, <2>3, <2>6 DEF Admit, Goto, Locations
    <2>7. CASE Reject(c) \/ Release(c)
        BY <2>4, <2>7 DEF Reject, Release, Answered, Goto, Locations, Statuses
    <2>8. CASE EdgeIdentity(c)
        BY <2>2, <2>3, <2>8 DEF EdgeIdentity, Return, Goto, Locations, Statuses
    <2>9. CASE NoClaims(c) \/ Handler(c)
        BY <2>2, <2>9 DEF NoClaims, Handler, Return, Goto, Locations, Statuses
    <2> QED BY <2>5, <2>6, <2>7, <2>8, <2>9
<1>4. CallsOK' BY <1>1, <1>3 DEF LimiterInv, CallsOK, limiterVars
<1>5. ASSUME NEW d \in Calls \ {c} PROVE ClaimsOK(d)'
    <2>1. pc'[d] = pc[d] /\ call'[d] = call[d] BY <1>3, <1>5 DEF LimiterInv, CallsOK
    <2>2. held'[d] = held[d] /\ buckets' = buckets BY <1>1 DEF limiterVars
    <2>3. \A u \in Tenants : Len(buckets[u]) <= Len(buckets'[u])
        BY <2>2, Lengths DEF LimiterInv
    <2> QED BY <1>2, <1>5, <2>1, <2>2, <2>3, OthersKeepTheirs DEF LimiterInv
<1>6. ClaimsOK(c)'
    <2>1. pc'[c] \notin {"store", "touch", "allow"} BY <1>3 DEF LimiterInv, CallsOK
    <2>2. pc'[c] = "load" /\ HasClaims(c)' => TenantOf(c)' \in Tenants
        <3>1. SUFFICES ASSUME pc'[c] = "load", HasClaims(c)' PROVE TenantOf(c)' \in Tenants
            OBVIOUS
        <3>2. EdgeIdentity(c) /\ call' = call
            BY <3>1 DEF Arrive, Admit, Reject, Release, EdgeIdentity, NoClaims, Handler,
               Return, Answered, Goto, LimiterInv, CallsOK
        <3>3. call[c] \in Requests /\ call[c].method # "public"
            BY <3>1, <3>2 DEF LimiterInv, CallsOK, HasClaims
        <3>4. TenantOf(c) # NoTenant
            BY <3>1, <3>2, <3>3 DEF EdgeIdentity, Return, Goto, LimiterInv, CallsOK
        <3> QED BY <3>2, <3>3, <3>4 DEF Requests, TenantOf
    <2> QED BY <2>1, <2>2 DEF ClaimsOK
<1> QED BY <1>2, <1>4, <1>5, <1>6 DEF LimiterInv, ClaimsInv

\* The map is read: c holds the tenant's limiter, or is about to store one.
LEMMA LoadKeeps ==
    ASSUME LimiterInv, NEW c \in Calls, LoadLimiter(c)
    PROVE  LimiterInv'
<1> DEFINE t == TenantOf(c)
<1>1. UNCHANGED <<call, result, buckets, limiters, passed, granted, sweeperVars>>
    BY DEF LoadLimiter
<1>2. BucketsOK' /\ MapOK' /\ SweeperInv' /\ TotalsOK' /\ StoredInv'
    BY <1>1 DEF LimiterInv, BucketsOK, MapOK, SweeperInv, TotalsOK, StoredInv, sweeperVars
<1>3. t \in Tenants BY DEF LoadLimiter, At, LimiterInv, ClaimsInv, ClaimsOK
<1>4. limiters[t] \in Nat /\ limiters[t] <= Len(buckets[t]) /\ Len(buckets[t]) \in Nat
    BY <1>3, Lengths DEF LimiterInv, MapOK
<1>5. \/ /\ limiters[t] # 0 /\ held' = [held EXCEPT ![c] = limiters[t]]
         /\ pc' = [pc EXCEPT ![c] = "touch"]
      \/ held' = held /\ pc' = [pc EXCEPT ![c] = "store"]
    BY DEF LoadLimiter, Goto
<1>6. CallsOK' BY <1>1, <1>4, <1>5 DEF LimiterInv, CallsOK, Locations
<1>7. ASSUME NEW d \in Calls \ {c} PROVE ClaimsOK(d)'
    <2>1. pc'[d] = pc[d] /\ call'[d] = call[d] /\ held'[d] = held[d]
        BY <1>1, <1>5, <1>7 DEF LimiterInv, CallsOK
    <2>2. \A u \in Tenants : Len(buckets[u]) <= Len(buckets'[u])
        BY <1>1, Lengths DEF LimiterInv
    <2> QED BY <1>2, <1>7, <2>1, <2>2, OthersKeepTheirs DEF LimiterInv
<1>8. ClaimsOK(c)'
    BY <1>1, <1>3, <1>4, <1>5 DEF ClaimsOK, TenantOf, LimiterInv, CallsOK
<1> QED BY <1>2, <1>6, <1>7, <1>8 DEF LimiterInv, ClaimsInv

\* LoadOrStore: the limiter stored since the read, or c's own new one.
LEMMA StoreKeeps ==
    ASSUME LimiterInv, NEW c \in Calls, LoadOrStore(c)
    PROVE  LimiterInv'
<1> DEFINE t == TenantOf(c)
<1>1. UNCHANGED <<call, result, passed, granted, sweeperVars>> /\ pc' = [pc EXCEPT ![c] = "touch"]
    BY DEF LoadOrStore, Goto
<1>2. t \in Tenants BY DEF LoadOrStore, At, LimiterInv, ClaimsInv, ClaimsOK
<1>3. /\ limiters[t] \in Nat /\ limiters[t] <= Len(buckets[t])
      /\ \A u \in Tenants : Len(buckets[u]) \in Nat
    BY <1>2, Lengths DEF LimiterInv, MapOK
<1>4. TotalsOK' BY <1>1 DEF LimiterInv, TotalsOK, sweeperVars
<1>5. /\ BucketsOK' /\ MapOK' /\ SweeperInv' /\ StoredInv'
      /\ \A u \in Tenants : Len(buckets[u]) <= Len(buckets'[u])
      /\ \E i \in 1 .. Len(buckets'[t]) : held' = [held EXCEPT ![c] = i]
    <2>1. CASE limiters[t] # 0
        <3>1. UNCHANGED <<buckets, limiters>> /\ held' = [held EXCEPT ![c] = limiters[t]]
            BY <2>1 DEF LoadOrStore
        <3>2. BucketsOK' /\ MapOK' /\ SweeperInv' /\ StoredInv'
            BY <1>1, <3>1 DEF LimiterInv, BucketsOK, MapOK, SweeperInv, StoredInv, sweeperVars
        <3>3. \A u \in Tenants : Len(buckets[u]) <= Len(buckets'[u]) BY <1>3, <3>1
        <3>4. limiters[t] \in 1 .. Len(buckets'[t]) BY <1>2, <1>3, <2>1, <3>1
        <3> QED BY <3>1, <3>2, <3>3, <3>4
    <2>2. CASE limiters[t] = 0
        <3>1. StoreNew(c) BY <2>2 DEF LoadOrStore
        <3>2. /\ BucketsOK' /\ Len(buckets'[t]) = Len(buckets[t]) + 1
              /\ \A u \in Tenants \ {t} : buckets'[u] = buckets[u]
            BY <1>2, <3>1, StoredBuckets DEF LimiterInv
        <3>3. /\ limiters' = [limiters EXCEPT ![t] = Len(buckets'[t])]
              /\ held' = [held EXCEPT ![c] = Len(buckets'[t])]
            BY <3>1 DEF StoreNew
        <3>4. MapOK' BY <1>2, <1>3, <3>2, <3>3 DEF LimiterInv, MapOK
        <3>5. SweeperInv'
            BY <1>1, <1>2, <1>3, <3>2, <3>3 DEF LimiterInv, SweeperInv, MapOK, sweeperVars
        <3>6. StoredInv'
            <4>1. ASSUME NEW u \in Tenants
                  PROVE  Len(buckets'[u]) = evicted'[u] + (IF limiters'[u] # 0 THEN 1 ELSE 0)
                <5>1. /\ Len(buckets[u]) = evicted[u] + (IF limiters[u] # 0 THEN 1 ELSE 0)
                      /\ evicted'[u] = evicted[u] /\ evicted[u] \in Nat
                    BY <1>1 DEF LimiterInv, StoredInv, TotalsOK, sweeperVars
                <5>2. CASE u = t
                    BY <1>2, <1>3, <2>2, <3>2, <3>3, <5>1, <5>2 DEF LimiterInv, MapOK
                <5>3. CASE u # t BY <3>2, <3>3, <5>1, <5>3 DEF LimiterInv, MapOK
                <5> QED BY <5>2, <5>3
            <4> QED BY <4>1 DEF StoredInv
        <3>7. \A u \in Tenants : Len(buckets[u]) <= Len(buckets'[u]) BY <1>3, <3>2
        <3>8. Len(buckets'[t]) \in 1 .. Len(buckets'[t]) BY <1>2, <1>3, <3>2
        <3> QED BY <3>2, <3>3, <3>4, <3>5, <3>6, <3>7, <3>8
    <2> QED BY <2>1, <2>2
<1>6. PICK i \in 1 .. Len(buckets'[t]) : held' = [held EXCEPT ![c] = i] BY <1>5
<1>7. i \in Nat /\ CallsOK'
    BY <1>1, <1>6 DEF LimiterInv, CallsOK, Locations
<1>8. ASSUME NEW d \in Calls \ {c} PROVE ClaimsOK(d)'
    <2>1. pc'[d] = pc[d] /\ call'[d] = call[d] /\ held'[d] = held[d]
        BY <1>1, <1>6, <1>8 DEF LimiterInv, CallsOK
    <2> QED BY <1>5, <1>8, <2>1, OthersKeepTheirs DEF LimiterInv
<1>9. ClaimsOK(c)'
    BY <1>1, <1>2, <1>6 DEF ClaimsOK, TenantOf, LimiterInv, CallsOK
<1> QED BY <1>4, <1>5, <1>7, <1>8, <1>9 DEF LimiterInv, ClaimsInv

\* The limiter a call at "touch" or "allow" works with.
LEMMA HeldBucket ==
    ASSUME LimiterInv, NEW c \in Calls, pc[c] \in {"touch", "allow"}
    PROVE  /\ TenantOf(c) \in Tenants
           /\ held[c] \in 1 .. Len(buckets[TenantOf(c)])
           /\ Held(c) \in Bucket(TenantOf(c))
           /\ Held(c).tokens \in 0 .. NewLimiter(TenantOf(c)).tokens
<1>1. TenantOf(c) \in Tenants /\ held[c] \in 1 .. Len(buckets[TenantOf(c)])
    BY DEF LimiterInv, ClaimsInv, ClaimsOK
<1>2. Held(c) \in Bucket(TenantOf(c)) BY <1>1, LenProperties DEF LimiterInv, BucketsOK, Held
<1> QED BY <1>1, <1>2 DEF Bucket

\* A step that changes limiters in place, whatever else its call does on the way to "allow",
\* the handler or back.
LEMMA InPlaceKeeps ==
    ASSUME LimiterInv, BucketsOK', \A u \in Tenants : Len(buckets'[u]) = Len(buckets[u]),
           UNCHANGED <<limiters, sweeperVars>>, TotalsOK', CallsOK', ClaimsInv'
    PROVE  LimiterInv'
BY DEF LimiterInv, MapOK, SweeperInv, StoredInv, sweeperVars

\* lastSeenUnix.Store(now)
LEMMA TouchKeeps ==
    ASSUME LimiterInv, NEW c \in Calls, Touch(c)
    PROVE  LimiterInv'
<1> DEFINE t == TenantOf(c)
           b == [Held(c) EXCEPT !.idle = FALSE]
<1>1. /\ pc[c] = "touch" /\ pc' = [pc EXCEPT ![c] = "allow"]
      /\ UNCHANGED <<call, result, limiters, held, passed, granted, sweeperVars>>
    BY DEF Touch, At, Goto
<1>2. /\ t \in Tenants /\ held[c] \in 1 .. Len(buckets[t]) /\ Held(c) \in Bucket(t)
    BY <1>1, HeldBucket
<1>3. Changes(t, held[c], b) BY DEF Touch, Changes, Held
<1>4. b \in Bucket(t) BY <1>2 DEF Bucket
<1>5. BucketsOK' /\ \A u \in Tenants : Len(buckets'[u]) = Len(buckets[u])
    BY <1>2, <1>3, <1>4, ChangedBuckets DEF LimiterInv
<1>6. TotalsOK' BY <1>1 DEF LimiterInv, TotalsOK, sweeperVars
<1>7. CallsOK' BY <1>1 DEF LimiterInv, CallsOK, Locations
<1>8. ClaimsInv'
    <2>1. ASSUME NEW d \in Calls \ {c} PROVE ClaimsOK(d)'
        <3>1. pc'[d] = pc[d] /\ call'[d] = call[d] /\ held'[d] = held[d]
            BY <1>1, <2>1 DEF LimiterInv, CallsOK
        <3>2. \A u \in Tenants : Len(buckets[u]) <= Len(buckets'[u])
            BY <1>5, Lengths DEF LimiterInv
        <3> QED BY <1>5, <2>1, <3>1, <3>2, OthersKeepTheirs DEF LimiterInv
    <2>2. ClaimsOK(c)'
        BY <1>1, <1>2, <1>5 DEF ClaimsOK, TenantOf, LimiterInv, CallsOK
    <2> QED BY <2>1, <2>2 DEF ClaimsInv
<1> QED BY <1>1, <1>5, <1>6, <1>7, <1>8, InPlaceKeeps

\* A call that takes a token takes it from the limiter it holds.
LEMMA TakesOne ==
    ASSUME LimiterInv, NEW c \in Calls, LimiterAllow(c), passed' # passed
    PROVE  LET t == TenantOf(c) IN
           /\ t \in Tenants /\ Limited(t) /\ held[c] \in 1 .. Len(buckets[t])
           /\ Changes(t, held[c], [Held(c) EXCEPT !.tokens = Held(c).tokens - 1])
           /\ [Held(c) EXCEPT !.tokens = Held(c).tokens - 1] \in Bucket(t)
           /\ Held(c).tokens > 0
           /\ passed' = [passed EXCEPT ![t] = @ + 1]
<1> DEFINE t == TenantOf(c)
           b == [Held(c) EXCEPT !.tokens = Held(c).tokens - 1]
<1>1. pc[c] = "allow" BY DEF LimiterAllow, At
<1>2. /\ t \in Tenants /\ held[c] \in 1 .. Len(buckets[t]) /\ Held(c) \in Bucket(t)
      /\ Held(c).tokens \in 0 .. NewLimiter(t).tokens
    BY <1>1, HeldBucket
<1>3. /\ Limited(t) /\ Held(c).tokens > 0
      /\ buckets' = [buckets EXCEPT ![t][held[c]].tokens = @ - 1]
      /\ passed' = [passed EXCEPT ![t] = @ + 1]
    BY DEF LimiterAllow
<1>4. Changes(t, held[c], b) BY <1>3 DEF Changes, Held
<1>5. NewLimiter(t).tokens \in Nat BY LimitType
<1>6. Held(c).tokens - 1 \in 0 .. NewLimiter(t).tokens BY <1>2, <1>3, <1>5
<1>7. b \in Bucket(t) BY <1>2, <1>6 DEF Bucket
<1> QED BY <1>2, <1>3, <1>4, <1>7

\* limiter.Allow
LEMMA AllowKeeps ==
    ASSUME LimiterInv, NEW c \in Calls, LimiterAllow(c)
    PROVE  LimiterInv'
<1>1. /\ \E l \in {"handler", "release"} : pc' = [pc EXCEPT ![c] = l]
      /\ held' = [held EXCEPT ![c] = 0]
      /\ UNCHANGED <<call, limiters, granted, sweeperVars>>
    BY DEF LimiterAllow, Return, Goto
<1>2. result' = result \/ result' = [result EXCEPT ![c] = "ResourceExhausted"]
    BY DEF LimiterAllow, Return
<1>3. CallsOK' BY <1>1, <1>2 DEF LimiterInv, CallsOK, Locations, Statuses
<1>4. BucketsOK' /\ TotalsOK' /\ \A u \in Tenants : Len(buckets'[u]) = Len(buckets[u])
    <2>1. CASE passed' = passed
        <3>1. buckets' = buckets
            <4>1. SUFFICES ASSUME passed' = [passed EXCEPT ![TenantOf(c)] = @ + 1] PROVE FALSE
                BY DEF LimiterAllow
            <4>2. TenantOf(c) \in Tenants BY HeldBucket DEF LimiterAllow, At
            <4>3. passed[TenantOf(c)] \in Nat /\ passed'[TenantOf(c)] = passed[TenantOf(c)] + 1
                BY <4>1, <4>2 DEF LimiterInv, TotalsOK
            <4> QED BY <2>1, <4>3
        <3> QED BY <1>1, <2>1, <3>1 DEF LimiterInv, BucketsOK, TotalsOK, sweeperVars
    <2>2. CASE passed' # passed
        <3>1. BucketsOK' /\ \A u \in Tenants : Len(buckets'[u]) = Len(buckets[u])
            BY <2>2, TakesOne, ChangedBuckets DEF LimiterInv
        <3>2. TenantOf(c) \in Tenants /\ passed' = [passed EXCEPT ![TenantOf(c)] = @ + 1]
            BY <2>2, TakesOne
        <3>3. TotalsOK' BY <1>1, <3>2 DEF LimiterInv, TotalsOK, sweeperVars
        <3> QED BY <3>1, <3>3
    <2> QED BY <2>1, <2>2
<1>5. ClaimsInv'
    <2>1. ASSUME NEW d \in Calls \ {c} PROVE ClaimsOK(d)'
        <3>1. pc'[d] = pc[d] /\ call'[d] = call[d] /\ held'[d] = held[d]
            BY <1>1, <2>1 DEF LimiterInv, CallsOK
        <3>2. \A u \in Tenants : Len(buckets[u]) <= Len(buckets'[u])
            BY <1>4, Lengths DEF LimiterInv
        <3> QED BY <1>4, <2>1, <3>1, <3>2, OthersKeepTheirs DEF LimiterInv
    <2>2. ClaimsOK(c)' BY <1>1 DEF ClaimsOK, LimiterInv, CallsOK
    <2> QED BY <2>1, <2>2 DEF ClaimsInv
<1> QED BY <1>1, <1>3, <1>4, <1>5, InPlaceKeeps

\* Time raises the tokens of one limiter, by as many as it grants.
LEMMA TimeRaises ==
    ASSUME LimiterInv, NEW t \in Tenants, NEW i \in DOMAIN buckets[t], Refill(t, i) \/ Rest(t, i)
    PROVE  /\ i \in 1 .. Len(buckets[t])
           /\ \E b \in Bucket(t) :
                 /\ Changes(t, i, b)
                 /\ b.tokens >= buckets[t][i].tokens
                 /\ granted' = [granted EXCEPT ![t] = @ + (b.tokens - buckets[t][i].tokens)]
           /\ UNCHANGED <<pc, call, result, limiters, held, passed, sweeperVars>>
<1>1. i \in 1 .. Len(buckets[t]) /\ buckets[t][i] \in Bucket(t)
    BY LenProperties DEF LimiterInv, BucketsOK
<1>2. NewLimiter(t).tokens \in Nat /\ (Limited(t) => NewLimiter(t).tokens = LimitOf(t))
    BY LimitType
<1>3. buckets[t][i].tokens \in 0 .. NewLimiter(t).tokens BY <1>1 DEF Bucket
<1>4. UNCHANGED <<pc, call, result, limiters, held, passed, sweeperVars>> BY DEF Refill, Rest
<1>5. CASE Refill(t, i)
    <2> DEFINE b == [buckets[t][i] EXCEPT !.tokens = buckets[t][i].tokens + 1]
    <2>1. buckets[t][i].tokens < NewLimiter(t).tokens BY <1>2, <1>5 DEF Refill
    <2>2. b.tokens = buckets[t][i].tokens + 1 BY <1>1 DEF Bucket
    <2>3. b \in Bucket(t)
        <3>1. buckets[t][i].tokens + 1 \in 0 .. NewLimiter(t).tokens BY <1>2, <1>3, <2>1
        <3> QED BY <1>1, <3>1 DEF Bucket
    <2>4. Changes(t, i, b) BY <1>5 DEF Refill, Changes
    <2>5. granted' = [granted EXCEPT ![t] = @ + 1] BY <1>5 DEF Refill
    <2>6. b.tokens - buckets[t][i].tokens = 1 /\ b.tokens >= buckets[t][i].tokens
        BY <1>3, <2>2
    <2> QED BY <1>1, <1>4, <2>3, <2>4, <2>5, <2>6
<1>6. CASE Rest(t, i)
    <2> DEFINE b == [tokens |-> NewLimiter(t).tokens, idle |-> TRUE]
    <2>1. b.tokens = NewLimiter(t).tokens /\ b \in Bucket(t)
        <3>1. ASSUME NEW n \in Nat
              PROVE  [tokens |-> n, idle |-> TRUE] \in [tokens : 0 .. n, idle : BOOLEAN]
            OBVIOUS
        <3> QED BY <1>2, <3>1 DEF Bucket
    <2>2. Changes(t, i, b) BY <1>6 DEF Rest, Changes
    <2>3. granted' = [granted EXCEPT ![t] = @ + (b.tokens - buckets[t][i].tokens)]
        BY <1>6, <2>1 DEF Rest
    <2>4. b.tokens >= buckets[t][i].tokens BY <1>2, <1>3, <2>1
    <2> QED BY <1>1, <1>4, <2>1, <2>2, <2>3, <2>4
<1> QED BY <1>5, <1>6

\* Time passes.
LEMMA TimeKeeps ==
    ASSUME LimiterInv, NEW t \in Tenants, NEW i \in DOMAIN buckets[t], Refill(t, i) \/ Rest(t, i)
    PROVE  LimiterInv'
<1>1. i \in 1 .. Len(buckets[t]) /\ UNCHANGED <<pc, call, result, limiters, held, passed, sweeperVars>>
    BY TimeRaises
<1>2. PICK b \in Bucket(t) :
          /\ Changes(t, i, b)
          /\ b.tokens >= buckets[t][i].tokens
          /\ granted' = [granted EXCEPT ![t] = @ + (b.tokens - buckets[t][i].tokens)]
    BY TimeRaises
<1>3. BucketsOK' /\ \A u \in Tenants : Len(buckets'[u]) = Len(buckets[u])
    BY <1>1, <1>2, ChangedBuckets DEF LimiterInv
<1>4. TotalsOK'
    <2>1. buckets[t][i] \in Bucket(t) BY LenProperties, <1>1 DEF LimiterInv, BucketsOK
    <2>2. buckets[t][i].tokens \in Nat /\ b.tokens \in Nat BY <2>1, LimitType DEF Bucket
    <2>3. b.tokens - buckets[t][i].tokens \in Nat BY <1>2, <2>2
    <2> QED BY <1>1, <1>2, <2>3 DEF LimiterInv, TotalsOK, sweeperVars
<1>5. CallsOK' BY <1>1 DEF LimiterInv, CallsOK
<1>6. ClaimsInv'
    <2>1. \A u \in Tenants : Len(buckets[u]) <= Len(buckets'[u])
        BY <1>3, Lengths DEF LimiterInv
    <2> QED BY <1>1, <1>3, <2>1, OthersKeepTheirs DEF LimiterInv, ClaimsInv
<1> QED BY <1>1, <1>3, <1>4, <1>5, <1>6, InPlaceKeeps

\* The sweeper picks an entry, and deletes it.
LEMMA SweepKeeps ==
    ASSUME LimiterInv, (\E t \in Tenants : SweepLoad(t)) \/ SweepDelete
    PROVE  LimiterInv'
<1>1. UNCHANGED <<pc, call, result, buckets, held, passed, granted>>
    BY DEF SweepLoad, SweepDelete, limiterVars
<1>2. BucketsOK' /\ CallsOK' /\ ClaimsInv'
    BY <1>1 DEF LimiterInv, BucketsOK, CallsOK, ClaimsInv, ClaimsOK, HasClaims, TenantOf
<1>3. CASE \E t \in Tenants : SweepLoad(t)
    BY <1>1, <1>2, <1>3 DEF SweepLoad, LimiterInv, MapOK, SweeperInv, TotalsOK, StoredInv, limiterVars
<1>4. CASE SweepDelete
    <2>1. /\ victim \in Tenants /\ limiters[victim] # 0 /\ victim' = NoTenant
          /\ limiters' = [limiters EXCEPT ![victim] = 0]
          /\ evicted' = [evicted EXCEPT ![victim] = @ + 1]
        BY <1>4 DEF SweepDelete, LimiterInv, SweeperInv
    <2>2. MapOK' /\ TotalsOK' /\ SweeperInv'
        BY <1>1, <2>1, Lengths DEF LimiterInv, MapOK, TotalsOK, SweeperInv
    <2>3. ASSUME NEW u \in Tenants
          PROVE  Len(buckets'[u]) = evicted'[u] + (IF limiters'[u] # 0 THEN 1 ELSE 0)
        <3>1. /\ Len(buckets'[u]) = evicted[u] + (IF limiters[u] # 0 THEN 1 ELSE 0)
              /\ evicted[u] \in Nat
            BY <1>1 DEF LimiterInv, StoredInv, TotalsOK
        <3>2. CASE u = victim BY <2>1, <3>1, <3>2 DEF LimiterInv, MapOK, TotalsOK
        <3>3. CASE u # victim BY <2>1, <3>1, <3>3 DEF LimiterInv, MapOK, TotalsOK
        <3> QED BY <3>2, <3>3
    <2> QED BY <1>2, <2>2, <2>3 DEF LimiterInv, StoredInv
<1> QED BY <1>3, <1>4

\* Every step keeps the limiters in order.
LEMMA LimiterStep == LimiterInv /\ [Next]_vars => LimiterInv'
<1> SUFFICES ASSUME LimiterInv, [Next]_vars PROVE LimiterInv' OBVIOUS
<1>1. CASE UNCHANGED vars
    BY <1>1 DEF vars, limiterVars, sweeperVars, LimiterInv, BucketsOK, MapOK, CallsOK, ClaimsInv,
       ClaimsOK, HasClaims, TenantOf, SweeperInv, TotalsOK, StoredInv
<1>2. CASE Next
    BY <1>2, PlainStepKeeps, LoadKeeps, StoreKeeps, TouchKeeps, AllowKeeps, TimeKeeps, SweepKeeps
       DEF Next
<1> QED BY <1>1, <1>2

\* Nothing is stored at the start.
LEMMA LimiterInit == Init => LimiterInv
<1> SUFFICES ASSUME Init PROVE LimiterInv OBVIOUS
<1>1. BucketsOK BY EmptySeq DEF Init, BucketsOK
<1>2. MapOK /\ StoredInv /\ TotalsOK BY EmptySeq DEF Init, MapOK, StoredInv, TotalsOK
<1>3. CallsOK /\ SweeperInv
    BY DEF Init, CallsOK, SweeperInv, Locations, Requests, NoRequest, Statuses
<1>4. ClaimsInv BY DEF Init, ClaimsInv, ClaimsOK
<1> QED BY <1>1, <1>2, <1>3, <1>4 DEF LimiterInv

\* The invariant of the limiters holds in every behaviour.
LEMMA LimiterInvariant == Spec => []LimiterInv
BY LimiterInit, LimiterStep, PTL DEF Spec

-----------------------------------------------------------------------------
(* Types: the counter, too, which with admission off never moves *)

OffInv == MaxInFlight = 0 => current = 0 /\ \A c \in Calls : pc[c] \notin {"admit", "reject"}

\* With admission off no step touches the counter.
LEMMA OffStep == LimiterInv /\ OffInv /\ [Next]_vars => OffInv'
<1> SUFFICES ASSUME LimiterInv, OffInv, [Next]_vars, MaxInFlight = 0
             PROVE  current' = 0 /\ \A c \in Calls : pc'[c] \notin {"admit", "reject"}
    BY DEF OffInv
<1>1. /\ pc \in [Calls -> Locations] /\ current = 0
      /\ \A c \in Calls : pc[c] \notin {"admit", "reject"}
    BY DEF LimiterInv, CallsOK, OffInv
<1>2. CASE UNCHANGED <<pc, current>> BY <1>1, <1>2
<1>3. ASSUME NEW c \in Calls, Arrive(c)
      PROVE  current' = current /\ pc' = [pc EXCEPT ![c] = "identity"]
    BY <1>3 DEF Arrive, Goto, admissionVars
<1>4. ASSUME NEW c \in Calls PROVE ~Admit(c) /\ ~Reject(c) BY <1>1 DEF Admit, Reject, At
<1>5. ASSUME NEW c \in Calls, Release(c)
      PROVE  current' = current /\ pc' = [pc EXCEPT ![c] = "idle"]
    BY <1>5 DEF Release, Answered, Goto
<1>6. ASSUME NEW c \in Calls, PastAdmission(c)
      PROVE  /\ current' = current
             /\ \E l \in {"load", "store", "touch", "allow", "handler", "release"} :
                   pc' = [pc EXCEPT ![c] = l]
    BY <1>6 DEF PastAdmission, EdgeIdentity, NoClaims, LoadLimiter, LoadOrStore, Touch, LimiterAllow,
       Handler, Return, Goto, admissionVars
<1>7. ASSUME NEW t \in Tenants, NEW i, Refill(t, i) \/ Rest(t, i) \/ SweepLoad(t)
      PROVE  UNCHANGED <<pc, current>>
    BY <1>7 DEF Refill, Rest, SweepLoad, admissionVars
<1>8. SweepDelete => UNCHANGED <<pc, current>> BY DEF SweepDelete, admissionVars
<1>9. UNCHANGED vars => UNCHANGED <<pc, current>> BY DEF vars, admissionVars
<1>10. ASSUME NEW c \in Calls, NEW l \in Locations \ {"admit", "reject"},
              current' = current, pc' = [pc EXCEPT ![c] = l]
       PROVE  current' = 0 /\ \A d \in Calls : pc'[d] \notin {"admit", "reject"}
    BY <1>1, <1>10
<1>11. /\ \A l \in {"load", "store", "touch", "allow", "handler", "release"} :
             l \in Locations \ {"admit", "reject"}
       /\ "identity" \in Locations \ {"admit", "reject"} /\ "idle" \in Locations \ {"admit", "reject"}
    BY DEF Locations
<1>12. ASSUME NEW c \in Calls, Arrive(c) \/ Release(c) \/ PastAdmission(c)
       PROVE  current' = 0 /\ \A d \in Calls : pc'[d] \notin {"admit", "reject"}
    <2>1. PICK l \in Locations \ {"admit", "reject"} : current' = current /\ pc' = [pc EXCEPT ![c] = l]
        BY <1>3, <1>5, <1>6, <1>11, <1>12
    <2> QED BY <1>10, <2>1
<1> QED BY <1>2, <1>4, <1>7, <1>8, <1>9, <1>12 DEF Next, PastAdmission

\* With admission off the counter stays at zero in every behaviour.
LEMMA OffInvariant == Spec => []OffInv
<1>1. Init => OffInv BY DEF Init, OffInv
<1> QED BY <1>1, OffStep, LimiterInvariant, PTL DEF Spec

\* What the parts say together.
LEMMA TypesFollow ==
    ASSUME LimiterInv, OffInv, MaxInFlight > 0 => AdmissionInv
    PROVE  TypeOK
<1>1. current \in 0 .. Cardinality(Calls)
    <2>1. IsFiniteSet(Calls) /\ MaxInFlight \in Nat BY InterceptorsAssumption
    <2>2. Cardinality(Calls) \in Nat BY <2>1, FS_CardinalityType
    <2>3. CASE MaxInFlight > 0
        <3>1. current = Cardinality(Counted) BY <2>3 DEF AdmissionInv, CounterIsExact
        <3>2. Counted \subseteq Calls BY DEF Counted, InFlight
        <3>3. Cardinality(Counted) \in Nat /\ Cardinality(Counted) <= Cardinality(Calls)
            BY <2>1, <3>2, CallsFinite, FS_Subset
        <3> QED BY <2>2, <3>1, <3>3
    <2>4. CASE MaxInFlight = 0 BY <2>2, <2>4 DEF OffInv
    <2> QED BY <2>1, <2>3, <2>4
<1>2. DOMAIN buckets = Tenants BY DEF LimiterInv, BucketsOK
<1>3. ASSUME NEW t \in Tenants
      PROVE  /\ \A i \in DOMAIN buckets[t] : /\ buckets[t][i].tokens \in 0 .. NewLimiter(t).tokens
                                             /\ buckets[t][i].idle \in BOOLEAN
             /\ limiters[t] \in 0 .. Len(buckets[t])
    <2>1. ASSUME NEW i \in DOMAIN buckets[t] PROVE buckets[t][i] \in Bucket(t)
        BY LenProperties DEF LimiterInv, BucketsOK
    <2>2. limiters[t] \in 0 .. Len(buckets[t]) BY Lengths DEF LimiterInv, MapOK
    <2> QED BY <2>1, <2>2 DEF Bucket
<1>4. ASSUME NEW c \in Calls, pc[c] \in {"touch", "allow"}
      PROVE  held[c] \in 1 .. Len(buckets[call[c].tenant])
    BY <1>4 DEF LimiterInv, ClaimsInv, ClaimsOK, TenantOf
<1> QED BY <1>1, <1>2, <1>3, <1>4 DEF TypeOK, LimiterInv, CallsOK, SweeperInv, TotalsOK

\* The chain's state is well formed for any number of calls and any tiers: a call at its
\* limiter holds one that exists and is its own tenant's, the map names existing limiters,
\* no bucket holds more than its burst, and the counter stays within the number of calls,
\* with admission on or off (admission.go, ratelimit.go).
THEOREM InterceptorsTypes == Spec => []TypeOK
<1>1. CASE MaxInFlight > 0
    <2>1. LimiterInv /\ OffInv /\ AdmissionInv => TypeOK BY TypesFollow
    <2> QED BY <1>1, <2>1, LimiterInvariant, OffInvariant, AdmissionInvariant, PTL
<1>2. CASE ~(MaxInFlight > 0)
    <2>1. LimiterInv /\ OffInv => TypeOK BY <1>2, TypesFollow
    <2> QED BY <2>1, LimiterInvariant, OffInvariant, PTL
<1> QED BY <1>1, <1>2

-----------------------------------------------------------------------------
(* The rate: the tokens left in a tenant's limiters, as a set that can be counted *)

\* The tokens of the limiters s, each named by its limiter and its place below the burst l.
TokensIn(s, l) == {p \in (1 .. Len(s)) \X (1 .. l) : p[2] <= s[p[1]].tokens}

\* What a tenant's calls have taken and can still take was in a fresh limiter or was granted.
TokensOK(t) ==
    Limited(t) =>
        passed[t] + Cardinality(TokensIn(buckets[t], LimitOf(t)))
            <= LimitOf(t) * Len(buckets[t]) + granted[t]

TokenInv == \A t \in Tenants : TokensOK(t)

\* The tokens of finitely many limiters can be counted.
LEMMA TokensFinite ==
    ASSUME NEW s, Len(s) \in Nat, NEW l \in Nat
    PROVE  IsFiniteSet(TokensIn(s, l)) /\ Cardinality(TokensIn(s, l)) \in Nat
<1>1. IsFiniteSet(1 .. Len(s)) /\ IsFiniteSet(1 .. l) BY FS_Interval
<1>2. IsFiniteSet((1 .. Len(s)) \X (1 .. l)) BY <1>1, FS_Product
<1>3. TokensIn(s, l) \subseteq (1 .. Len(s)) \X (1 .. l) BY DEF TokensIn
<1> QED BY <1>2, <1>3, FS_Subset, FS_CardinalityType

\* The tokens of limiter i above place j, up to place k.
Slice(i, j, k) == {i} \X (j + 1 .. k)

\* A slice has as many tokens as places.
LEMMA SliceSize ==
    ASSUME NEW i, NEW j \in Nat, NEW k \in Nat, j <= k
    PROVE  IsFiniteSet(Slice(i, j, k)) /\ Cardinality(Slice(i, j, k)) = k - j
<1>1. IsFiniteSet(j + 1 .. k) /\ Cardinality(j + 1 .. k) = k - j
    <2>1. Cardinality(j + 1 .. k) = IF j + 1 > k THEN 0 ELSE k - (j + 1) + 1 BY FS_Interval
    <2>2. IsFiniteSet(j + 1 .. k) BY FS_Interval
    <2> QED BY <2>1, <2>2
<1>2. IsFiniteSet({i}) /\ Cardinality({i}) = 1 BY FS_Singleton
<1>3. /\ IsFiniteSet({i} \X (j + 1 .. k))
      /\ Cardinality({i} \X (j + 1 .. k)) = 1 * Cardinality(j + 1 .. k)
    BY <1>1, <1>2, FS_Product
<1> QED BY <1>1, <1>3 DEF Slice

\* The size of a disjoint union.
LEMMA DisjointSize ==
    ASSUME NEW S, NEW T, IsFiniteSet(S), IsFiniteSet(T), S \cap T = {}
    PROVE  Cardinality(S \cup T) = Cardinality(S) + Cardinality(T)
<1>1. Cardinality(S \cup T) = Cardinality(S) + Cardinality(T) - Cardinality(S \cap T) BY FS_Union
<1>2. Cardinality(S \cap T) = 0 BY FS_EmptySet
<1>3. Cardinality(S) \in Nat /\ Cardinality(T) \in Nat BY FS_CardinalityType
<1> QED BY <1>1, <1>2, <1>3

\* The limiters s and r differ in limiter i only, which has no fewer tokens in r.
Rises(i, s, r, l) ==
    /\ Len(s) \in Nat /\ Len(r) = Len(s) /\ i \in 1 .. Len(s)
    /\ \A j \in 1 .. Len(s) : j # i => r[j] = s[j]
    /\ s[i].tokens \in 0 .. l /\ r[i].tokens \in 0 .. l /\ s[i].tokens <= r[i].tokens

\* So do the tokens of all limiters.
Gains(i, s, r, l) ==
    Cardinality(TokensIn(r, l)) = Cardinality(TokensIn(s, l)) + (r[i].tokens - s[i].tokens)

\* One limiter of s rises by so many tokens in r.
LEMMA TokensRise ==
    ASSUME NEW l \in Nat, NEW s, NEW r, NEW i, Rises(i, s, r, l)
    PROVE  Gains(i, s, r, l)
<1> USE DEF Rises, Gains
<1> DEFINE more == Slice(i, s[i].tokens, r[i].tokens)
<1>1. TokensIn(r, l) = TokensIn(s, l) \cup more
    <2>1. ASSUME NEW p \in (1 .. Len(s)) \X (1 .. l)
          PROVE  p \in TokensIn(r, l) <=> p \in TokensIn(s, l) \cup more
        <3>1. p[1] \in 1 .. Len(s) /\ p[2] \in 1 .. l /\ p = <<p[1], p[2]>> OBVIOUS
        <3>2. p \in more <=> p[1] = i /\ s[i].tokens < p[2] /\ p[2] <= r[i].tokens BY <3>1 DEF Slice
        <3>3. CASE p[1] = i BY <3>1, <3>2, <3>3 DEF TokensIn
        <3>4. CASE p[1] # i BY <3>1, <3>2, <3>4 DEF TokensIn
        <3> QED BY <3>3, <3>4
    <2>2. more \subseteq (1 .. Len(s)) \X (1 .. l) BY DEF Slice
    <2> QED BY <2>1, <2>2 DEF TokensIn
<1>2. TokensIn(s, l) \cap more = {} BY DEF TokensIn, Slice
<1>3. IsFiniteSet(more) /\ Cardinality(more) = r[i].tokens - s[i].tokens
    <2>1. s[i].tokens \in Nat /\ r[i].tokens \in Nat OBVIOUS
    <2> QED BY <2>1, SliceSize
<1>4. IsFiniteSet(TokensIn(s, l)) /\ Cardinality(TokensIn(s, l)) \in Nat BY TokensFinite
<1>5. Cardinality(TokensIn(r, l)) = Cardinality(TokensIn(s, l)) + Cardinality(more)
    BY <1>1, <1>2, <1>3, <1>4, DisjointSize
<1> QED BY <1>3, <1>4, <1>5

\* A new limiter adds its burst, at most.
LEMMA TokensAppended ==
    ASSUME NEW l \in Nat, NEW s, NEW r, Len(s) \in Nat, Len(r) = Len(s) + 1,
           \A j \in 1 .. Len(s) : r[j] = s[j], r[Len(s) + 1].tokens = l
    PROVE  Cardinality(TokensIn(r, l)) = Cardinality(TokensIn(s, l)) + l
<1> DEFINE new == Slice(Len(s) + 1, 0, l)
<1>1. TokensIn(r, l) = TokensIn(s, l) \cup new
    <2>1. ASSUME NEW p \in (1 .. Len(r)) \X (1 .. l)
          PROVE  p \in TokensIn(r, l) <=> p \in TokensIn(s, l) \cup new
        <3>1. p[1] \in 1 .. Len(r) /\ p[2] \in 1 .. l /\ p = <<p[1], p[2]>> OBVIOUS
        <3>2. p \in new <=> p[1] = Len(s) + 1 BY <3>1 DEF Slice
        <3>3. CASE p[1] = Len(s) + 1 BY <3>1, <3>2, <3>3 DEF TokensIn
        <3>4. CASE p[1] # Len(s) + 1
            <4>1. p[1] \in 1 .. Len(s) BY <3>1, <3>4
            <4> QED BY <3>1, <3>2, <3>4, <4>1 DEF TokensIn
        <3> QED BY <3>3, <3>4
    <2>2. new \subseteq (1 .. Len(r)) \X (1 .. l) BY DEF Slice
    <2>3. TokensIn(s, l) \subseteq (1 .. Len(r)) \X (1 .. l) BY DEF TokensIn
    <2>4. TokensIn(r, l) \subseteq (1 .. Len(r)) \X (1 .. l) BY DEF TokensIn
    <2> QED BY <2>1, <2>2, <2>3, <2>4
<1>2. TokensIn(s, l) \cap new = {} BY DEF TokensIn, Slice
<1>3. IsFiniteSet(new) /\ Cardinality(new) = l
    <2>1. IsFiniteSet(new) /\ Cardinality(new) = l - 0 BY SliceSize
    <2> QED BY <2>1
<1>4. IsFiniteSet(TokensIn(s, l)) /\ Cardinality(TokensIn(s, l)) \in Nat BY TokensFinite
<1>5. Cardinality(TokensIn(r, l)) = Cardinality(TokensIn(s, l)) + Cardinality(new)
    BY <1>1, <1>2, <1>3, <1>4, DisjointSize
<1> QED BY <1>3, <1>4, <1>5

-----------------------------------------------------------------------------

\* A limiter that changes changes the tokens by as much, up or down.
LEMMA ChangedTokens ==
    ASSUME LimiterInv, NEW t \in Tenants, Limited(t), NEW i \in 1 .. Len(buckets[t]),
           NEW b \in Bucket(t), Changes(t, i, b)
    PROVE  /\ Len(buckets'[t]) = Len(buckets[t])
           /\ buckets[t][i].tokens \in Nat /\ b.tokens \in Nat
           /\ Cardinality(TokensIn(buckets'[t], LimitOf(t)))
                = Cardinality(TokensIn(buckets[t], LimitOf(t))) + (b.tokens - buckets[t][i].tokens)
<1> DEFINE l == LimitOf(t)
           s == buckets[t]
           r == buckets'[t]
<1>1. l \in Nat /\ NewLimiter(t).tokens = l BY LimitType
<1>2. s \in Seq(Bucket(t)) BY DEF LimiterInv, BucketsOK
<1>3. r = [s EXCEPT ![i] = b] /\ Len(r) = Len(s) BY ChangedBuckets DEF LimiterInv
<1>4. Len(s) \in Nat /\ s[i] \in Bucket(t) /\ DOMAIN s = 1 .. Len(s) BY <1>2, LenProperties
<1>5. r[i] = b /\ \A j \in 1 .. Len(s) : j # i => r[j] = s[j] BY <1>3, <1>4
<1>6. s[i].tokens \in 0 .. l /\ r[i].tokens \in 0 .. l BY <1>1, <1>4, <1>5 DEF Bucket
<1>a. i \in 1 .. Len(s) /\ i \in 1 .. Len(r) /\ \A j \in 1 .. Len(r) : j # i => s[j] = r[j]
    BY <1>3, <1>5
<1>b. Len(r) = Len(s) /\ Len(s) \in Nat BY <1>3, <1>4
<1> HIDE DEF l, s, r
<1>7. Cardinality(TokensIn(s, l)) \in Nat /\ Cardinality(TokensIn(r, l)) \in Nat
    BY <1>1, <1>3, <1>4, TokensFinite
<1>8. CASE s[i].tokens <= r[i].tokens
    <2>1. Cardinality(TokensIn(r, l)) = Cardinality(TokensIn(s, l)) + (r[i].tokens - s[i].tokens)
        <3>1. \A j \in 1 .. Len(s) : j # i => r[j] = s[j] BY <1>5
        <3>2. Rises(i, s, r, l) BY <1>6, <1>8, <1>a, <1>b, <3>1 DEF Rises
        <3>3. Gains(i, s, r, l) BY <1>1, <3>2, TokensRise
        <3> QED BY <3>3 DEF Gains
    <2> QED BY <1>3, <1>5, <1>6, <2>1 DEF l, s, r
<1>9. CASE ~(s[i].tokens <= r[i].tokens)
    <2>1. Cardinality(TokensIn(s, l)) = Cardinality(TokensIn(r, l)) + (s[i].tokens - r[i].tokens)
        <3>1. Len(r) \in Nat /\ Len(s) = Len(r) /\ r[i].tokens <= s[i].tokens
            BY <1>3, <1>4, <1>6, <1>9
        <3>2. Rises(i, r, s, l) BY <1>6, <1>a, <3>1 DEF Rises
        <3>3. Gains(i, r, s, l) BY <1>1, <3>2, TokensRise
        <3> QED BY <3>3 DEF Gains
    <2>2. Cardinality(TokensIn(r, l)) = Cardinality(TokensIn(s, l)) + (r[i].tokens - s[i].tokens)
        BY <1>6, <1>7, <2>1
    <2> QED BY <1>3, <1>5, <1>6, <2>2 DEF l, s, r
<1> QED BY <1>8, <1>9

\* Whose limiters, tokens taken and tokens granted are as before.
LEMMA UntouchedTenant ==
    ASSUME NEW u, TokensOK(u), buckets'[u] = buckets[u], passed'[u] = passed[u],
           granted'[u] = granted[u]
    PROVE  TokensOK(u)'
<1>1. CASE Limited(u)
    BY <1>1 DEF TokensOK
<1>2. CASE ~Limited(u) BY <1>2 DEF TokensOK, Limited, LimitOf
<1> QED BY <1>1, <1>2

\* The numbers of a tenant's balance.
LEMMA BalanceTypes ==
    ASSUME LimiterInv, NEW t \in Tenants, Limited(t)
    PROVE  /\ LimitOf(t) \in Nat /\ Len(buckets[t]) \in Nat
           /\ passed[t] \in Nat /\ granted[t] \in Nat
           /\ LimitOf(t) * Len(buckets[t]) \in Nat
           /\ Cardinality(TokensIn(buckets[t], LimitOf(t))) \in Nat
<1>1. LimitOf(t) \in Nat /\ Len(buckets[t]) \in Nat BY LimitType, Lengths DEF LimiterInv
<1>2. passed[t] \in Nat /\ granted[t] \in Nat BY DEF LimiterInv, TotalsOK
<1>3. LimitOf(t) * Len(buckets[t]) \in Nat BY <1>1
<1>4. Cardinality(TokensIn(buckets[t], LimitOf(t))) \in Nat BY <1>1, TokensFinite
<1> QED BY <1>1, <1>2, <1>3, <1>4

\* A limiter of t changes while passed + tokens grows by no more than granted.
LEMMA BalanceKept ==
    ASSUME LimiterInv, TokenInv, NEW t \in Tenants, NEW i \in 1 .. Len(buckets[t]),
           NEW b \in Bucket(t), Changes(t, i, b), NEW p \in Nat, NEW g \in Nat,
           passed' = [passed EXCEPT ![t] = @ + p], granted' = [granted EXCEPT ![t] = @ + g],
           p + (b.tokens - buckets[t][i].tokens) <= g
    PROVE  TokenInv'
<1>1. passed \in [Tenants -> Nat] /\ granted \in [Tenants -> Nat] BY DEF LimiterInv, TotalsOK
<1>2. ASSUME NEW u \in Tenants \ {t} PROVE TokensOK(u)'
    <2>1. buckets'[u] = buckets[u] BY ChangedBuckets DEF LimiterInv
    <2>2. passed'[u] = passed[u] /\ granted'[u] = granted[u] BY <1>1
    <2> QED BY <2>1, <2>2, UntouchedTenant DEF TokenInv
<1>3. TokensOK(t)'
    <2>1. CASE Limited(t)
        <3> DEFINE l == LimitOf(t)
                   k == Cardinality(TokensIn(buckets[t], l))
                   q == Cardinality(TokensIn(buckets'[t], l))
                   m == l * Len(buckets[t])
        <3>1. /\ Len(buckets'[t]) = Len(buckets[t]) /\ q = k + (b.tokens - buckets[t][i].tokens)
              /\ buckets[t][i].tokens \in Nat /\ b.tokens \in Nat
            BY <2>1, ChangedTokens
        <3>2. passed[t] \in Nat /\ granted[t] \in Nat /\ m \in Nat /\ k \in Nat
            BY <2>1, BalanceTypes
        <3>3. passed[t] + k <= m + granted[t] BY <2>1 DEF TokenInv, TokensOK
        <3>4. passed'[t] = passed[t] + p /\ granted'[t] = granted[t] + g BY <1>1
        <3>5. l * Len(buckets'[t]) = m BY <3>1
        <3> HIDE DEF l, k, q, m
        <3>6. passed[t] + p + q <= m + (granted[t] + g)
            <4>1. PICK x \in Int : x = b.tokens - buckets[t][i].tokens BY <3>1
            <4>2. q = k + x /\ p + x <= g BY <3>1, <4>1
            <4>3. passed[t] \in Nat /\ granted[t] \in Nat /\ m \in Nat /\ k \in Nat /\ x \in Int BY <3>2, <4>1
            <4>4. passed[t] + p + (k + x) = (passed[t] + k) + (p + x) BY <4>3
            <4>5. passed[t] + k \in Int /\ p + x \in Int /\ m + granted[t] \in Int BY <4>3, SMTT(30)
            <4>6. (passed[t] + k) + (p + x) <= (m + granted[t]) + g BY <3>3, <4>2, <4>5, SMTT(30)
            <4>7. (m + granted[t]) + g = m + (granted[t] + g) BY <4>3
            <4> QED BY <4>2, <4>4, <4>6, <4>7
        <3>7. passed'[t] + q <= m + granted'[t] BY <3>4, <3>6
        <3> QED BY <3>5, <3>7 DEF l, q, TokensOK, LimitOf
    <2>2. CASE ~Limited(t) BY <2>2 DEF TokensOK, Limited, LimitOf
    <2> QED BY <2>1, <2>2
<1> QED BY <1>2, <1>3 DEF TokenInv

\* A new limiter brings its burst with it.
LEMMA StoreKeepsBalance ==
    ASSUME LimiterInv, TokenInv, NEW t \in Tenants, UNCHANGED <<passed, granted>>,
           buckets'[t] = Append(buckets[t], NewLimiter(t)),
           \A u \in Tenants \ {t} : buckets'[u] = buckets[u]
    PROVE  TokenInv'
<1>1. ASSUME NEW u \in Tenants \ {t} PROVE TokensOK(u)'
    BY <1>1, UntouchedTenant DEF TokenInv
<1>2. TokensOK(t)'
    <2>1. CASE Limited(t)
        <3> DEFINE l == LimitOf(t)
                   s == buckets[t]
                   r == buckets'[t]
                   n == Len(buckets[t])
        <3>1. s \in Seq(Bucket(t)) /\ NewLimiter(t) \in Bucket(t)
            BY LimitType DEF LimiterInv, BucketsOK
        <3>2. /\ Len(r) = n + 1 /\ r[n + 1] = NewLimiter(t)
              /\ \A j \in 1 .. n : r[j] = s[j]
            BY <3>1, AppendProperties
        <3>3. l \in Nat /\ n \in Nat /\ NewLimiter(t).tokens = l
            BY <2>1, LimitType, BalanceTypes
        <3>4. Cardinality(TokensIn(r, l)) = Cardinality(TokensIn(s, l)) + l
            BY <3>2, <3>3, TokensAppended
        <3>5. /\ passed[t] \in Nat /\ granted[t] \in Nat /\ l * n \in Nat
              /\ Cardinality(TokensIn(s, l)) \in Nat
            BY <2>1, BalanceTypes
        <3>6. passed[t] + Cardinality(TokensIn(s, l)) <= l * n + granted[t]
            BY <2>1 DEF TokenInv, TokensOK
        <3>7. l * Len(r) = l * n + l BY <3>2, <3>3
        <3> HIDE DEF l, s, r, n
        <3>8. passed[t] + Cardinality(TokensIn(r, l)) <= l * Len(r) + granted[t]
            BY <3>3, <3>4, <3>5, <3>6, <3>7, SMTT(30)
        <3> QED BY <3>8 DEF l, r, TokensOK, LimitOf
    <2>2. CASE ~Limited(t) BY <2>2 DEF TokensOK, Limited, LimitOf
    <2> QED BY <2>1, <2>2
<1> QED BY <1>1, <1>2 DEF TokenInv

\* Every step keeps the balance of every tenant.
LEMMA TokenStep == LimiterInv /\ TokenInv /\ [Next]_vars => TokenInv'
<1> SUFFICES ASSUME LimiterInv, TokenInv, [Next]_vars PROVE TokenInv' OBVIOUS
<1>1. CASE UNCHANGED <<buckets, passed, granted>>
    BY <1>1, UntouchedTenant DEF TokenInv
<1>2. ASSUME NEW c \in Calls, LoadOrStore(c) PROVE TokenInv'
    <2>1. UNCHANGED <<passed, granted>> BY <1>2 DEF LoadOrStore
    <2>2. TenantOf(c) \in Tenants BY <1>2 DEF LoadOrStore, At, LimiterInv, ClaimsInv, ClaimsOK
    <2>3. PICK t \in Tenants : t = TenantOf(c) BY <2>2
    <2>4. CASE StoreNew(c) BY <2>1, <2>3, <2>4, StoredBuckets, StoreKeepsBalance DEF LimiterInv
    <2>5. CASE ~StoreNew(c)
        <3>1. buckets' = buckets BY <1>2, <2>5 DEF LoadOrStore
        <3> QED BY <1>1, <2>1, <3>1
    <2> QED BY <2>4, <2>5
\* Touch leaves the tokens as they are.
<1>3. ASSUME NEW c \in Calls, Touch(c) PROVE TokenInv'
    <2> DEFINE b == [Held(c) EXCEPT !.idle = FALSE]
    <2>1. /\ TenantOf(c) \in Tenants /\ held[c] \in 1 .. Len(buckets[TenantOf(c)])
          /\ Held(c) \in Bucket(TenantOf(c))
        BY <1>3, HeldBucket DEF Touch, At
    <2>2. PICK t \in Tenants, i \in Nat : t = TenantOf(c) /\ i = held[c] BY <2>1
    <2>3. Changes(t, i, b) BY <1>3, <2>2 DEF Touch, Changes, Held
    <2>4. b \in Bucket(t) /\ b.tokens = buckets[t][i].tokens /\ b.tokens \in Nat
        <3>1. Held(c) \in Bucket(t) /\ Held(c) = buckets[t][i] BY <2>1, <2>2 DEF Held
        <3>2. b \in Bucket(t) /\ b.tokens = Held(c).tokens BY <3>1 DEF Bucket
        <3>3. Held(c).tokens \in Nat BY <3>1, LimitType DEF Bucket
        <3> QED BY <3>1, <3>2, <3>3
    <2>5. passed' = [passed EXCEPT ![t] = @ + 0] /\ granted' = [granted EXCEPT ![t] = @ + 0]
        BY <1>3 DEF Touch, LimiterInv, TotalsOK
    <2>6. 0 + (b.tokens - buckets[t][i].tokens) <= 0 BY <2>4
    <2>7. i \in 1 .. Len(buckets[t]) BY <2>1, <2>2
    <2> HIDE DEF b
    <2> QED BY <2>3, <2>4, <2>5, <2>6, <2>7, BalanceKept
\* Allow moves a token from the limiter to the tokens taken.
<1>4. ASSUME NEW c \in Calls, LimiterAllow(c) PROVE TokenInv'
    <2>1. CASE UNCHANGED <<buckets, passed>>
        BY <1>1, <1>4, <2>1 DEF LimiterAllow
    <2>2. CASE passed' # passed
        <3> DEFINE b == [Held(c) EXCEPT !.tokens = Held(c).tokens - 1]
        <3>1. PICK t \in Tenants, i \in Nat : t = TenantOf(c) /\ i = held[c]
            <4>1. TenantOf(c) \in Tenants /\ held[c] \in 1 .. Len(buckets[TenantOf(c)])
                BY <1>4, <2>2, TakesOne
            <4> QED BY <4>1
        <3>2. /\ i \in 1 .. Len(buckets[t]) /\ b \in Bucket(t) /\ Changes(t, i, b)
              /\ passed' = [passed EXCEPT ![t] = @ + 1]
            BY <1>4, <2>2, <3>1, TakesOne
        <3>3. granted' = [granted EXCEPT ![t] = @ + 0]
            BY <1>4 DEF LimiterAllow, LimiterInv, TotalsOK
        <3>4. Held(c) \in Bucket(t) /\ Held(c) = buckets[t][i]
            BY <1>4, <3>1, HeldBucket DEF LimiterAllow, At, Held
        <3>5. b.tokens = buckets[t][i].tokens - 1 /\ buckets[t][i].tokens \in Nat
            BY <3>4, LimitType DEF Bucket
        <3>6. 1 + (b.tokens - buckets[t][i].tokens) <= 0 BY <3>5
        <3> HIDE DEF b
        <3> QED BY <3>2, <3>3, <3>6, BalanceKept
    <2>3. CASE passed' = passed /\ buckets' # buckets
        <3>1. passed' = [passed EXCEPT ![TenantOf(c)] = @ + 1] /\ TenantOf(c) \in Tenants
            BY <1>4, <2>3, HeldBucket DEF LimiterAllow, At
        <3> QED BY <2>3, <3>1 DEF LimiterInv, TotalsOK
    <2> QED BY <2>1, <2>2, <2>3
\* Time grants what it adds.
<1>5. ASSUME NEW t \in Tenants, NEW i \in DOMAIN buckets[t], Refill(t, i) \/ Rest(t, i)
      PROVE  TokenInv'
    <2>1. i \in 1 .. Len(buckets[t]) /\ passed' = passed BY <1>5, TimeRaises
    <2>2. PICK b \in Bucket(t) :
              /\ Changes(t, i, b)
              /\ b.tokens >= buckets[t][i].tokens
              /\ granted' = [granted EXCEPT ![t] = @ + (b.tokens - buckets[t][i].tokens)]
        BY <1>5, TimeRaises
    <2>3. passed' = [passed EXCEPT ![t] = @ + 0] BY <2>1 DEF LimiterInv, TotalsOK
    <2>4. buckets[t][i] \in Bucket(t) BY <2>1, LenProperties DEF LimiterInv, BucketsOK
    <2>5. buckets[t][i].tokens \in Nat /\ b.tokens \in Nat BY <2>4, LimitType DEF Bucket
    <2>6. PICK g \in Nat : g = b.tokens - buckets[t][i].tokens BY <2>2, <2>5
    <2>7. granted' = [granted EXCEPT ![t] = @ + g] /\ 0 + (b.tokens - buckets[t][i].tokens) <= g
        BY <2>2, <2>6
    <2> QED BY <2>1, <2>2, <2>3, <2>7, BalanceKept
<1>6. ASSUME NEW c \in Calls,
             \/ Arrive(c) \/ Admit(c) \/ Reject(c) \/ Release(c)
             \/ EdgeIdentity(c) \/ NoClaims(c) \/ LoadLimiter(c) \/ Handler(c)
      PROVE  UNCHANGED <<buckets, passed, granted>>
    BY <1>6 DEF Arrive, Admit, Reject, Release, EdgeIdentity, NoClaims, LoadLimiter, Handler,
       limiterVars
<1>7. (\E t \in Tenants : SweepLoad(t)) \/ SweepDelete \/ UNCHANGED vars
          => UNCHANGED <<buckets, passed, granted>>
    BY DEF SweepLoad, SweepDelete, vars, limiterVars
<1> QED BY <1>1, <1>2, <1>3, <1>4, <1>5, <1>6, <1>7 DEF Next

\* Without limiters there is nothing to take.
LEMMA TokenInit == Init => TokenInv
<1> SUFFICES ASSUME Init, NEW t \in Tenants, Limited(t) PROVE TokensOK(t)
    BY DEF TokenInv, TokensOK
<1>1. buckets[t] = <<>> /\ passed[t] = 0 /\ granted[t] = 0 BY DEF Init
<1>2. Len(buckets[t]) = 0 BY <1>1, EmptySeq
<1>3. TokensIn(buckets[t], LimitOf(t)) = {} BY <1>2 DEF TokensIn
<1>4. Cardinality(TokensIn(buckets[t], LimitOf(t))) = 0 BY <1>3, FS_EmptySet
<1>5. LimitOf(t) \in Nat BY LimitType
<1> QED BY <1>1, <1>2, <1>4, <1>5 DEF TokensOK

\* The balance, and the number of limiters a tenant ever had, bound what it has taken.
LEMMA PaceFollows ==
    ASSUME LimiterInv, TokenInv
    PROVE  RateIsPaced
<1> SUFFICES ASSUME NEW t \in Tenants, Limited(t)
             PROVE  passed[t] <= LimitOf(t) * (1 + evicted[t]) + granted[t]
    BY DEF RateIsPaced
<1> DEFINE l == LimitOf(t)
           n == Len(buckets[t])
           e == evicted[t]
           k == Cardinality(TokensIn(buckets[t], l))
<1>1. passed[t] + k <= l * n + granted[t] BY DEF TokenInv, TokensOK
<1>2. l \in Nat /\ n \in Nat /\ passed[t] \in Nat /\ granted[t] \in Nat /\ k \in Nat BY BalanceTypes
<1>3. e \in Nat BY DEF LimiterInv, TotalsOK
<1>4. n = e \/ n = e + 1 BY <1>3 DEF LimiterInv, StoredInv
<1> HIDE DEF l, n, e, k
<1>5. l * e \in Nat /\ l * (1 + e) = l * e + l /\ l * (e + 1) = l * e + l BY <1>2, <1>3
<1>6. l * n <= l * (1 + e) /\ l * n \in Nat /\ l * (1 + e) \in Nat BY <1>2, <1>4, <1>5
<1>7. passed[t] <= l * (1 + e) + granted[t] BY <1>1, <1>2, <1>6
<1> QED BY <1>7 DEF l, e

\* A tenant never takes more tokens than its burst, once more for each eviction, and what
\* time has granted, for any number of racing calls, tenants and tiers: calls that race in
\* getOrCreateLimiter share one limiter (ratelimit.go).
THEOREM RateAlwaysPaced == Spec => []RateIsPaced
<1>1. LimiterInv /\ TokenInv => RateIsPaced BY PaceFollows
<1> QED BY <1>1, TokenInit, TokenStep, LimiterInvariant, PTL DEF Spec
=============================================================================
