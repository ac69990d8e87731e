----------------------------- MODULE Interceptors -----------------------------
(***************************************************************************)
(* The interceptor chain in front of the LedgerService handler             *)
(* (transport/grpc/server.go and transport/grpc/interceptors), one atomic  *)
(* operation at a time, under any number of concurrent unary calls:        *)
(*     Recovery > Admission > EdgeIdentity > RateLimit > handler           *)
(* RequestID and Logging keep no state and are left out.  The eviction     *)
(* sweeper of the rate limiter runs beside the calls.                      *)
(*                                                                         *)
(* Time is abstract: a bucket gains a token, or its last use falls behind  *)
(* IdleTTL, at any moment.  IdleTTL (5 minutes) is longer than a bucket    *)
(* takes to fill (2 seconds), so a bucket idle that long is full.          *)
(***************************************************************************)
EXTENDS Naturals, Sequences, FiniteSets

CONSTANTS Calls,         \* the goroutines of concurrent unary calls
          Tenants,
          MaxInFlight,   \* AdmissionConfig.MaxInFlight; 0: admission is off
          RateLimited,   \* cfg.RateLimit is set
          TierByTenant,  \* RateLimitConfig: tenant to tier,
          Tiers,         \*     tier to burst,
          Default,       \*     burst of a tier that Tiers does not know
          Unlimited,     \* the burst of a tier whose RPS is rate.Inf
          NoTenant,      \* no identity headers
          MaxGranted,    \* bound on the tokens time adds for a tenant
          MaxEvicted     \* bound on the evictions of a tenant

Limits == Nat \cup {Unlimited}

ASSUME InterceptorsAssumption ==
    /\ IsFiniteSet(Calls)
    /\ MaxInFlight \in Nat /\ MaxGranted \in Nat /\ MaxEvicted \in Nat
    /\ RateLimited \in BOOLEAN
    /\ Unlimited \notin Nat /\ NoTenant \notin Tenants
    /\ DOMAIN TierByTenant \subseteq Tenants
    /\ Default \in Limits /\ \A tier \in DOMAIN Tiers : Tiers[tier] \in Limits

VARIABLES
    pc,        \* pc[c]: the operation c is about to do
    call,      \* call[c]: the method and the tenant header of c's request
    result,    \* result[c]: the status that travels back up the chain
    current,   \* Admission: the atomic in-flight counter
    buckets,   \* buckets[t]: the limiters ever stored for t, oldest first
    limiters,  \* the sync.Map: index in buckets[t] of t's limiter, 0 for none
    held,      \* held[c]: index of the limiter c works with
    victim,    \* the tenant whose entry the sweeper found idle, about to be deleted
    passed,    \* passed[t]: tokens t's calls have taken
    granted,   \* granted[t]: tokens time has added to t's limiters
    evicted    \* evicted[t]: deletions of t's entry

admissionVars == <<current>>
limiterVars == <<buckets, limiters, held, passed, granted>>
sweeperVars == <<victim, evicted>>
vars == <<pc, call, result, admissionVars, limiterVars, sweeperVars>>

Locations == {"idle", "admit", "reject", "identity", "load", "store", "touch",
              "allow", "handler", "release"}

\* What a caller can send: a public method (a health check, whose headers nobody reads),
\* or a ledger method with or without a complete identity.
Requests == [method : {"public"}, tenant : {NoTenant}]
              \cup [method : {"ledger"}, tenant : Tenants \cup {NoTenant}]

\* A goroutine that serves nothing has this one.
NoRequest == [method |-> "public", tenant |-> NoTenant]

Statuses == {"none", "OK", "Internal", "Unauthenticated", "ResourceExhausted"}

\* The burst of t's tier.
LimitOf(t) ==
    LET tier == IF t \in DOMAIN TierByTenant THEN TierByTenant[t] ELSE "default"
    IN  IF tier \in DOMAIN Tiers THEN Tiers[tier] ELSE Default

Limited(t) == LimitOf(t) # Unlimited

\* rate.NewLimiter starts full.
NewLimiter(t) == [tokens |-> IF Limited(t) THEN LimitOf(t) ELSE 0, idle |-> FALSE]

TypeOK ==
    /\ pc \in [Calls -> Locations]
    /\ call \in [Calls -> Requests]
    /\ result \in [Calls -> Statuses]
    /\ current \in 0 .. Cardinality(Calls)
    /\ DOMAIN buckets = Tenants
    /\ \A t \in Tenants :
          /\ \A i \in DOMAIN buckets[t] : /\ buckets[t][i].tokens \in 0 .. NewLimiter(t).tokens
                                          /\ buckets[t][i].idle \in BOOLEAN
          /\ limiters[t] \in 0 .. Len(buckets[t])
    /\ \A c \in Calls : pc[c] \in {"touch", "allow"} =>
          held[c] \in 1 .. Len(buckets[call[c].tenant])
    /\ victim \in Tenants \cup {NoTenant}
    /\ passed \in [Tenants -> Nat] /\ granted \in [Tenants -> Nat] /\ evicted \in [Tenants -> Nat]

Init ==
    /\ pc = [c \in Calls |-> "idle"]
    /\ call = [c \in Calls |-> NoRequest]
    /\ result = [c \in Calls |-> "none"]
    /\ current = 0
    /\ buckets = [t \in Tenants |-> <<>>]
    /\ limiters = [t \in Tenants |-> 0]
    /\ held = [c \in Calls |-> 0]
    /\ victim = NoTenant
    /\ passed = [t \in Tenants |-> 0]
    /\ granted = [t \in Tenants |-> 0]
    /\ evicted = [t \in Tenants |-> 0]

At(c, l) == pc[c] = l
Goto(c, l) == pc' = [pc EXCEPT ![c] = l]
TenantOf(c) == call[c].tenant
Held(c) == buckets[TenantOf(c)][held[c]]

\* A request arrives at a free goroutine.
Arrive(c) ==
    /\ At(c, "idle")
    /\ \E r \in Requests : call' = [call EXCEPT ![c] = r]
    /\ Goto(c, IF MaxInFlight > 0 THEN "admit" ELSE "identity")
    /\ UNCHANGED <<result, admissionVars, limiterVars, sweeperVars>>

\* A status travels back up the chain to the deferred function of Admission, if it is on,
\* and to the caller.
Return(c, status) ==
    /\ result' = [result EXCEPT ![c] = status]
    /\ Goto(c, "release")

\* The answer is sent and the goroutine forgets the call.
Answered(c) ==
    /\ call' = [call EXCEPT ![c] = NoRequest]
    /\ result' = [result EXCEPT ![c] = "none"]
    /\ Goto(c, "idle")

-----------------------------------------------------------------------------
(* Admission *)

AdmitOneTooMany(c) ==
    /\ At(c, "admit")
    /\ current' = current + 1
    /\ Goto(c, IF current' > MaxInFlight + 1 THEN "reject" ELSE "identity")
    /\ UNCHANGED <<call, result, limiterVars, sweeperVars>>

\* next := current.Add(1), compared with the cap.
Admit(c) ==
    /\ At(c, "admit")
    /\ current' = current + 1
    /\ Goto(c, IF current' > MaxInFlight THEN "reject" ELSE "identity")
    /\ UNCHANGED <<call, result, limiterVars, sweeperVars>>

\* Over the cap: current.Add(-1) and RESOURCE_EXHAUSTED.
Reject(c) ==
    /\ At(c, "reject")
    /\ current' = current - 1
    /\ Answered(c)
    /\ UNCHANGED <<limiterVars, sweeperVars>>

ReleaseUnlessPanic(c) ==
    /\ At(c, "release")
    /\ current' = IF result[c] = "Internal" THEN current ELSE current - 1
    /\ Answered(c)
    /\ UNCHANGED <<limiterVars, sweeperVars>>

\* The deferred current.Add(-1), on every way out of the chain below, panics included; with
\* admission off there is nothing to undo.
Release(c) ==
    /\ At(c, "release")
    /\ current' = IF MaxInFlight > 0 THEN current - 1 ELSE current
    /\ Answered(c)
    /\ UNCHANGED <<limiterVars, sweeperVars>>

-----------------------------------------------------------------------------
(* EdgeIdentity *)

\* A public method goes on without claims; the others need the identity headers.
EdgeIdentity(c) ==
    /\ At(c, "identity")
    /\ IF call[c].method = "public" \/ TenantOf(c) # NoTenant
       THEN Goto(c, IF RateLimited THEN "load" ELSE "handler") /\ UNCHANGED result
       ELSE Return(c, "Unauthenticated")
    /\ UNCHANGED <<call, admissionVars, limiterVars, sweeperVars>>

-----------------------------------------------------------------------------
(* RateLimit *)

\* EdgeIdentity installs claims for a method that is not public.
HasClaims(c) == call[c].method # "public"

\* No claims in the context: fail closed.
NoClaims(c) ==
    /\ At(c, "load") /\ ~HasClaims(c)
    /\ Return(c, "Unauthenticated")
    /\ UNCHANGED <<call, admissionVars, limiterVars, sweeperVars>>

\* getOrCreateLimiter: the map is read first.
LoadLimiter(c) ==
    /\ At(c, "load") /\ HasClaims(c)
    /\ IF limiters[TenantOf(c)] # 0
       THEN held' = [held EXCEPT ![c] = limiters[TenantOf(c)]] /\ Goto(c, "touch")
       ELSE Goto(c, "store") /\ UNCHANGED held
    /\ UNCHANGED <<call, result, admissionVars, buckets, limiters, passed, granted, sweeperVars>>

\* A new limiter for c's tenant enters the map.
StoreNew(c) ==
    LET t == TenantOf(c) IN
    /\ buckets' = [buckets EXCEPT ![t] = Append(@, NewLimiter(t))]
    /\ limiters' = [limiters EXCEPT ![t] = Len(buckets'[t])]
    /\ held' = [held EXCEPT ![c] = Len(buckets'[t])]

StoreAlways(c) ==
    /\ At(c, "store")
    /\ StoreNew(c)
    /\ Goto(c, "touch")
    /\ UNCHANGED <<call, result, admissionVars, passed, granted, sweeperVars>>

\* LoadOrStore: a limiter stored since the read wins over c's own.
LoadOrStore(c) ==
    /\ At(c, "store")
    /\ IF limiters[TenantOf(c)] # 0
       THEN /\ held' = [held EXCEPT ![c] = limiters[TenantOf(c)]]
            /\ UNCHANGED <<buckets, limiters>>
       ELSE StoreNew(c)
    /\ Goto(c, "touch")
    /\ UNCHANGED <<call, result, admissionVars, passed, granted, sweeperVars>>

\* lastSeenUnix.Store(now)
Touch(c) ==
    /\ At(c, "touch")
    /\ buckets' = [buckets EXCEPT ![TenantOf(c)][held[c]].idle = FALSE]
    /\ Goto(c, "allow")
    /\ UNCHANGED <<call, result, admissionVars, limiters, held, passed, granted, sweeperVars>>

AllowUnchecked(c) ==
    LET t == TenantOf(c) IN
    /\ At(c, "allow")
    /\ buckets' = [buckets EXCEPT ![t][held[c]].tokens = @ - 1]
    /\ passed' = [passed EXCEPT ![t] = @ + 1]
    /\ Goto(c, "handler")
    /\ held' = [held EXCEPT ![c] = 0]
    /\ UNCHANGED <<call, result, admissionVars, limiters, granted, sweeperVars>>

\* limiter.Allow: takes a token, or refuses; a limiter with RPS = rate.Inf never refuses.
LimiterAllow(c) ==
    LET t == TenantOf(c) IN
    /\ At(c, "allow")
    /\ \/ /\ ~Limited(t)
          /\ Goto(c, "handler")
          /\ UNCHANGED <<result, buckets, passed>>
       \/ /\ Limited(t) /\ Held(c).tokens > 0
          /\ buckets' = [buckets EXCEPT ![t][held[c]].tokens = @ - 1]
          /\ passed' = [passed EXCEPT ![t] = @ + 1]
          /\ Goto(c, "handler")
          /\ UNCHANGED result
       \/ /\ Limited(t) /\ Held(c).tokens = 0
          /\ Return(c, "ResourceExhausted")
          /\ UNCHANGED <<buckets, passed>>
    /\ held' = [held EXCEPT ![c] = 0]
    /\ UNCHANGED <<call, admissionVars, limiters, granted, sweeperVars>>

\* Time adds a token to the i-th limiter of t.
Refill(t, i) ==
    /\ Limited(t) /\ granted[t] < MaxGranted
    /\ buckets[t][i].tokens < LimitOf(t)
    /\ buckets' = [buckets EXCEPT ![t][i].tokens = @ + 1]
    /\ granted' = [granted EXCEPT ![t] = @ + 1]
    /\ UNCHANGED <<pc, call, result, admissionVars, limiters, held, passed, sweeperVars>>

-----------------------------------------------------------------------------
(* The handler *)

\* The handler returns, or panics and Recovery turns the panic into Internal.
Handler(c) ==
    /\ At(c, "handler")
    /\ \E status \in {"OK", "Internal"} : Return(c, status)
    /\ UNCHANGED <<call, admissionVars, limiterVars, sweeperVars>>

-----------------------------------------------------------------------------
(* runEvictionSweeper *)

\* IdleTTL passes since the last use of the i-th limiter of t, which is full by then.
Rest(t, i) ==
    LET full == NewLimiter(t).tokens
        b == buckets[t][i] IN
    /\ ~b.idle /\ granted[t] + (full - b.tokens) <= MaxGranted
    /\ buckets' = [buckets EXCEPT ![t][i] = [tokens |-> full, idle |-> TRUE]]
    /\ granted' = [granted EXCEPT ![t] = @ + (full - b.tokens)]
    /\ UNCHANGED <<pc, call, result, admissionVars, limiters, held, passed, sweeperVars>>

\* Range comes to t's entry and reads a lastSeenUnix before the cutoff.
SweepLoad(t) ==
    /\ victim = NoTenant
    /\ limiters[t] # 0 /\ buckets[t][limiters[t]].idle
    /\ evicted[t] < MaxEvicted
    /\ victim' = t
    /\ UNCHANGED <<pc, call, result, admissionVars, limiterVars, evicted>>

\* limiters.Delete(k), whatever the entry has become.
SweepDelete ==
    /\ victim # NoTenant
    /\ limiters' = [limiters EXCEPT ![victim] = 0]
    /\ evicted' = [evicted EXCEPT ![victim] = @ + 1]
    /\ victim' = NoTenant
    /\ UNCHANGED <<pc, call, result, admissionVars, buckets, held, passed, granted>>

-----------------------------------------------------------------------------

Next ==
    \/ \E c \in Calls :
          \/ Arrive(c) \/ Admit(c) \/ Reject(c) \/ Release(c)
          \/ EdgeIdentity(c)
          \/ NoClaims(c) \/ LoadLimiter(c) \/ LoadOrStore(c) \/ Touch(c) \/ LimiterAllow(c)
          \/ Handler(c)
    \/ \E t \in Tenants : \E i \in DOMAIN buckets[t] : Refill(t, i) \/ Rest(t, i)
    \/ \E t \in Tenants : SweepLoad(t)
    \/ SweepDelete

Spec == Init /\ [][Next]_vars

-----------------------------------------------------------------------------
(* Properties *)

\* The calls Admission has let through and not yet released.
InFlight == {c \in Calls : pc[c] \in {"identity", "load", "store", "touch", "allow",
                                      "handler", "release"}}

\* The calls whose increment of the counter is not yet undone.
Counted == InFlight \cup {c \in Calls : pc[c] = "reject"}

\* The counter never drifts: it is the number of calls between their increment and the
\* matching decrement, whatever mix of rejections, error returns and panics came before
\* (admission.go: the decrement on overflow and the deferred one).  A drift upwards would
\* shrink the server's capacity for good.
CounterIsExact == MaxInFlight > 0 => current = Cardinality(Counted)

\* Although the counter overshoots the cap while rejected calls undo their increment, never
\* more than MaxInFlight calls are past Admission at once.
AtMostMaxInFlight == MaxInFlight > 0 => Cardinality(InFlight) <= MaxInFlight

\* A tenant's calls never take more tokens than its burst, once more for each eviction, and
\* what time has added: calls that race in getOrCreateLimiter share one limiter.
RateIsPaced ==
    \A t \in Tenants : Limited(t) =>
        passed[t] <= LimitOf(t) * (1 + evicted[t]) + granted[t]
=============================================================================
