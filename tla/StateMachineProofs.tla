-------------------------- MODULE StateMachineProofs --------------------------
(***************************************************************************)
(* The two explicit state machines of the repository: the circuit breaker  *)
(* and the payment workflows of the gateway.  They share no state.         *)
(*                                                                         *)
(* The trial slot of Breaker is never leaked, for any number of            *)
(* goroutines, any threshold and every interleaving of the atomics.        *)
(*                                                                         *)
(* A payment of Gateway is undone at most once and moves money at most     *)
(* once, and never after its cancellation, for any number of payments and  *)
(* every order of events.                                                  *)
(***************************************************************************)
EXTENDS Breaker, Gateway, FiniteSetTheorems, SequenceTheorems, TLAPS

-----------------------------------------------------------------------------
(* The breaker *)

\* Samples never outnumber the window, and failures never outnumber the samples: with
\* the updates of both counters in one step, this is what keeps failures in its bound.
CountersInv == failures <= total

\* g will empty the trial slot, or turn the circuit out of half-open and then empty it.
Frees(g) ==
    \/ pc[g] \in {"clear", "reopen", "reopenState", "close", "closeState", "release"}
    \/ trial[g] /\ pc[g] \in {"work", "record"}

\* A taken slot of a half-open circuit has somebody who is going to free it, unless a trial
\* has panicked.
SlotInv == state = "HalfOpen" /\ issued => panicked \/ \E g \in Goroutines : Frees(g)

IInv == TypeOK /\ CountersInv /\ SlotInv

\* The counters and the types are kept by a step of a request.
LEMMA RequestType ==
    ASSUME TypeOK, CountersInv, NEW g \in Goroutines,
           \/ Arrive(g) \/ Allow(g) \/ RecordOutcome(g) \/ Panic(g)
           \/ \E c \in BOOLEAN : Work(g, c)
    PROVE  TypeOK' /\ CountersInv'
<1>1. CASE Arrive(g)
  BY <1>1 DEF Arrive, TypeOK, CountersInv, At, Goto, Locations
<1>2. CASE Allow(g)
  <2>1. CASE Load(g)
    BY <2>1 DEF Load, TypeOK, CountersInv, At, Goto, Locations
  <2>2. CASE Check(g)
    BY <2>2 DEF Check, TypeOK, CountersInv, At, Goto, Locations
  <2>3. CASE Flip(g)
    BY <2>3 DEF Flip, TypeOK, CountersInv, At, Goto, Locations
  <2>4. CASE Clear(g)
    BY <2>4 DEF Clear, TypeOK, CountersInv, At, Goto, Locations
  <2>5. CASE TryHalfOpenTrial(g)
    BY <2>5 DEF TryHalfOpenTrial, TypeOK, CountersInv, At, Goto, Locations
  <2> QED
    BY <1>2, <2>1, <2>2, <2>3, <2>4, <2>5 DEF Allow
<1>3. CASE RecordOutcome(g)
  <2>1. CASE Record(g)
    BY <2>1 DEF Record, TypeOK, CountersInv, At, Goto, Locations
  <2>2. CASE Reopen(g) \/ ReopenState(g)
    BY <2>2 DEF Reopen, ReopenState, TypeOK, CountersInv, At, Goto, Locations
  <2>3. CASE Close(g) \/ CloseState(g)
    BY <2>3, BreakerAssumption DEF Close, CloseState, TypeOK, CountersInv, At, Goto, Locations
  <2>4. CASE Release(g)
    BY <2>4 DEF Release, Return, TypeOK, CountersInv, At, Goto, Locations
  <2>5. ASSUME AddSample(g)
        PROVE  total' \in 0 .. MaxSamples /\ failures' \in 0 .. MaxSamples /\ failures' <= total'
    BY <2>5, BreakerAssumption DEF AddSample, TypeOK, CountersInv
  <2>6. CASE Count(g)
    BY <2>5, <2>6 DEF Count, Return, TypeOK, CountersInv, At, Goto, Locations
  <2>7. CASE CountStale(g)
    BY <2>5, <2>7 DEF CountStale, Return, TypeOK, CountersInv, At, Goto, Locations
  <2>8. CASE Trip(g)
    BY <2>8 DEF Trip, TypeOK, CountersInv, At, Goto, Locations
  <2>9. CASE TripState(g)
    BY <2>9 DEF TripState, Return, TypeOK, CountersInv, At, Goto, Locations
  <2> QED
    BY <1>3, <2>1, <2>2, <2>3, <2>4, <2>6, <2>7, <2>8, <2>9 DEF RecordOutcome
<1>4. CASE \E c \in BOOLEAN : Work(g, c)
  BY <1>4 DEF Work, TypeOK, CountersInv, At, Goto, Locations
<1>5. CASE Panic(g)
  BY <1>5 DEF Panic, Return, TypeOK, CountersInv, At, Goto, Locations
<1> QED
  BY <1>1, <1>2, <1>3, <1>4, <1>5

\* A step of Allow keeps SlotInv.
LEMMA AllowSlot ==
    ASSUME TypeOK, SlotInv, NEW g \in Goroutines, Allow(g)
    PROVE  SlotInv'
<1>1. CASE Load(g)
  BY <1>1 DEF Load, TypeOK, SlotInv, Frees, At, Goto
<1>2. CASE Check(g)
  BY <1>2 DEF Check, TypeOK, SlotInv, Frees, At, Goto
<1>3. CASE Flip(g)
  BY <1>3 DEF Flip, TypeOK, SlotInv, Frees, At, Goto
<1>4. CASE Clear(g)
  BY <1>4 DEF Clear, TypeOK, SlotInv, Frees, At, Goto
<1>5. CASE TryHalfOpenTrial(g)
  BY <1>5 DEF TryHalfOpenTrial, TypeOK, SlotInv, Frees, At, Goto
<1> QED
  BY <1>1, <1>2, <1>3, <1>4, <1>5 DEF Allow

\* A step of RecordOutcome keeps SlotInv: the goroutine that leaves half-open with the
\* slot taken is about to free it, and a counted sample never was in half-open.
LEMMA RecordSlot ==
    ASSUME TypeOK, SlotInv, NEW g \in Goroutines, RecordOutcome(g)
    PROVE  SlotInv'
<1>1. CASE Record(g)
  BY <1>1 DEF Record, TypeOK, SlotInv, Frees, At, Goto
<1>2. CASE Reopen(g) \/ ReopenState(g)
  BY <1>2 DEF Reopen, ReopenState, TypeOK, SlotInv, Frees, At, Goto
<1>3. CASE Close(g) \/ CloseState(g)
  BY <1>3 DEF Close, CloseState, TypeOK, SlotInv, Frees, At, Goto
<1>4. CASE Release(g)
  BY <1>4 DEF Release, SlotInv
<1>5. CASE Count(g) \/ CountStale(g)
  BY <1>5 DEF Count, CountStale, Return, TypeOK, SlotInv, Frees, At, Goto
<1>6. CASE Trip(g) \/ TripState(g)
  BY <1>6 DEF Trip, TripState, Return, TypeOK, SlotInv, Frees, At, Goto
<1> QED
  BY <1>1, <1>2, <1>3, <1>4, <1>5, <1>6 DEF RecordOutcome

\* IInv is inductive.
LEMMA NextIInv == IInv /\ [Next]_vars => IInv'
<1> SUFFICES ASSUME IInv, [Next]_vars PROVE IInv'
  OBVIOUS
<1>0. TypeOK /\ CountersInv /\ SlotInv
  BY DEF IInv
<1>1. CASE Cool
  BY <1>0, <1>1 DEF IInv, Cool, TypeOK, CountersInv, SlotInv, Frees
<1>2. ASSUME NEW g \in Goroutines, Arrive(g)
      PROVE  IInv'
  <2>1. SlotInv'
    BY <1>0, <1>2 DEF Arrive, TypeOK, SlotInv, Frees, At, Goto
  <2> QED
    BY <1>0, <1>2, <2>1, RequestType DEF IInv
<1>3. ASSUME NEW g \in Goroutines, Allow(g)
      PROVE  IInv'
  BY <1>0, <1>3, RequestType, AllowSlot DEF IInv
<1>4. ASSUME NEW g \in Goroutines, RecordOutcome(g)
      PROVE  IInv'
  BY <1>0, <1>4, RequestType, RecordSlot DEF IInv
<1>5. ASSUME NEW g \in Goroutines, NEW c \in BOOLEAN, Work(g, c)
      PROVE  IInv'
  <2>1. SlotInv'
    BY <1>0, <1>5 DEF Work, TypeOK, SlotInv, Frees, At, Goto
  <2> QED
    BY <1>0, <1>5, <2>1, RequestType DEF IInv
<1>6. ASSUME NEW g \in Goroutines, Panic(g)
      PROVE  IInv'
  <2>1. SlotInv'
    BY <1>0, <1>6 DEF Panic, Return, TypeOK, SlotInv, Frees, At, Goto
  <2> QED
    BY <1>0, <1>6, <2>1, RequestType DEF IInv
<1>7. CASE UNCHANGED vars
  BY <1>0, <1>7 DEF IInv, vars, TypeOK, CountersInv, SlotInv, Frees
<1> QED
  BY <1>1, <1>2, <1>3, <1>4, <1>5, <1>6, <1>7 DEF Next

\* The inductive invariant holds in every state.
LEMMA Inductive == Spec => []IInv
<1>1. Init => IInv
  <2> SUFFICES ASSUME Init PROVE IInv
    OBVIOUS
  <2>1. total \in 0 .. MaxSamples /\ failures \in 0 .. MaxSamples /\ CountersInv
    BY BreakerAssumption DEF Init, CountersInv
  <2>2. TypeOK
    BY <2>1 DEF Init, TypeOK, Locations
  <2>3. SlotInv
    BY DEF Init, SlotInv
  <2> QED
    BY <2>1, <2>2, <2>3 DEF IInv
<1> QED
  BY <1>1, NextIInv, PTL DEF Spec

\* Every state of the breaker is well-typed; the failures of a window never exceed it.
THEOREM BreakerTypeCorrect == Spec => []TypeOK
BY Inductive, PTL DEF IInv

\* A half-open circuit that no request is using has its trial slot free, so the next
\* request is admitted: no interleaving of Allow and RecordOutcome locks a tenant out, only a
\* trial that panics can.
THEOREM TrialSlotNeverLeaked == Spec => []TrialSlotIsNotLeaked
<1>1. IInv => TrialSlotIsNotLeaked
  BY DEF IInv, SlotInv, Frees, TrialSlotIsNotLeaked, Quiet
<1> QED
  BY <1>1, Inductive, PTL

-----------------------------------------------------------------------------
(* The payment workflows *)

\* The states before money can have moved, and the ones of a cancelled payment.
Early(kind) ==
    IF kind = "card_charge" THEN {"INITIATED", "AUTHORIZING", "AUTHORIZED"} ELSE {"REQUESTED"}

Cancelled == {"VOIDED", "CANCELLED"}

\* Where a workflow comes out when it moves on from s to n: Terminal is where the amount has
\* gone back, money moves only out of an early state, and so does a cancellation.
LEMMA TransitionRules ==
    ASSUME NEW kind, NEW s \in StatesOf(kind), NEW n, CanTransitionTo(kind, s, n)
    PROVE  /\ n \in StatesOf(kind)
           /\ ~Terminal(kind, s) /\ (n \in GivenBack <=> Terminal(kind, n))
           /\ n \in Moved => s \in Early(kind)
           /\ n \in Early(kind) => s \in Early(kind) /\ n \notin Moved \cup {"SETTLED"}
           /\ n \in Cancelled => s \in Early(kind) /\ n \notin Moved \cup {"SETTLED"}
           /\ s \notin Cancelled
<1> USE DEF CanTransitionTo, Terminal, Transitions, StatesOf, Early, Cancelled,
            GivenBack, Moved
<1>1. CASE kind = "card_charge"
    BY <1>1 DEF CardStates, ValidCardChargeTransitions
<1>2. CASE kind # "card_charge"
    BY <1>2 DEF OutboundStates, ValidOutboundTransitions
<1> QED BY <1>1, <1>2

\* The positions at which a history is in one of the states.
Visits(h, states) == {i \in DOMAIN h : h[i] \in states}

\* One more state is one more visit, or none.
LEMMA VisitsAppend ==
    ASSUME NEW S, NEW h \in Seq(S), NEW s \in S, NEW states
    PROVE  /\ Cardinality(Visits(h, states)) \in Nat
           /\ Cardinality(Visits(Append(h, s), states))
                = Cardinality(Visits(h, states)) + (IF s \in states THEN 1 ELSE 0)
<1> DEFINE n == Len(h)
           r == Append(h, s)
<1>1. n \in Nat /\ DOMAIN h = 1 .. n BY LenProperties
<1>2. /\ DOMAIN r = 1 .. n + 1 /\ r[n + 1] = s
      /\ \A i \in 1 .. n : r[i] = h[i]
    BY <1>1, AppendProperties, LenProperties
<1>3. IsFiniteSet(Visits(h, states)) /\ Cardinality(Visits(h, states)) \in Nat
    <2>1. Visits(h, states) \subseteq 1 .. n BY <1>1 DEF Visits
    <2>2. IsFiniteSet(1 .. n) BY <1>1, FS_Interval
    <2> QED BY <2>1, <2>2, FS_Subset, FS_CardinalityType
<1> HIDE DEF n, r
<1>4. CASE s \in states
    <2>1. Visits(r, states) = Visits(h, states) \cup {n + 1}
        BY <1>1, <1>2, <1>4 DEF Visits
    <2>2. n + 1 \notin Visits(h, states) BY <1>1 DEF Visits
    <2> QED BY <1>3, <1>4, <2>1, <2>2, FS_AddElement DEF r
<1>5. CASE s \notin states
    <2>1. Visits(r, states) = Visits(h, states) BY <1>1, <1>2, <1>5 DEF Visits
    <2> QED BY <1>3, <1>5, <2>1 DEF r
<1> QED BY <1>3, <1>4, <1>5

\* A history that has passed none of the states has visited none.
LEMMA VisitsNone ==
    ASSUME NEW h, h = <<>>, NEW states
    PROVE  Cardinality(Visits(h, states)) = 0
<1>1. Visits(h, states) = {} BY DEF Visits
<1> QED BY <1>1, FS_EmptySet

-----------------------------------------------------------------------------

\* What a history h says of a payment of that kind, now in state s.
PathOK(kind, h, s) ==
    /\ Cardinality(Visits(h, GivenBack)) = (IF Terminal(kind, s) THEN 1 ELSE 0)
    /\ Cardinality(Visits(h, Moved)) <= 1
    /\ s \in Early(kind) => /\ Cardinality(Visits(h, Moved)) = 0
                            /\ Cardinality(Visits(h, Moved \cup {"SETTLED"})) = 0
    /\ Cardinality(Visits(h, Cancelled)) > 0 =>
          s \in Cancelled /\ Cardinality(Visits(h, Moved \cup {"SETTLED"})) = 0

\* The first state: nothing has happened yet.
LEMMA FirstState ==
    ASSUME NEW kind, NEW s, s = IF kind = "card_charge" THEN "INITIATED" ELSE "REQUESTED"
    PROVE  /\ s \in StatesOf(kind) /\ ~Terminal(kind, s)
           /\ s \notin GivenBack /\ s \notin Moved \cup {"SETTLED"} /\ s \notin Cancelled
<1> USE DEF GivenBack, Moved, Cancelled, Terminal, Transitions, StatesOf
<1>1. CASE kind = "card_charge" BY <1>1 DEF ValidCardChargeTransitions, CardStates
<1>2. CASE kind # "card_charge" BY <1>2 DEF ValidOutboundTransitions, OutboundStates
<1> QED BY <1>1, <1>2

\* Start: the path of one state.
LEMMA PathStarts ==
    ASSUME NEW kind, NEW s \in StatesOf(kind), ~Terminal(kind, s), s \notin GivenBack,
           s \notin Moved \cup {"SETTLED"}, s \notin Cancelled,
           NEW h \in Seq(StatesOf(kind)), \A states : Cardinality(Visits(h, states)) = 0
    PROVE  PathOK(kind, Append(h, s), s)
<1>1. ASSUME NEW states, s \notin states PROVE Cardinality(Visits(Append(h, s), states)) = 0
    BY <1>1, VisitsAppend
<1> DEFINE r == Append(h, s)
<1>2. s \notin Moved OBVIOUS
<1>3. /\ Cardinality(Visits(r, GivenBack)) = 0
      /\ Cardinality(Visits(r, Moved)) = 0
      /\ Cardinality(Visits(r, Moved \cup {"SETTLED"})) = 0
      /\ Cardinality(Visits(r, Cancelled)) = 0
    BY <1>1, <1>2
<1> HIDE DEF r
<1> QED BY <1>3 DEF PathOK, r

\* A transition
LEMMA PathGoesOn ==
    ASSUME NEW kind, NEW h \in Seq(StatesOf(kind)), NEW s \in StatesOf(kind),
           PathOK(kind, h, s), NEW n, CanTransitionTo(kind, s, n)
    PROVE  n \in StatesOf(kind) /\ PathOK(kind, Append(h, n), n)
<1> DEFINE C(g, states) == Cardinality(Visits(g, states))
           r == Append(h, n)
<1>1. /\ n \in StatesOf(kind)
      /\ ~Terminal(kind, s) /\ (n \in GivenBack <=> Terminal(kind, n))
      /\ n \in Moved => s \in Early(kind)
      /\ n \in Early(kind) => s \in Early(kind) /\ n \notin Moved \cup {"SETTLED"}
      /\ n \in Cancelled => s \in Early(kind) /\ n \notin Moved \cup {"SETTLED"}
      /\ s \notin Cancelled
    BY TransitionRules
<1>2. ASSUME NEW states
      PROVE  C(h, states) \in Nat /\ C(r, states) = C(h, states) + (IF n \in states THEN 1 ELSE 0)
    BY <1>1, VisitsAppend
<1>3. /\ C(h, GivenBack) = 0 /\ C(h, Moved) <= 1
      /\ s \in Early(kind) => C(h, Moved) = 0 /\ C(h, Moved \cup {"SETTLED"}) = 0
      /\ ~(C(h, Cancelled) > 0)
    BY <1>1 DEF PathOK
<1> HIDE DEF C, r
<1>4. C(r, GivenBack) = (IF Terminal(kind, n) THEN 1 ELSE 0)
    <2>1. C(r, GivenBack) = C(h, GivenBack) + (IF n \in GivenBack THEN 1 ELSE 0) BY <1>2
    <2> QED BY <1>1, <1>3, <2>1
<1>5. C(r, Moved) <= 1
    <2>1. C(h, Moved) \in Nat /\ C(r, Moved) = C(h, Moved) + (IF n \in Moved THEN 1 ELSE 0)
        BY <1>2
    <2> QED BY <1>1, <1>3, <2>1
<1>6. n \in Early(kind) => C(r, Moved) = 0 /\ C(r, Moved \cup {"SETTLED"}) = 0
    <2>1. C(r, Moved) = C(h, Moved) + (IF n \in Moved THEN 1 ELSE 0) BY <1>2
    <2>2. C(r, Moved \cup {"SETTLED"})
            = C(h, Moved \cup {"SETTLED"}) + (IF n \in Moved \cup {"SETTLED"} THEN 1 ELSE 0)
        BY <1>2
    <2>3. n \notin Moved \cup {"SETTLED"} => n \notin Moved OBVIOUS
    <2> QED BY <1>1, <1>3, <2>1, <2>2, <2>3
<1>7. C(r, Cancelled) > 0 => n \in Cancelled /\ C(r, Moved \cup {"SETTLED"}) = 0
    <2>1. C(h, Cancelled) \in Nat
          /\ C(r, Cancelled) = C(h, Cancelled) + (IF n \in Cancelled THEN 1 ELSE 0)
        BY <1>2
    <2>2. C(r, Moved \cup {"SETTLED"})
            = C(h, Moved \cup {"SETTLED"}) + (IF n \in Moved \cup {"SETTLED"} THEN 1 ELSE 0)
        BY <1>2
    <2>3. C(r, Cancelled) > 0 => n \in Cancelled BY <1>3, <2>1
    <2> QED BY <1>1, <1>3, <2>2, <2>3
<1> QED BY <1>1, <1>4, <1>5, <1>6, <1>7 DEF PathOK, C, r

-----------------------------------------------------------------------------

WorkflowTypes ==
    /\ request \in [Keys -> Requests \cup {None}]
    /\ history = [k \in Keys |-> history[k]]
    /\ applied = [k \in Keys |-> applied[k]]
    /\ paged = [k \in Keys |-> paged[k]]

\* A workflow that has started went a legal way so far; one that has not has left no trace.
WorkflowOK(k) ==
    \/ history[k] = <<>> /\ applied[k] = {} /\ paged[k] = {}
    \/ /\ history[k] # <<>> /\ request[k] \in Requests
       /\ history[k] \in Seq(StatesOf(Kind(k)))
       /\ applied[k] \subseteq StatesOf(Kind(k))
       /\ paged[k] \subseteq StatesOf(Kind(k))
       /\ PathOK(Kind(k), history[k], State(k))

WorkflowInv == WorkflowTypes /\ \A k \in Keys : WorkflowOK(k)

\* A workflow that a step leaves alone.
LEMMA OtherWorkflow ==
    ASSUME NEW j, WorkflowOK(j), request'[j] = request[j], history'[j] = history[j],
           applied'[j] = applied[j], paged'[j] = paged[j]
    PROVE  WorkflowOK(j)'
BY DEF WorkflowOK, Kind, State

\* The state a workflow is in after Move.
LEMMA AfterMove ==
    ASSUME NEW S, NEW h \in Seq(S), NEW s \in S
    PROVE  /\ Append(h, s) \in Seq(S) /\ Append(h, s) # <<>>
           /\ Append(h, s)[Len(Append(h, s))] = s
BY AppendProperties

\* A workflow that has started is in a state of its kind.
LEMMA CurrentState ==
    ASSUME NEW k, WorkflowOK(k), Started(k)
    PROVE  State(k) \in StatesOf(Kind(k))
<1>1. history[k] \in Seq(StatesOf(Kind(k))) /\ history[k] # <<>> BY DEF WorkflowOK, Started
<1>2. Len(history[k]) \in 1 .. Len(history[k]) BY <1>1, EmptySeq
<1> QED BY <1>1, <1>2, LenProperties DEF State

\* Start: the first state of a workflow that had left no trace.
LEMMA StartKeeps ==
    ASSUME WorkflowInv, NEW k \in Keys, NEW r \in Requests, Start(k, r)
    PROVE  WorkflowInv'
<1> DEFINE s == IF r.kind = "card_charge" THEN "INITIATED" ELSE "REQUESTED"
           h == history[k]
<1>1. /\ h = <<>> /\ request' = [request EXCEPT ![k] = r]
      /\ history' = [history EXCEPT ![k] = Append(h, s)] /\ UNCHANGED <<applied, paged>>
    BY DEF Start, Started, Move
<1>2. /\ WorkflowTypes /\ WorkflowOK(k) /\ \A j \in Keys : WorkflowOK(j) BY DEF WorkflowInv
<1>3. WorkflowTypes' BY <1>1, <1>2 DEF WorkflowTypes
<1>4. ASSUME NEW j \in Keys \ {k} PROVE WorkflowOK(j)'
    BY <1>1, <1>2, <1>4, OtherWorkflow DEF WorkflowTypes
<1>5. WorkflowOK(k)'
    <2>1. applied'[k] = {} /\ paged'[k] = {} BY <1>1, <1>2 DEF WorkflowOK
    <2>2. request'[k] = r /\ history'[k] = Append(h, s) BY <1>1, <1>2 DEF WorkflowTypes
    <2>3. /\ s \in StatesOf(r.kind) /\ ~Terminal(r.kind, s)
          /\ s \notin GivenBack /\ s \notin Moved \cup {"SETTLED"} /\ s \notin Cancelled
        BY FirstState
    <2>4. h \in Seq(StatesOf(r.kind)) /\ \A states : Cardinality(Visits(h, states)) = 0
        BY <1>1, EmptySeq, VisitsNone
    <2> HIDE DEF h, s
    <2>6. PathOK(r.kind, Append(h, s), s) BY <2>3, <2>4, PathStarts
    <2>5. /\ Append(h, s) \in Seq(StatesOf(r.kind)) /\ Append(h, s) # <<>>
          /\ Append(h, s)[Len(Append(h, s))] = s
        BY <2>3, <2>4, AfterMove
    <2> QED BY <2>1, <2>2, <2>5, <2>6 DEF WorkflowOK, Kind, State
<1> QED BY <1>3, <1>4, <1>5 DEF WorkflowInv

\* A change of state, by an event or by a cancellation.
LEMMA MoveKeeps ==
    ASSUME WorkflowInv, NEW k \in Keys, Started(k), NEW s,
           CanTransitionTo(Kind(k), State(k), s), Move(k, s), NEW A \in SUBSET {s},
           applied' = [applied EXCEPT ![k] = @ \cup A], UNCHANGED <<request, paged>>
    PROVE  WorkflowInv'
<1> DEFINE h == history[k]
           kind == Kind(k)
<1>1. /\ WorkflowTypes /\ WorkflowOK(k) /\ \A j \in Keys : WorkflowOK(j) BY DEF WorkflowInv
<1>2. history' = [history EXCEPT ![k] = Append(h, s)] BY DEF Move
<1>3. WorkflowTypes' BY <1>1, <1>2 DEF WorkflowTypes
<1>4. ASSUME NEW j \in Keys \ {k} PROVE WorkflowOK(j)'
    BY <1>1, <1>2, <1>4, OtherWorkflow DEF WorkflowTypes
<1>5. WorkflowOK(k)'
    <2>1. /\ h \in Seq(StatesOf(kind)) /\ request[k] \in Requests
          /\ applied[k] \subseteq StatesOf(kind)
          /\ paged[k] \subseteq StatesOf(kind)
          /\ PathOK(kind, h, State(k))
        BY <1>1 DEF WorkflowOK, Started
    <2>2. State(k) \in StatesOf(kind) BY <1>1, CurrentState
    <2>3. s \in StatesOf(kind) /\ PathOK(kind, Append(h, s), s) BY <2>1, <2>2, PathGoesOn
    <2>4. /\ request'[k] = request[k] /\ history'[k] = Append(h, s) /\ paged'[k] = paged[k]
          /\ applied'[k] = applied[k] \cup A
        BY <1>1, <1>2 DEF WorkflowTypes
    <2>5. /\ Append(h, s) \in Seq(StatesOf(kind)) /\ Append(h, s) # <<>>
          /\ Append(h, s)[Len(Append(h, s))] = s
        BY <2>1, <2>3, AfterMove
    <2>6. applied'[k] \subseteq StatesOf(kind) BY <2>1, <2>3, <2>4
    <2>7. Kind(k)' = kind /\ State(k)' = s BY <2>4, <2>5 DEF Kind, State
    <2> HIDE DEF h, kind
    <2> QED BY <2>1, <2>3, <2>4, <2>5, <2>6, <2>7 DEF WorkflowOK
<1> QED BY <1>3, <1>4, <1>5 DEF WorkflowInv

\* A cancellation that Cancellable allows and the table does not.
LEMMA PageKeeps ==
    ASSUME WorkflowInv, NEW k \in Keys, Started(k),
           paged' = [paged EXCEPT ![k] = @ \cup {State(k)}],
           UNCHANGED <<request, history, applied>>
    PROVE  WorkflowInv'
<1>1. /\ WorkflowTypes /\ WorkflowOK(k) /\ \A j \in Keys : WorkflowOK(j) BY DEF WorkflowInv
<1>2. WorkflowTypes' BY <1>1 DEF WorkflowTypes
<1>3. ASSUME NEW j \in Keys \ {k} PROVE WorkflowOK(j)'
    BY <1>1, <1>3, OtherWorkflow DEF WorkflowTypes
<1>4. State(k) \in StatesOf(Kind(k)) BY <1>1, CurrentState
<1>5. WorkflowOK(k)'
    <2>1. paged'[k] = paged[k] \cup {State(k)} BY <1>1 DEF WorkflowTypes
    <2>2. Kind(k)' = Kind(k) /\ State(k)' = State(k) BY DEF Kind, State
    <2> QED BY <1>1, <1>4, <2>1, <2>2 DEF WorkflowOK, Started
<1> QED BY <1>2, <1>3, <1>5 DEF WorkflowInv

\* Every step keeps the invariant of the workflows.
LEMMA WorkflowStep == WorkflowInv /\ [WorkflowNext]_workflowVars => WorkflowInv'
<1> SUFFICES ASSUME WorkflowInv, [WorkflowNext]_workflowVars PROVE WorkflowInv' OBVIOUS
<1>1. CASE UNCHANGED workflowVars
    BY <1>1, OtherWorkflow DEF workflowVars, WorkflowInv, WorkflowTypes
<1>2. ASSUME NEW k \in Keys, NEW s, Signal(k, s) PROVE WorkflowInv'
    <2>1. {s} \in SUBSET {s} OBVIOUS
    <2> QED BY <1>2, <2>1, MoveKeeps DEF Signal
<1>3. ASSUME NEW k \in Keys, Cancel(k) PROVE WorkflowInv'
    <2>1. CASE CanTransitionTo(Kind(k), State(k), CancelState(Kind(k)))
        <3>1. PICK s : s = CancelState(Kind(k)) OBVIOUS
        <3>2. /\ Started(k) /\ CanTransitionTo(Kind(k), State(k), s) /\ Move(k, s)
              /\ UNCHANGED <<request, applied, paged>>
            BY <1>3, <2>1, <3>1 DEF Cancel
        <3>3. applied' = [applied EXCEPT ![k] = @ \cup {}] /\ {} \in SUBSET {s}
            BY <3>2 DEF WorkflowInv, WorkflowTypes
        <3> QED BY <3>2, <3>3, MoveKeeps
    <2>2. CASE ~CanTransitionTo(Kind(k), State(k), CancelState(Kind(k)))
        BY <1>3, <2>2, PageKeeps DEF Cancel
    <2> QED BY <2>1, <2>2
<1> QED BY <1>1, <1>2, <1>3, StartKeeps DEF WorkflowNext

\* The invariant holds in every behaviour.
LEMMA WorkflowInvariant == WorkflowSpec => []WorkflowInv
<1>1. WorkflowInit => WorkflowInv
    BY DEF WorkflowInit, WorkflowInv, WorkflowTypes, WorkflowOK
<1> QED BY <1>1, WorkflowStep, PTL DEF WorkflowSpec

\* Times counts visits, with the Cardinality of its own module.
LEMMA TimesVisits ==
    ASSUME NEW k, NEW states
    PROVE  Times(k, states) = Cardinality(Visits(history[k], states))
BY DEF Times, Visits, Cardinality, Cardinality

\* The types of the gateway's workflows, for any number of payments: every state a payment has
\* been in, and every event applied to it, is one of its own kind of workflow.
THEOREM WorkflowTypeCorrect == WorkflowSpec => []WorkflowTypeOK
<1>1. WorkflowInv => WorkflowTypeOK
    <2> SUFFICES ASSUME WorkflowInv PROVE WorkflowTypeOK OBVIOUS
    <2>1. WorkflowTypes BY DEF WorkflowInv
    <2>2. ASSUME NEW k \in Keys
          PROVE  LET states == IF Started(k) THEN StatesOf(Kind(k)) ELSE {}
                 IN  /\ history[k] \in Seq(states)
                     /\ applied[k] \subseteq states
                     /\ paged[k] \subseteq states
                     /\ Started(k) => request[k] \in Requests
        <3>1. WorkflowOK(k) BY DEF WorkflowInv
        <3>2. CASE history[k] = <<>> BY <3>1, <3>2, EmptySeq DEF WorkflowOK, Started
        <3>3. CASE history[k] # <<>> BY <3>1, <3>3 DEF WorkflowOK, Started
        <3> QED BY <3>2, <3>3
    <2>3. DOMAIN history = Keys /\ DOMAIN applied = Keys /\ DOMAIN paged = Keys
        BY <2>1 DEF WorkflowTypes
    <2> QED BY <2>1, <2>2, <2>3 DEF WorkflowTypes, WorkflowTypeOK
<1> QED BY <1>1, WorkflowInvariant, PTL

\* However events, their copies and cancellations interleave, a payment is undone at most once,
\* Terminal holds exactly when it is, and its money moves at most once, for any number of
\* payments (card_charge.go, outbound_bank_transfer.go).
THEOREM WorkflowUndoneOnce == WorkflowSpec => []UndoneOnce
<1>1. WorkflowInv => UndoneOnce
    <2> SUFFICES ASSUME WorkflowInv, NEW k \in Keys, Started(k)
                 PROVE  /\ Times(k, GivenBack)
                             = (IF Terminal(Kind(k), State(k)) THEN 1 ELSE 0)
                        /\ Times(k, Moved) <= 1
        BY DEF UndoneOnce
    <2>1. PathOK(Kind(k), history[k], State(k)) BY DEF WorkflowInv, WorkflowOK, Started
    <2> QED BY <2>1, TimesVisits DEF PathOK
<1> QED BY <1>1, WorkflowInvariant, PTL

\* A payment that was cancelled has not moved and never does (outbound_bank_transfer.go: "Only
\* legal pre-IN_FLIGHT"), for any number of payments and any late events.
THEOREM WorkflowCancelledNeverMoves == WorkflowSpec => []CancelledNeverMoves
<1>1. WorkflowInv => CancelledNeverMoves
    <2> SUFFICES ASSUME WorkflowInv, NEW k \in Keys, Times(k, Cancelled) > 0
                 PROVE  Times(k, Moved \cup {"SETTLED"}) = 0
        BY DEF CancelledNeverMoves, Cancelled
    <2>1. WorkflowOK(k) BY DEF WorkflowInv
    <2>2. CASE history[k] = <<>>
        <3>1. Times(k, Cancelled) = 0 BY <2>2, TimesVisits, VisitsNone
        <3> QED BY <3>1
    <2>3. CASE history[k] # <<>>
        <3>1. PathOK(Kind(k), history[k], State(k)) BY <2>1, <2>3 DEF WorkflowOK
        <3> QED BY <3>1, TimesVisits DEF PathOK
    <2> QED BY <2>2, <2>3
<1> QED BY <1>1, WorkflowInvariant, PTL
=============================================================================
