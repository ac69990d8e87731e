------------------------------ MODULE PoolProofs ------------------------------
(***************************************************************************)
(* No path of InTx or drain loses a slot of a pool or gives one back       *)
(* twice, for any number of goroutines and any size of the pools.  A       *)
(* transaction that is open or committing has not released its slot, which *)
(* makes the count inductive.                                              *)
(***************************************************************************)
EXTENDS Pool, FiniteSetTheorems, TLAPS

\* The types of the state except for the bounds on free, which follow from the count.
StateOK ==
    /\ free \in [Pools -> Int]
    /\ pc \in [Users -> Locations]
    /\ released \in [Users -> BOOLEAN]
    /\ failure \in [Users -> {"none", "40001", "other"}]
    /\ attempt \in [Users -> 0 .. MaxAttempts - 1]
    /\ panics \in [Pools -> Nat]

\* releasingTx.released is FALSE until the transaction ends, and a retry has an attempt left.
LocalsOK ==
    \A u \in Users : /\ pc[u] \in {"tx", "commit"} => ~released[u]
                     /\ pc[u] = "retry" => attempt[u] < MaxAttempts - 1

SlotsInv == StateOK /\ LocalsOK /\ SlotsConserved

-----------------------------------------------------------------------------

\* The holders of a pool are a finite set.
LEMMA HoldersFinite ==
    ASSUME NEW p \in Pools
    PROVE  IsFiniteSet(Holders(p)) /\ Cardinality(Holders(p)) \in Nat
<1>1. IsFiniteSet(Users) BY PoolAssumption, FS_Union DEF Users
<1>2. Holders(p) \subseteq Users BY DEF Holders
<1> QED BY <1>1, <1>2, FS_Subset, FS_CardinalityType

\* The count when nobody's hold changes.
LEMMA NobodyMoves ==
    ASSUME SlotsInv, free' = free, panics' = panics, \A p \in Pools : Holders(p)' = Holders(p)
    PROVE  SlotsConserved'
BY DEF SlotsInv, SlotsConserved

\* The count when u takes a slot.
LEMMA OneEnters ==
    ASSUME SlotsInv, NEW u \in Users, Take(u), panics' = panics,
           u \notin Holders(PoolOf(u)),
           \A p \in Pools : Holders(p)' = IF p = PoolOf(u) THEN Holders(p) \cup {u} ELSE Holders(p)
    PROVE  SlotsConserved'
<1> SUFFICES ASSUME NEW p \in Pools
             PROVE  free'[p] + Cardinality(Holders(p)') + panics'[p] = MaxConns[p]
    BY DEF SlotsConserved
<1>1. /\ free[p] + Cardinality(Holders(p)) + panics[p] = MaxConns[p]
      /\ free \in [Pools -> Int] /\ panics[p] \in Nat
    BY DEF SlotsInv, StateOK, SlotsConserved
<1>2. IsFiniteSet(Holders(p)) /\ Cardinality(Holders(p)) \in Nat BY HoldersFinite
<1>3. CASE p = PoolOf(u)
    <2>1. Cardinality(Holders(p)') = Cardinality(Holders(p)) + 1 BY <1>2, <1>3, FS_AddElement
    <2>2. free'[p] = free[p] - 1 BY <1>1, <1>3 DEF Take
    <2> QED BY <1>1, <1>2, <2>1, <2>2
<1>4. CASE p # PoolOf(u)
    <2>1. free'[p] = free[p] BY <1>1, <1>4 DEF Take
    <2> QED BY <1>1, <1>4, <2>1
<1> QED BY <1>3, <1>4

\* The count when u leaves, with its slot given back or lost.
LEMMA OneLeaves ==
    ASSUME SlotsInv, NEW u \in Users,
           \/ Give(u) /\ panics' = panics
           \/ free' = free /\ panics' = [panics EXCEPT ![PoolOf(u)] = @ + 1],
           u \in Holders(PoolOf(u)),
           \A p \in Pools : Holders(p)' = IF p = PoolOf(u) THEN Holders(p) \ {u} ELSE Holders(p)
    PROVE  SlotsConserved'
<1> SUFFICES ASSUME NEW p \in Pools
             PROVE  free'[p] + Cardinality(Holders(p)') + panics'[p] = MaxConns[p]
    BY DEF SlotsConserved
<1>1. /\ free[p] + Cardinality(Holders(p)) + panics[p] = MaxConns[p]
      /\ free \in [Pools -> Int] /\ panics \in [Pools -> Nat]
    BY DEF SlotsInv, StateOK, SlotsConserved
<1>2. IsFiniteSet(Holders(p)) /\ Cardinality(Holders(p)) \in Nat BY HoldersFinite
<1>3. CASE p = PoolOf(u)
    <2>1. Cardinality(Holders(p)') = Cardinality(Holders(p)) - 1
        BY <1>2, <1>3, FS_RemoveElement
    <2>2. free'[p] + panics'[p] = free[p] + panics[p] + 1 BY <1>1, <1>3 DEF Give
    <2>3. free'[p] \in Int /\ panics'[p] \in Int BY <1>1, <1>3 DEF Give
    <2> QED BY <1>1, <1>2, <2>1, <2>2, <2>3
<1>4. CASE p # PoolOf(u)
    <2>1. free'[p] = free[p] /\ panics'[p] = panics[p] BY <1>1, <1>4 DEF Give
    <2> QED BY <1>1, <1>4, <2>1
<1> QED BY <1>3, <1>4

-----------------------------------------------------------------------------

\* Every step keeps the types and the flag of releasingTx.
LEMMA StepKeepsState ==
    ASSUME SlotsInv, [PoolNext]_poolVars
    PROVE  StateOK' /\ LocalsOK'
<1> USE PoolAssumption DEF SlotsInv, StateOK, LocalsOK, Locations
<1>1. CASE UNCHANGED poolVars BY <1>1 DEF poolVars
<1>2. ASSUME NEW u \in Users,
             Start(u) \/ Acquire(u) \/ TxStep(u) \/ Panic(u)
      PROVE  StateOK' /\ LocalsOK'
    <2> PoolOf(u) \in Pools BY DEF PoolOf, Pools
    <2> USE DEF At, Goto, Finish, Take, Give
    <2>1. CASE Start(u) BY <2>1 DEF Start
    <2>2. CASE Acquire(u) BY <2>2 DEF Acquire
    <2>3. CASE AcquireFails(u) BY <2>3 DEF AcquireFails
    <2>4. CASE BeginTx(u) BY <2>4 DEF BeginTx
    <2>5. CASE BeginTxFails(u) BY <2>5 DEF BeginTxFails
    <2>6. CASE BodySucceeds(u) BY <2>6 DEF BodySucceeds
    <2>7. CASE BodyFails(u) BY <2>7 DEF BodyFails, Errors
    <2>8. CASE RollbackEmptySuccess(u) BY <2>8 DEF RollbackEmptySuccess
    <2>9. CASE Panic(u) BY <2>9 DEF Panic
    <2>10. CASE Commit(u) BY <2>10 DEF Commit, Release, Errors
    <2>11. CASE Rollback(u) BY <2>11 DEF Rollback, Release, Retryable
    <2>12. CASE Retry(u) BY <2>12 DEF Retry
    <2>13. CASE GiveUp(u) BY <2>13 DEF GiveUp
    <2> QED BY <1>2, <2>1, <2>2, <2>3, <2>4, <2>5, <2>6, <2>7, <2>8, <2>9, <2>10, <2>11,
               <2>12, <2>13 DEF TxStep
<1> QED BY <1>1, <1>2 DEF PoolNext

\* Every step keeps the count.
LEMMA StepKeepsCount ==
    ASSUME SlotsInv, [PoolNext]_poolVars
    PROVE  SlotsConserved'
<1>1. CASE UNCHANGED poolVars BY <1>1, NobodyMoves DEF poolVars, Holders, Holds
<1>2. ASSUME NEW u \in Users,
             Start(u) \/ Acquire(u) \/ TxStep(u) \/ Panic(u)
      PROVE  SlotsConserved'
    <2> PoolOf(u) \in Pools BY DEF PoolOf, Pools
    <2>a. StateOK /\ LocalsOK BY DEF SlotsInv
    \* The goroutines that wait, start, run or give up keep what they hold.
    <2>1. CASE Start(u) \/ AcquireFails(u) \/ BeginTx(u) \/ BodySucceeds(u) \/ BodyFails(u)
               \/ Retry(u) \/ GiveUp(u)
        <3>1. \A p \in Pools : Holders(p)' = Holders(p)
            BY <2>1, <2>a DEF StateOK, LocalsOK, Holders, Holds, At, Goto, Finish, Start,
               AcquireFails, BeginTx, BodySucceeds, BodyFails, Retry, GiveUp
        <3>2. free' = free /\ panics' = panics
            BY <2>1 DEF Start, AcquireFails, BeginTx, BodySucceeds, BodyFails, Retry, GiveUp
        <3> QED BY <3>1, <3>2, NobodyMoves
    <2>2. CASE Acquire(u)
        <3>1. u \notin Holders(PoolOf(u)) BY <2>2 DEF Acquire, At, Holders, Holds
        <3>2. \A p \in Pools :
                 Holders(p)' = IF p = PoolOf(u) THEN Holders(p) \cup {u} ELSE Holders(p)
            BY <2>2, <2>a DEF StateOK, Acquire, At, Goto, Finish, Holders, Holds
        <3> QED BY <2>2, <3>1, <3>2, OneEnters DEF Acquire
    \* A failed begin, the rollback of an empty drain and a panic end the hold.
    <2>3. CASE BeginTxFails(u) \/ RollbackEmptySuccess(u) \/ Panic(u)
        <3>1. u \in Holders(PoolOf(u))
            BY <2>3 DEF BeginTxFails, RollbackEmptySuccess, Panic, At, Holders, Holds
        <3>2. \A p \in Pools :
                 Holders(p)' = IF p = PoolOf(u) THEN Holders(p) \ {u} ELSE Holders(p)
            BY <2>3, <2>a DEF StateOK, BeginTxFails, RollbackEmptySuccess, Panic, At, Goto, Finish,
               Holders, Holds
        <3>3. \/ Give(u) /\ panics' = panics
              \/ free' = free /\ panics' = [panics EXCEPT ![PoolOf(u)] = @ + 1]
            BY <2>3 DEF BeginTxFails, RollbackEmptySuccess, Panic
        <3> QED BY <3>1, <3>2, <3>3, OneLeaves
    <2>4. CASE Commit(u) \/ Rollback(u)
        <3>1. CASE released[u]
            <4>1. Rollback(u) BY <2>4, <3>1, <2>a DEF Commit, At, LocalsOK
            <4>2. \A p \in Pools : Holders(p)' = Holders(p)
                BY <3>1, <4>1, <2>a DEF StateOK, Rollback, Release, At, Goto, Finish, Holders, Holds
            <4> QED BY <3>1, <4>1, <4>2, NobodyMoves DEF Rollback, Release
        <3>2. CASE ~released[u]
            <4>1. u \in Holders(PoolOf(u))
                BY <2>4, <3>2 DEF Commit, Rollback, At, Holders, Holds
            <4>2. \A p \in Pools :
                     Holders(p)' = IF p = PoolOf(u) THEN Holders(p) \ {u} ELSE Holders(p)
                BY <2>4, <2>a DEF StateOK, Commit, Rollback, Release, At, Goto, Finish, Holders, Holds
            <4>3. Give(u) /\ panics' = panics
                BY <2>4, <3>2 DEF Commit, Rollback, Release
            <4> QED BY <4>1, <4>2, <4>3, OneLeaves
        <3> QED BY <3>1, <3>2
    <2> QED BY <1>2, <2>1, <2>2, <2>3, <2>4 DEF TxStep
<1> QED BY <1>1, <1>2 DEF PoolNext

-----------------------------------------------------------------------------

\* The initial state satisfies the invariant: every slot is free and nobody holds one.
LEMMA InitSlots == PoolInit => SlotsInv
<1> SUFFICES ASSUME PoolInit PROVE SlotsInv OBVIOUS
<1>1. StateOK /\ LocalsOK
    BY PoolAssumption DEF PoolInit, StateOK, LocalsOK, Locations, Pools
<1>2. \A p \in Pools : Holders(p) = {} BY DEF PoolInit, Holders, Holds
<1>3. Cardinality({}) = 0 BY FS_EmptySet
<1>4. \A p \in Pools : MaxConns[p] \in Nat BY PoolAssumption
<1>5. ASSUME NEW p \in Pools
      PROVE  free[p] + Cardinality(Holders(p)) + panics[p] = MaxConns[p]
    <2>1. free[p] = MaxConns[p] /\ panics[p] = 0 BY DEF PoolInit
    <2> QED BY <2>1, <1>2, <1>3, <1>4
<1> QED BY <1>1, <1>5 DEF SlotsInv, SlotsConserved

\* The invariant holds in every behaviour.
LEMMA SlotsInvariant == PoolSpec => []SlotsInv
<1>1. SlotsInv /\ [PoolNext]_poolVars => SlotsInv' BY StepKeepsState, StepKeepsCount DEF SlotsInv
<1> QED BY InitSlots, <1>1, PTL DEF PoolSpec

\* Every slot is free, held by the transaction that acquired it, or lost to a panic in InTx,
\* for any number of handlers and workers (pool.go, tx.go, outbox_repo.go).
THEOREM SlotsAreConserved == PoolSpec => []SlotsConserved
<1>1. SlotsInv => SlotsConserved BY DEF SlotsInv
<1> QED BY SlotsInvariant, <1>1, PTL

\* The type invariant: a pool never has fewer than zero or more than MaxConns free slots.
THEOREM PoolTypeCorrect == PoolSpec => []PoolTypeOK
<1>1. SlotsInv /\ SlotsInv' /\ [PoolNext]_poolVars /\ PoolTypeOK => PoolTypeOK'
    <2> SUFFICES ASSUME SlotsInv, SlotsInv', [PoolNext]_poolVars, PoolTypeOK, NEW p \in Pools
                 PROVE  free'[p] \in 0 .. MaxConns[p]
        BY DEF SlotsInv, StateOK, PoolTypeOK
    <2>1. free[p] \in 0 .. MaxConns[p] BY DEF PoolTypeOK
    <2>2. free'[p] \in Int /\ panics'[p] \in Nat /\ MaxConns[p] \in Nat
        BY PoolAssumption DEF SlotsInv, StateOK
    <2>3. free'[p] <= MaxConns[p]
        <3>1. Cardinality(Holders(p)') \in Nat
            <4>1. IsFiniteSet(Users) BY PoolAssumption, FS_Union DEF Users
            <4>2. Holders(p)' \subseteq Users BY DEF Holders
            <4> QED BY <4>1, <4>2, FS_Subset, FS_CardinalityType
        <3>2. free'[p] + Cardinality(Holders(p)') + panics'[p] = MaxConns[p]
            BY DEF SlotsInv, SlotsConserved
        <3> QED BY <2>2, <3>1, <3>2
    <2>4. free'[p] >= 0
        <3>1. CASE UNCHANGED poolVars BY <3>1, <2>1 DEF poolVars
        <3>2. ASSUME NEW u \in Users, Acquire(u) PROVE free'[p] >= 0
            BY <3>2, <2>1, <2>2 DEF Acquire, Take, PoolTypeOK
        <3>3. ASSUME NEW u \in Users, Give(u) \/ free' = free PROVE free'[p] >= 0
            BY <3>3, <2>1, <2>2 DEF Give, PoolTypeOK
        <3>4. PoolNext => \E u \in Users : Acquire(u) \/ Give(u) \/ free' = free
            BY DEF PoolNext, TxStep, Start, AcquireFails, BeginTx, BeginTxFails, BodySucceeds, BodyFails,
               RollbackEmptySuccess, Panic, Commit, Rollback, Retry, GiveUp, Release
        <3> QED BY <3>1, <3>2, <3>3, <3>4
    <2> QED BY <2>2, <2>3, <2>4
<1>2. PoolInit => PoolTypeOK
    BY PoolAssumption DEF PoolInit, PoolTypeOK, Locations, Pools
<1> QED BY SlotsInvariant, <1>1, <1>2, PTL DEF PoolSpec
=============================================================================
