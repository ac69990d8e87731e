--------------------------------- MODULE Pool ---------------------------------
(***************************************************************************)
(* The slots of the two connection pools (repository/pool.go) under the    *)
(* transactions that use them: InTx on the request pool (tx.go), with its  *)
(* retries and its deferred rollback, and the drain of the workers on the  *)
(* worker pool (outbox_repo.go, audit_drain.go).                           *)
(*                                                                         *)
(* A transaction is what it does to its slot: BeginTxWithAcquire takes it, *)
(* releasingTx gives it back.  A handler may panic inside InTx, and the    *)
(* Recovery interceptor keeps the process alive.                           *)
(***************************************************************************)
EXTENDS Integers, FiniteSets

CONSTANTS Handlers,     \* goroutines of gRPC handlers: users of the request pool
          Workers,      \* goroutines of the workers: users of the worker pool
          MaxConns,     \* MaxConns[p]: the slots of pool p
          MaxAttempts   \* RetryConfig.MaxAttempts

Pools == {"request", "worker"}
Users == Handlers \cup Workers

ASSUME PoolAssumption ==
    /\ IsFiniteSet(Handlers) /\ IsFiniteSet(Workers) /\ Handlers \cap Workers = {}
    /\ MaxConns \in [Pools -> Nat]
    /\ MaxAttempts \in Nat \ {0}

VARIABLES
    free,      \* free[p]: the slots of p that are not acquired
    pc,        \* pc[u]: the operation u is about to do
    released,  \* released[u]: releasingTx.released of u's latest transaction
    failure,   \* failure[u]: the error the current attempt returns, if any
    attempt,   \* attempt[u]: retries of WithRetryOnSerializationFailure so far
    panics     \* panics[p]: handlers that have panicked in a transaction

poolVars == <<free, pc, released, failure, attempt, panics>>

Locations == {"idle", "acquire", "begin", "tx", "commit", "rollback", "retry"}

PoolTypeOK ==
    /\ free \in [Pools -> Int]
    /\ \A p \in Pools : free[p] \in 0 .. MaxConns[p]
    /\ pc \in [Users -> Locations]
    /\ released \in [Users -> BOOLEAN]
    /\ failure \in [Users -> {"none", "40001", "other"}]
    /\ attempt \in [Users -> 0 .. MaxAttempts - 1]
    /\ panics \in [Pools -> Nat]

PoolInit ==
    /\ free = MaxConns
    /\ pc = [u \in Users |-> "idle"]
    /\ released = [u \in Users |-> TRUE]
    /\ failure = [u \in Users |-> "none"]
    /\ attempt = [u \in Users |-> 0]
    /\ panics = [p \in Pools |-> 0]

PoolOf(u) == IF u \in Handlers THEN "request" ELSE "worker"
At(u, l) == pc[u] = l
Goto(u, l) == pc' = [pc EXCEPT ![u] = l]
Take(u) == free' = [free EXCEPT ![PoolOf(u)] = @ - 1]
Give(u) == free' = [free EXCEPT ![PoolOf(u)] = @ + 1]

\* InTx or drain returns, and its local variables are gone.
Finish(u) == Goto(u, "idle") /\ attempt' = [attempt EXCEPT ![u] = 0]

\* InTx or drain is called.
Start(u) ==
    /\ At(u, "idle")
    /\ Goto(u, "acquire")
    /\ UNCHANGED <<free, released, failure, attempt, panics>>

-----------------------------------------------------------------------------
(* BeginTxWithAcquire *)

\* AcquireConn gets a connection.
Acquire(u) ==
    /\ At(u, "acquire") /\ free[PoolOf(u)] > 0
    /\ Take(u)
    /\ Goto(u, "begin")
    /\ UNCHANGED <<released, failure, attempt, panics>>

\* AcquireTimeout or the caller's deadline passes, or the driver fails: no slot is held,
\* and the error is not retried.
AcquireFails(u) ==
    /\ At(u, "acquire")
    /\ Finish(u)
    /\ UNCHANGED <<free, released, failure, panics>>

\* conn.BeginTx: the transaction starts with its slot unreleased.
BeginTx(u) ==
    /\ At(u, "begin")
    /\ released' = [released EXCEPT ![u] = FALSE]
    /\ Goto(u, "tx")
    /\ UNCHANGED <<free, failure, attempt, panics>>

BeginTxFailsHolding(u) ==
    /\ At(u, "begin")
    /\ Finish(u)
    /\ UNCHANGED <<free, released, failure, panics>>

\* conn.BeginTx fails: the connection is released at once.
BeginTxFails(u) ==
    /\ At(u, "begin")
    /\ Give(u)
    /\ Finish(u)
    /\ UNCHANGED <<released, failure, panics>>

-----------------------------------------------------------------------------
(* The body of InTx and of drain *)

\* The statements of the transaction succeed.
BodySucceeds(u) ==
    /\ At(u, "tx")
    /\ Goto(u, "commit")
    /\ UNCHANGED <<free, released, failure, attempt, panics>>

\* What a statement or the commit may fail with.  A drain does not tell errors apart.
Errors(u) == IF u \in Handlers THEN {"40001", "other"} ELSE {"other"}

\* A statement fails, and the deferred function rolls back.
BodyFails(u) ==
    /\ At(u, "tx")
    /\ \E e \in Errors(u) : failure' = [failure EXCEPT ![u] = e]
    /\ Goto(u, "rollback")
    /\ UNCHANGED <<free, released, attempt, panics>>

\* drain: nothing was published, so the transaction is rolled back at once.  The deferred
\* rollback is suppressed, unless this one failed.
RollbackEmptySuccess(u) ==
    /\ At(u, "tx") /\ u \in Workers
    /\ Give(u)
    /\ released' = [released EXCEPT ![u] = TRUE]
    /\ \/ Finish(u) /\ UNCHANGED failure
       \/ /\ Goto(u, "rollback") /\ failure' = [failure EXCEPT ![u] = "other"]
          /\ UNCHANGED attempt
    /\ UNCHANGED panics

\* The handler panics in InTx.  The deferred function runs with returnedErr nil: it neither
\* rolls back nor releases.
Panic(u) ==
    /\ At(u, "tx") /\ u \in Handlers
    /\ panics' = [panics EXCEPT ![PoolOf(u)] = @ + 1]
    /\ Finish(u)
    /\ UNCHANGED <<free, released, failure>>

-----------------------------------------------------------------------------
(* releasingTx *)

\* release is idempotent.
Release(u) ==
    /\ released' = [released EXCEPT ![u] = TRUE]
    /\ IF released[u] THEN UNCHANGED free ELSE Give(u)

\* Commit succeeds, or fails and the deferred function rolls back what is already closed.
Commit(u) ==
    /\ At(u, "commit")
    /\ Release(u)
    /\ \/ Finish(u) /\ UNCHANGED failure
       \/ /\ \E e \in Errors(u) : failure' = [failure EXCEPT ![u] = e]
          /\ Goto(u, "rollback")
          /\ UNCHANGED attempt
    /\ UNCHANGED panics

\* WithRetryOnSerializationFailure goes on after 40001 while attempts are left; a drain never
\* does.
Retryable(u) == u \in Handlers /\ failure[u] = "40001" /\ attempt[u] < MaxAttempts - 1

\* The deferred Rollback; the error is returned unless it is retried.
Rollback(u) ==
    /\ At(u, "rollback")
    /\ Release(u)
    /\ IF Retryable(u) THEN Goto(u, "retry") /\ UNCHANGED attempt ELSE Finish(u)
    /\ failure' = [failure EXCEPT ![u] = "none"]
    /\ UNCHANGED panics

\* The backoff passes, and InTx runs again.
Retry(u) ==
    /\ At(u, "retry")
    /\ attempt' = [attempt EXCEPT ![u] = @ + 1]
    /\ Goto(u, "acquire")
    /\ UNCHANGED <<free, released, failure, panics>>

\* ctx is done during the backoff.
GiveUp(u) ==
    /\ At(u, "retry")
    /\ Finish(u)
    /\ UNCHANGED <<free, released, failure, panics>>

-----------------------------------------------------------------------------

\* What InTx or drain does next by itself, once it is called and unless it panics.
TxStep(u) ==
    \/ AcquireFails(u) \/ BeginTx(u) \/ BeginTxFails(u)
    \/ BodySucceeds(u) \/ BodyFails(u) \/ RollbackEmptySuccess(u)
    \/ Commit(u) \/ Rollback(u) \/ Retry(u) \/ GiveUp(u)

PoolNext == \E u \in Users : Start(u) \/ Acquire(u) \/ TxStep(u) \/ Panic(u)

PoolSpec == PoolInit /\ [][PoolNext]_poolVars

-----------------------------------------------------------------------------
(* Properties *)

\* u is between the acquisition of a slot and its release.
Holds(u) == pc[u] \in {"begin", "tx", "commit"} \/ (pc[u] = "rollback" /\ ~released[u])

Holders(p) == {u \in Users : PoolOf(u) = p /\ Holds(u)}

\* Every slot is free or held by the one transaction that acquired it, whatever mix of
\* failed begins, failed commits, double rollbacks and retries came before (pool.go: release
\* is idempotent, a failed begin releases); only a panic inside InTx takes a slot out.
SlotsConserved ==
    \A p \in Pools : free[p] + Cardinality(Holders(p)) + panics[p] = MaxConns[p]
=============================================================================
