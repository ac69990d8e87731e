# A TLA+ model of the ledger service

The repository is a monorepo whose working part is `apps/ledger-svc`, a gRPC service that
books double-entry transfers in PostgreSQL, guards them with idempotency keys in Redis, and
relays an event and an audit record of each one. `apps/gateway-svc` holds the domain of the
payment workflows, without an adapter that runs them. The modules here model both; their
definitions keep the names of the Go code, and `PROJECT.json` ("map") gives the lines each of
them stands for.

## 1. The system

| Component (code) | State | Operations | Talks to |
|---|---|---|---|
| Transfer usecase (`usecase/transfer.go`) | none of its own; one goroutine per RPC | `Execute`: validate, fingerprint, acquire, execute or replay, record the outcome | Redis store, ledger repository |
| Idempotency store (`infrastructure/redis_idempotency.go`) | one record per tenant and key: STARTED, COMPLETED or FAILED with a fingerprint, expiring | `Acquire` (SETNX, then GET), `SetState` | Redis |
| Ledger repository (`repository/ledger_repo.go`, `tx.go`, `retry.go`) | the Postgres tables | `ExecuteTransfer`: five inserts in a SERIALIZABLE transaction, retried on 40001; replay lookup | pool, breaker |
| Breaker (`repository/breaker.go`) | per tenant: state, time of opening, two counters, trial slot; all atomics | `Allow`, `RecordOutcome` | called around `ExecuteTransfer` |
| Connection pools (`repository/pool.go`) | the slots of the request and the worker pool | `AcquireConn`, `BeginTxWithAcquire`, `releasingTx` | handlers, workers |
| Outbox relay (`repository/outbox_repo.go`, `infrastructure/outbox_worker.go`, `kafka_producer.go`) | `outbox_events`, the producer's queue, the topic | claim with SKIP LOCKED, produce, mark PUBLISHED, commit | Postgres, Kafka |
| Reconciler (`infrastructure/reconciler.go`, `cmd/reconciler`) | none | re-drains stale rows; checks that the ledger and each transaction sum to zero | the same tables |
| Handler and amounts (`transport/grpc/ledger_handler.go`, `converters.go`, `domain/money.go`, `domain/transaction.go`) | none | parse, quantize, negate, add; `AssertBalanced` | usecase, repository |
| Audit chain (`repository/audit_drain.go`, `audit_repo.go`, `infrastructure/audit_worker.go`) | `audit_pending`, `audit_log` | enqueue with the transfer; drain per tenant, link by hash | Postgres |
| Interceptors (`transport/grpc/interceptors`) | in-flight counter; a limiter per tenant in a `sync.Map` | Recovery, Admission, EdgeIdentity, RateLimit, eviction sweeper | wrap every handler |
| Server wiring (`cmd/server/main.go`, `transport/grpc/server.go`) | what is open, the stack of defers, the contexts | boot, serve, graceful shutdown | everything above |
| Gateway workflows (`gateway-svc/internal/domain`) | card charges, outbound bank transfers | request checks, transition tables, `Cancellable`, `Terminal` | the `PaymentWorkflow` port |

What is hard about it, and listed line by line under "hazards" in `PROJECT.json`:

* Redis, Postgres and Kafka are three stores with no common transaction: every answer can be
  lost, every process can die between two of them, Redis records expire.
* Requests of one key race in several processes; only the UNIQUE index decides.
* Drainers of several replicas share the outbox and the audit queue through row locks that
  disappear when a connection breaks.
* The breaker, the admission counter and the rate limiter are lock-free: a decision is several
  atomic operations, and others run in between.
* The order of ids, of clocks and of commits differs, and the audit chain depends on all three.
* Shutdown meets handlers, drains and a half-finished boot.
* Amounts go through a decimal context that never reports an error and a column that is
  narrower than that context.
* Webhooks, timeouts and cancellations of one payment arrive repeated and in any order.

## 2. The modules

Each component has a module (state, actions, specification, properties), where needed an `MC`
module with the instance TLC checks, and a module of proofs. Definitions whose names say what
they do wrong (`ReplayAnyBody`, `StoreAlways`, ...) stand before the definition they are a
faulty version of. They are used by no specification: each belongs to a property, which fails
when the faulty version replaces the right one ("mutants" in `PROJECT.json`).

**Transfer** models the usecase, the idempotency store and the ledger repository as one
process per RPC, one step per round trip. A row of `ledger` is the transaction with the rows
inserted beside it (two journal entries, the outbox event, the audit row): they are one batch
of one database transaction and are never apart. `SetNX` and `Get` are two steps, as in
`Acquire`. A Redis command may fail with or without effect. `main.go` keeps the default retries
of the Redis client, so a command that was carried out and whose answer was lost is sent again
(`SetNXResend`, `SetStateResend`): the second SETNX meets the STARTED record of the first, and the
request is answered "in flight" on account of itself. A command that Redis carries out after the
client has given up waiting is not modelled. An attempt may fail for good
(`InsertFault`), be aborted by 40001 (`SerializationFailure`, `Backoff`), or have its COMMIT
carried out or not without an answer (`CommitFault`; the open transaction keeps its index
entry in `indoubt` until the server ends it, `Settle`). `Insert` waits while another open
transaction holds the index entry. `Crash` ends a process anywhere, `Expire` drops a Redis
record at any time. Bodies are abstract: malformed ones fail validation, `Owner` says whose
accounts a body names (another tenant's, an unknown account or a wrong currency all fail the
same foreign keys). The fingerprint is injective; Redis values in the format of older versions
are left out. The early returns of `ledger_repo.go` on an open circuit are `Allow` here and
detailed in Breaker.

**IdempotentLedger** is what a caller may rely on: at most one transaction per tenant and key;
a success hands back the slot's transaction and only for the same input; a definite error
promises that the call has had and will have no effect; an unknown error promises nothing.
`Transfer!Abstract` maps the detailed state to it.

**Outbox**: a drainer is a goroutine of the worker or a reconciler (which takes stale rows
only). `Claim` locks the oldest eligible rows, `Enqueue` hands them to the producer (a full
queue fails after part of the batch, `EnqueueFault`), `Deliver`/`DeliverFault` are delivery
reports (an error report may come for a message the broker has), `ProduceTimeout` gives the
batch up while its messages stay queued (`orphan`), `Publish` marks and commits,
`PublishInDoubt` loses the answer, `ConnectionLost` releases the locks under the drainer.

**AuditChain**: `EnqueueAudit` is the row committed with a transfer; ids are drawn and times
taken before the commit, so rows appear in any order and with any clock. `Claim` takes a batch
ordered by tenant and id, `ChainTenantRun` reads the head (`LatestAuditHash`) and links one
tenant's run, `Commit` moves the rows. The hash is injective, so a link is the id of the
predecessor. The history variable `disorder` collects the tenants that had a row out of order
(`OutOfOrder`) or two drains at a time: the only causes of a fork.

**Breaker**: `Allow` and `RecordOutcome` for one tenant, one atomic operation per step. The
two sample counters are updated in one step; time is `Cool` (OpenDuration has passed). A panic
in the transfer (`Panic`) skips `RecordOutcome`. The clock value an `Allow` works with may be
old, which equals an earlier `Check`.

**Interceptors**: the chain for unary calls with any number of goroutines, each atomic
operation a step. A bucket gains a token, or comes to rest for IdleTTL, at any moment; a
bucket at rest is full, since five minutes exceed the two seconds it takes to fill. Recovery
turns a panic of the handler into Internal. RequestID and Logging keep no state.

**Pool**: the slots of both pools under `InTx` and `drain`, with failed acquisitions, failed
begins, the rollback after a failed commit (which must not release twice) and retries. A panic
in a handler's transaction skips both commit and rollback and keeps its slot (`panics`); a panic
in a worker ends the process and is no step here. Reads through `pool.Query` acquire and release
by themselves. Its specification is `PoolSpec`.

**Lifecycle**: `run()` from the first boot step to exit, composed with Pool. `defers` is the stack
of deferred releases; any step of `Failures` may return an error; the signal comes at any time.
Workers loop and handlers run any number of transactions; each step of one is a step of Pool
(`Transact`), which needs a goroutine that runs, a context that is not done and a pool that is
not closed. `RunDeferred` closes a pool only when all its connections have come back, so a
connection lost to a panic blocks it for ever (`CloseBlocked`); the server's graceful stop waits
for its handlers until the deadline turns it into a hard stop.

**Money** has no state: amounts as counts of the last digit, with the two limits of the code
(22 digits in the decimal context, 19 in the column) as constants. `Quantize` makes a number
that is too long NaN, as the context does; `NewAmount`, `Neg`, `Add`, `IsZero`, `IsNegative`
and `AssertBalanced` treat NaN as apd does, and `Storable` as PostgreSQL does.

**System** composes the parts over one COMMIT. Calls send decimal strings; `Submit` is the
handler's conversion with the checks of the usecase (`Accepted`). Idempotency is taken from
`IdempotentLedger` (`L`), which `Transfer` implements. `Book` and `BookAndAnswer` join its
commits with `WriteBatch`: the two legs, the outbox row (`Append` of Outbox, `R`) and the audit
row (`EnqueueAudit` of AuditChain, `A`), which appear together or not at all. The relay and the
audit worker then run as in their modules. `Answer` is every other answer.
`LedgerSumZeroCheck` and `UnbalancedTransactionIDs` are the reconciler's queries.

**Gateway** has the transition tables, `Terminal`, `Cancellable` and `Validate` of the two
workflows as operators. The adapter behind the port is not in the repository: `Start`, `Signal`
and `Cancel` are marked external and are the least an adapter may do that asks the domain
before each change. Events come at any time, repeatedly and in any order. Its
specification is `WorkflowSpec` and its names are its own, so that one module of proofs can extend
it together with Breaker.

## 3. The runs

| Run | Shows | Instance |
|---|---|---|
| `MCTransfer` | `OneTransactionPerKey`, `SuccessIsCommitted`, `CompletedIsCommitted`, `RefusalIsJustified`, `ImplementsIdempotentLedger`, `EveryRequestEnds`, `TypeOK` | 3 requests, 2 tenants with the same key string, 2 good bodies and a malformed one, 2 attempts; see `Scope` below |
| `MCOutbox` | `PublishedIsDelivered`, `DuplicatesNeedFaults`, `EveryEventIsPublished`, `TypeOK` | 2 workers, a reconciler, 2 events, batches of 2, 2 faults |
| `MCAuditChain_replicas` | `RowsConserved`, `LinksAreSound`, `ForksHaveACause`, `EveryRowIsAudited`, `TypeOK` | 2 workers, 2 tenants, 3 ids, 2 times, batches of 2, 1 abandoned transaction |
| `MCBreaker` | `TrialSlotIsNotLeaked`, `CircuitCloses`, `TypeOK` | 2 goroutines, 2 samples, ratio 1/2 |
| `MCInterceptors` | `CounterIsExact`, `AtMostMaxInFlight`, `RateIsPaced`, `TypeOK` | 3 calls, cap 2, a limited tenant of burst 1 and an unlimited one, 1 refill, 1 eviction |
| `MCLifecycle` | `SlotsConserved`, `NothingLeaks`, `ResourcesOutliveUsers`, `SignalEndsProcess`, `TypeOK` | an outbox and the audit worker on 1 connection, 2 handlers on 1, 2 attempts, every step may fail |
| `MCSystem` | `ReconcilerNeverPages`, `SuccessBooksTheAmount`, `RefusedLeavesNoTrace`, `EveryTransferArrives`, `TypeOK` | 2 calls, 1 fractional digit, amounts of 3 digits and a column of 2, 1 drainer with 1 fault, 1 audit worker |
| `MCGateway` | `UndoneOnce`, `CancelledNeverMoves`, `EveryWorkflowEnds`, `WorkflowTypeOK` | 2 keys, both kinds, a zero and a good amount, with and without a ledger transfer |
| `MCTransfer_failedkey` | `FailedKeyHasNoTransaction` is violated | 2 requests, one body |
| `MCAuditChain_fork` | `ChainIsLinear` is violated | 1 worker, commits in any order |
| `MCBreaker_trial` | `TrialIsAlone` is violated | 3 goroutines, 2 samples, ratio 1/2 |
| `MCGateway_cancel` | `CancelNeverPages` is violated | 1 key, both kinds |

Why the bounds are enough. Every property speaks of at most two parties and a third that
disturbs them. Three requests give an original, its retry and an intruder with another body;
two attempts give a retry after 40001 and the cap. `Scope` in `MCTransfer` keeps the three within
reach: two requests run side by side through every fault, and the third one, which meets no fault
itself, starts when the first has ended and sees everything the two leave or still do: a slot that
expired and was taken by the other body, an abandoned COMMIT, a FAILED key. Three requests that
all meet faults side by side are left to the proofs. Two faults give a fault during the recovery
from a fault, and batches of two are partly delivered. Three audit rows give a head, a late
row and the batch that meets both. A cap of two with three calls overshoots, and leaves two
calls to race for a limiter. More goroutines than
connections make somebody wait, in both pools. In System
the widths of the decimals shrink but keep their order, so there are amounts that fit, amounts
the column refuses and amounts the context turns into NaN; the first call sends each way an
amount can be wrong, the second one the same value in another form or under another tenant.
Gateway's histories are bounded by the tables themselves. What the bounds cut off is covered by the proofs (section 4) for the safety properties listed there.

`CHECK_DEADLOCK FALSE` is given where a behaviour ends: all requests are answered, all events
are published or all drainers have stopped, all workflows have ended. In Lifecycle the deadlock
check stays on, and `Ended` names the two ends: the process has exited, or its request pool waits
for a connection that nobody gives back. Symmetry is used on goroutine names, in runs without
liveness properties only.

Fairness.

* Transfer: a request that can take a step takes it (`Progress`: goroutines are scheduled and
  every round trip has a deadline), and the server ends an abandoned transaction (`Settle`).
  Faults and crashes are never obliged to happen.
* Outbox: drain loops run, delivery reports come while the producer lives (`Deliver`), rows
  grow old (`Age`), abandoned transactions end. The faults are bounded by `MaxFaults`.
* AuditChain: the workers run, abandoned transactions end, and faults stop at some time: a
  database that fails every drain for ever leaves nothing to promise.
* Breaker: OpenDuration passes, admitted requests go on and new ones come, and transfers stop
  reaching the retry cap and panicking at some time; without traffic an open circuit stays open.
* Lifecycle: `run()` goes on and its timer fires; a transaction whose context is done goes on to
  its end (`CtxDone(u) /\ Transact(u)`), and then the loop or the call that `Stop` has cancelled
  ends too. A call nobody cancels may run for ever.
* System: the fairness of the two workers (`RelayFairness` of Outbox, `Fairness` of AuditChain)
  and none of the callers: what has been committed arrives whatever the caller does.
* Gateway: the provider reports on a payment that is still open, and redelivers until it is
  heard. Nobody is obliged to cancel.

## 4. The proofs

TLAPS checks the following for every value of the constants, under the assumptions named in
each module (`TransferAssumption`, `NoRecordAssumption`, `OutboxAssumption`, `AuditAssumption`,
`BreakerAssumption`, `InterceptorsAssumption`, `PoolAssumption`, `LifecycleAssumption`,
`MoneyAssumption`, `SystemAssumption`: finite sets where things are
counted, bounds that are numbers, null values outside the sets they complete).

* **TransferProofs.** `TypeCorrect`, `AtMostOnce`, `HonestSuccess`,
  `CompletedImpliesCommitted`, `NoSpuriousRefusal`, `Refinement`. None of the properties is
  inductive: that COMPLETED implies a committed row needs to know that a request about to
  write COMPLETED has committed, which needs to know what a request may have done at each
  location. The invariant adds: a request has an input once it has left "idle" (`InputInv`);
  a request still working has had no effect and has no result (`WorkingInv`); an effect, or
  one in doubt, agrees with what its request reports (`EffectInv`); a row carries its
  writer's input (`RowInv`); index entries belong to one row or one open transaction
  (`IndexInv`); a Redis record was written by a request of that key, possibly by a SETNX
  the request is still waiting for, and FAILED by one that ended in an error (`RecordInv`). `Refinement` shows that every step maps to a step
  of `IdempotentLedger` or a stutter; only `Commit`, `Settle`, answers and calls are visible.
* **OutboxProofs.** `OutboxTypeCorrect`, `NoEventLost`, `DuplicatesArePaidFor`. The invariant:
  collected successes, and marks waiting in an abandoned COMMIT, are in the topic
  (`DeliveredInv`); a drainer locks the whole of its batch or, the connection lost, nothing
  (`BatchInv`); locks are exclusive and on PENDING rows (`LockInv`); the copies of an event
  plus the drainers that will still produce it without a lock are paid for by the faults,
  but for one (`BudgetInv`).
* **AuditProofs.** `NoAuditRowLost`, from what a worker holds during a drain (`DrainInv`),
  exclusive locks (`LockInv`) and the origin of rows (`SourceInv`). `AuditTypeCorrect` and
  `AuditLinksAreSound` need that the head of a tenant exists, that is, that a finite set of
  rows has a last one: `LeastNat` and `LastExists` derive it from the well-foundedness of the
  naturals; `LinkInv` adds that an uncommitted entry links into the log or into its own
  transaction. `AuditForksHaveACause` needs `OrderInv` for each tenant without disorder: times
  and ids order its rows alike, one open transaction at most has rows of it, they are taken from
  the first to the last, and every entry links to the row right before it; and `CoverInv`, that
  a drain inserts a tenant's run as a whole.
* **StateMachineProofs** has the two components whose state is a small machine. For Breaker,
  `BreakerTypeCorrect`, `TrialSlotNeverLeaked`: a taken slot of a half-open circuit always has a
  goroutine that is going to free it, unless a trial has panicked (`SlotInv`). For the gateway's
  workflows `WorkflowTypeCorrect`, `WorkflowUndoneOnce` and `WorkflowCancelledNeverMoves`. The
  last two look at the whole history of a workflow, and a history is only known through the state
  it has reached: `PathOK` says for each state how often the visits before it can have given
  back, moved or cancelled. What the transition tables must grant for that is one lemma,
  `TransitionRules`: a terminal state has no way out, money moves only out of an early state, an
  early state is entered only from an early one, and cancelling is possible only while nothing
  has moved.
* **InterceptorsProofs.** `CounterNeverDrifts`, `CapHolds`: the counter is the number of calls
  between increment and decrement, and calls past the check are at most the cap. The two are
  inductive together: the call that takes the last place sees a counter no larger than the cap.
  `InterceptorsTypes` needs that a call at its limiter has a tenant, and holds a limiter of that
  tenant even after the sweeper has evicted it (`ClaimsInv`), that the entry the sweeper is about
  to delete is still there (`SweeperInv`), and that the counter stays put with admission off
  (`OffInv`). `RateAlwaysPaced`: the tokens of a tenant's limiters, evicted ones included, are
  a set of pairs (limiter, place below the burst), so that they can be counted instead of summed;
  what was taken and what is left is at most a burst for each limiter and what time granted
  (`TokenInv`), and every limiter ever stored is in the map or was evicted (`StoredInv`).
* **PoolProofs.** `SlotsAreConserved`, `PoolTypeCorrect`: a transaction that is open has not
  released its slot, so that the deferred rollback after a commit releases nothing, and a retry
  has an attempt left (`LocalsOK`).
* **LifecycleProofs.** `LifecycleImplementsPool`: every step of the process is a step of Pool or
  leaves the pools alone, so `LifecycleSlotsConserved` follows from PoolProofs.
  `LifecycleTypeCorrect`; `LifecycleNothingLeaks`: what is open has its release on the stack of
  defers (`LeakInv`); `LifecycleResourcesOutliveUsers`: what is open at each stage of boot, service
  and shutdown, and that a goroutine in a transaction still runs (`RunningInv`; together `UseInv`).
* **SystemProofs.** `SystemTypeCorrect`, `SystemRefusedLeavesNoTrace`,
  `SystemSuccessBooksTheAmount`: the invariant `SInv` ties a call to its message, an entry to an
  accepted message that no definite error has answered, and the legs, the outbox row and the audit
  row to their entry, in both directions; that an accepted message has a finite, positive amount
  is a lemma about Money; `RelayInv`, from OutboxProofs, says that the relay touches appended rows
  only. `SystemReconcilerNeverPages`: the sum of the journal is zero (`LedgerInv`). That a sum over
  a finite set exists, is unique and does not depend on the order is proved without induction over
  an operator: among the subsets for which a claim fails there would be a minimal one, since the
  strict subsets of a finite set are well-founded (`MinimalSubset`, `SumsExists`, `SumsAgree`,
  `TotalRemove`). `SystemImplementsComponents`: every behaviour of the composition is one of
  IdempotentLedger, of Outbox and of AuditChain; `SystemEventsDelivered` and `SystemAuditIsSound`
  carry the theorems of OutboxProofs and AuditProofs over (`RelaySteps`, `AuditSteps`).
  `SystemTransferIsTraced` puts them together: every transaction is PENDING or in the topic, and
  pending or audited under its tenant, and neither the topic nor the audit log has anything else.

Model-checked only: the liveness properties (`EveryRequestEnds`, `EveryEventIsPublished`,
`EveryRowIsAudited`, `CircuitCloses`, `SignalEndsProcess`, `EveryTransferArrives`,
`EveryWorkflowEnds`), since fairness is out of the prover's reach. Every invariant and the
refinement that a passing run checks have a theorem.

## 5. Where code and documentation disagree

Shown by a run:

* **A failed key may hold a transaction** (`MCTransfer_failedkey`). `Execute` records FAILED
  after every error, a lost answer to COMMIT included. If the server did commit, each retry is
  answered `ErrIdempotencyKeyFailed`, whose comment tells the client to mint a new key: the
  transfer is then booked twice.
* **The audit chain forks with a single worker** (`MCAuditChain_fork`). Entries are linked in
  id order, the head is read in time order. A row that commits behind a row with a later id
  is never the head, so the next batch shares its predecessor.
* **Two half-open trials run side by side** (`MCBreaker_trial`). `Allow` makes the circuit
  half-open and empties the trial slot in a second operation; a request in between takes the slot,
  and the winner of the flip empties it and takes it again. The outcome of a request admitted
  earlier empties it too, since `RecordOutcome` does not tell the trial from a straggler.
  `breaker.go` says that exactly one request is admitted.
* **A cancellation that `Cancellable` permits is forbidden** (`MCGateway_cancel`). `Cancellable`
  holds of a card charge that is INITIATED or AUTHORIZING, from which no transition leads to
  VOIDED. `errors.go` documents `ErrCannotCancel` as "no transition to a cancelled / voided
  terminal" and `ErrInvalidTransition` as unreachable.

Met while modelling, and part of the models:

* With two replicas the audit workers read the same head and fork the chain, although
  `audit_drain.go` says that one of them goes idle. `ForksHaveACause` says what is left: a
  tenant's chain is linear unless its own rows came out of order or its own drains overlapped.
* A number of more than 22 digits becomes NaN without an error (`NewAmount`'s comment promises
  one for NaN), and NaN is neither zero nor negative. `AssertBalanced`, which
  `transfer.go` calls tautological for two legs and which it (line 77) and `ledger_repo.go` (line
  164) both call, is the only check that stops it: without it NaN legs are stored and the
  reconciler pages (`ReconcilerNeverPages`).
* The gateway's `IsZero` compares spellings: negative amounts and zeros of five decimals pass
  `Validate`, although `ErrInvalidAmount` says "amount must be positive". The comment on
  `OutboundFailed` says that the money never left, but FAILED follows IN_FLIGHT too.
* The top README promises exactly-once events; the relay is at-least-once.
  `DuplicatesNeedFaults` is the exact statement.
* After its slot has expired and a request with another body has taken it, a retry of the
  committed original is answered "mismatch". `RefusalIsJustified` states what is left: a request
  with another body is to blame, and "key failed" is only said after another request with the same
  input has ended in an error.
* `ErrTransferInFlight` is documented as "an existing request under the same idempotency key is
  still STARTED". A SETNX that the Redis client sends again meets the STARTED record of its own
  request: the caller is told so although no other request exists, and again until the record
  expires five minutes later.
* EdgeIdentity passes public methods on without claims and RateLimit refuses calls without
  claims: with the rate limit on, unary health checks are answered Unauthenticated (`NoClaims`).
* A call being rejected by Admission still counts until its decrement, and can push out a call
  that would fit.
* The sweeper may delete a limiter that was used since it looked: the tenant gets a second full
  bucket, the `evicted` term of `RateIsPaced`.
* The signal cancels the workers' context at once, so the workers stop before GracefulStop
  and not after it as the comment says; late events wait for another replica or the next start.
* When the port is taken or Serve fails, `run()` returns without waiting for the workers and
  closes the producer under a drain; and closing the request pool then waits for handlers that
  nobody cancels (the exceptions in `ResourcesOutliveUsers` and `SignalEndsProcess`).
* `RecordOutcome` is not deferred: a trial that panics leaves the trial slot taken (the exception
  in `TrialSlotIsNotLeaked` and `CircuitCloses`).
* A panic inside `InTx` loses the slot for good (`panics` in `SlotsConserved`); after the signal the
  deferred `requestPool.Close()` waits for that connection for ever and the process does not exit
  (the other exception in `SignalEndsProcess`).
* Without a model: `RetryConfig`'s comment speaks of five attempts, the default is three; the
  retry-after trailer of the rate limiter is computed in nanoseconds; Admission's check of a
  zero deadline can never be true; `GetTransaction` is not scoped to a tenant; `errors.go` tells
  clients to retry `ErrCircuitOpen` and `ErrAcquireTimeout`, but `Execute` has recorded FAILED by
  then; `ErrRetryCapReached` is not in the table of gRPC codes and becomes Internal;
  `money_test.go` calls a number of twenty digits the maximum of NUMERIC(19,4) and says that
  `AssertBalanced` calls `SumAmounts`, which it does not.

## 6. Not modelled

* The table that maps errors to gRPC codes, the response message and `GetTransaction`, which
  only reads; logging, metrics, tracing; configuration; the migration and load-test commands:
  no state that a property could speak of.
* The adapter of the gateway (storage, provider calls, signature checks): there is none in the
  repository. The gateway's ledger entries are only an id in a request so far.
* `SumAmounts`, `Scan` and `Value` of an amount: not on the path of a transfer, or plain
  conversions of the driver.
* Starvation of a tenant by an endless backlog of the tenants before it (`ORDER BY tenant_id`
  with a batch limit): the models have finitely many rows.
* Generated protobuf code, mocks and the empty CLI and library packages.
* Schema details beyond the UNIQUE index, the foreign keys, the NUMERIC column and row locks.

## 7. Plan

Done, in order of importance: Transfer with IdempotentLedger, Outbox, AuditChain, Breaker,
Interceptors, Pool, Lifecycle over Pool, Money, System, Gateway, and the proofs of section 4. Left:

1. **Breaker** with the two sample counters apart.
2. **Outbox** as a refinement of an at-least-once relay, as `IdempotentLedger` is for Transfer.
3. A fair order of tenants in the audit queue, with an open-ended supply of rows.
