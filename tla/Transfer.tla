------------------------------ MODULE Transfer ------------------------------
(***************************************************************************)
(* One Transfer RPC after another, and several at once: the use case       *)
(* (usecase/transfer.go) over the Redis idempotency store                  *)
(* (infrastructure/redis_idempotency.go) and the Postgres ledger           *)
(* repository (repository/ledger_repo.go, tx.go, retry.go).                *)
(*                                                                         *)
(* Each request is a process.  Its steps are the round trips to Redis and  *)
(* to Postgres; what happens between two of them is local to the request   *)
(* and part of the first one's step.  A row of the ledger stands for the   *)
(* five rows ExecuteTransfer inserts in one database transaction           *)
(* (transactions, two journal_entries, outbox_events, audit_pending).      *)
(*                                                                         *)
(* Faults: a Redis command may fail, with or without having been carried   *)
(* out, or be sent twice by the client library; Postgres may abort an      *)
(* attempt with SQLSTATE 40001; the connection may be lost or the request  *)
(* context end at any round trip; a COMMIT whose answer is lost is in      *)
(* doubt and the server settles it later; a Redis slot may expire at any   *)
(* time; the process may crash at any time.                                *)
(***************************************************************************)
EXTENDS Naturals, FiniteSets

CONSTANTS Requests,     \* one element per Transfer RPC (a client retry is another RPC)
          Tenants,
          Keys,         \* caller-supplied idempotency keys
          Bodies,       \* accounts, amount and currency of a transfer
          Malformed,    \* bodies that validateTransferInput or AssertBalanced refuses
          Owner,        \* Owner[b]: the tenant whose accounts body b names
          MaxAttempts,  \* RetryConfig.MaxAttempts
          NoInput,
          NoRecord,     \* no value under a Redis key
          NoTx

Inputs == [tenant : Tenants, key : Keys, body : Bodies]

ASSUME TransferAssumption ==
    /\ Malformed \subseteq Bodies
    /\ Owner \in [Bodies -> Tenants]
    /\ MaxAttempts \in Nat \ {0}
    /\ NoInput \notin Inputs
    /\ NoTx \notin Requests

\* TransferFingerprint: a hash of tenant, body and key, taken to be injective.
Fingerprint(i) == <<i.tenant, i.body, i.key>>

\* scopedIdempotencyKey: the Redis key of a request.
ScopedKey(i) == <<i.tenant, i.key>>

IndexKeyWithBody(i) == <<i.tenant, i.key, i.body>>

\* The UNIQUE (tenant_id, idempotency_key) index entry of a request.
IndexKey(i) == <<i.tenant, i.key>>

Slots == Tenants \X Keys

Fingerprints == Tenants \X Bodies \X Keys

RecordStates == {"STARTED", "COMPLETED", "FAILED"}

Records == [state : RecordStates, fp : Fingerprints]

ASSUME NoRecordAssumption == NoRecord \notin Records

Rows == [tx : Requests, input : Inputs]

\* Where a request is: before Execute, before SETNX, before GET, before the circuit
\* breaker, before the INSERT batch of an attempt, before its COMMIT, in the backoff
\* between attempts, before the replay lookup, before SetState, answered, crashed.
Locations == {"idle", "setnx", "get", "allow", "insert", "commit", "backoff",
              "replay", "setstate", "done", "crashed"}

\* Errors after which the request has certainly written nothing: validation,
\* ErrRequestFingerprintMismatch, ErrTransferInFlight, ErrIdempotencyKeyFailed,
\* ErrCircuitOpen, ErrAccountTenantMismatch, ErrRetryCapReached.
DefiniteErrors == {"invalid", "mismatch", "inflight", "keyfailed", "circuitopen",
                   "accountmismatch", "retrycap"}

\* What Execute returns: a fresh transaction, a replayed one, a definite error, or
\* some other error ("fault").
Results == {"none", "fresh", "replayed", "fault"} \cup DefiniteErrors

VARIABLES
    input,     \* input[r]: what r asked for, or NoInput
    pc,        \* pc[r]: where r is
    acquired,  \* acquired[r]: Acquire told r that it owns the slot
    attempt,   \* attempt[r]: attempts of the database transaction that ended in 40001
    result,    \* result[r]: what Execute is about to return or has returned
    resultTx,  \* resultTx[r]: the transaction that comes with it
    redis,     \* redis[k]: the record under scoped key k, or NoRecord
    ledger,    \* the committed rows
    indoubt    \* requests whose COMMIT was sent and whose answer was lost

vars == <<input, pc, acquired, attempt, result, resultTx, redis, ledger, indoubt>>

TypeOK ==
    /\ input \in [Requests -> Inputs \cup {NoInput}]
    /\ pc \in [Requests -> Locations]
    /\ acquired \in [Requests -> BOOLEAN]
    /\ attempt \in [Requests -> 0 .. MaxAttempts - 1]
    /\ result \in [Requests -> Results]
    /\ resultTx \in [Requests -> Requests \cup {NoTx}]
    /\ redis \in [Slots -> Records \cup {NoRecord}]
    /\ ledger \subseteq Rows
    /\ indoubt \subseteq Requests

Init ==
    /\ input = [r \in Requests |-> NoInput]
    /\ pc = [r \in Requests |-> "idle"]
    /\ acquired = [r \in Requests |-> FALSE]
    /\ attempt = [r \in Requests |-> 0]
    /\ result = [r \in Requests |-> "none"]
    /\ resultTx = [r \in Requests |-> NoTx]
    /\ redis = [k \in Slots |-> NoRecord]
    /\ ledger = {}
    /\ indoubt = {}

Goto(r, l) == pc' = [pc EXCEPT ![r] = l]

\* The row request r writes.
RowOf(r) == [tx |-> r, input |-> input[r]]

\* Requests with an open database transaction that has inserted its row, or whose
\* transaction the server has not settled: they hold their entry of the UNIQUE index.
Holders == {r \in Requests : pc[r] = "commit" \/ r \in indoubt}

Committed(r) == {row \in ledger : IndexKey(row.input) = IndexKey(input[r])}

\* Execute returns x with transaction t and no Redis write follows.
Return(r, x, t) ==
    /\ result' = [result EXCEPT ![r] = x]
    /\ resultTx' = [resultTx EXCEPT ![r] = t]
    /\ Goto(r, "done")

\* executeAndReplayOnDup returns x with transaction t: the owner of the slot goes on
\* to SetState, anyone else answers.
Finish(r, x, t) ==
    /\ result' = [result EXCEPT ![r] = x]
    /\ resultTx' = [resultTx EXCEPT ![r] = t]
    /\ Goto(r, IF acquired[r] THEN "setstate" ELSE "done")

-----------------------------------------------------------------------------
(* Execute, up to the call of executeAndReplayOnDup *)

\* Execute is called: validateTransferInput and the preflight AssertBalanced come
\* before any I/O.
Execute(r, i) ==
    /\ pc[r] = "idle"
    /\ input' = [input EXCEPT ![r] = i]
    /\ IF i.body \in Malformed
       THEN Return(r, "invalid", NoTx)
       ELSE Goto(r, "setnx") /\ UNCHANGED <<result, resultTx>>
    /\ UNCHANGED <<acquired, attempt, redis, ledger, indoubt>>

Started(r) == [state |-> "STARTED", fp |-> Fingerprint(input[r])]

\* Acquire's SETNX: write STARTED if the key has no value.
SetNX(r) ==
    /\ pc[r] = "setnx"
    /\ LET k == ScopedKey(input[r]) IN
       IF redis[k] = NoRecord
       THEN /\ redis' = [redis EXCEPT ![k] = Started(r)]
            /\ acquired' = [acquired EXCEPT ![r] = TRUE]
            /\ Goto(r, "allow")
       ELSE /\ Goto(r, "get")
            /\ UNCHANGED <<redis, acquired>>
    /\ UNCHANGED <<input, attempt, result, resultTx, ledger, indoubt>>

\* SETNX fails (Execute falls through to Postgres without owning the slot); the
\* server may have carried it out before the answer was lost.
SetNXFault(r) ==
    /\ pc[r] = "setnx"
    /\ LET k == ScopedKey(input[r]) IN
       \/ UNCHANGED redis
       \/ redis[k] = NoRecord /\ redis' = [redis EXCEPT ![k] = Started(r)]
    /\ Goto(r, "allow")
    /\ UNCHANGED <<input, acquired, attempt, result, resultTx, ledger, indoubt>>

\* The server carries SETNX out and the answer is lost: the client library sends it again
\* (go-redis's default MaxRetries, which main.go keeps), and r is still waiting.  The
\* second SETNX then meets the STARTED record of the first.
SetNXResend(r) ==
    /\ pc[r] = "setnx"
    /\ redis[ScopedKey(input[r])] = NoRecord
    /\ redis' = [redis EXCEPT ![ScopedKey(input[r])] = Started(r)]
    /\ UNCHANGED <<input, pc, acquired, attempt, result, resultTx, ledger, indoubt>>

\* Acquire's GET and Execute's switch on the record it finds.  The fingerprint is
\* compared before the state; an expired key falls through to Postgres.
Get(r) ==
    /\ pc[r] = "get"
    /\ LET rec == redis[ScopedKey(input[r])] IN
       \/ /\ rec = NoRecord
          /\ Goto(r, "allow")
          /\ UNCHANGED <<result, resultTx>>
       \/ /\ rec # NoRecord
          /\ rec.fp # Fingerprint(input[r])
          /\ Return(r, "mismatch", NoTx)
       \/ /\ rec # NoRecord
          /\ rec.fp = Fingerprint(input[r])
          /\ \/ /\ rec.state = "COMPLETED"
                /\ Goto(r, "replay")
                /\ UNCHANGED <<result, resultTx>>
             \/ rec.state = "STARTED" /\ Return(r, "inflight", NoTx)
             \/ rec.state = "FAILED" /\ Return(r, "keyfailed", NoTx)
    /\ UNCHANGED <<input, acquired, attempt, redis, ledger, indoubt>>

\* GET fails: Acquire reports a Redis fault and Execute falls through to Postgres.
GetFault(r) ==
    /\ pc[r] = "get"
    /\ Goto(r, "allow")
    /\ UNCHANGED <<input, acquired, attempt, result, resultTx, redis, ledger, indoubt>>

-----------------------------------------------------------------------------
(* executeAndReplayOnDup and LedgerRepo.ExecuteTransfer *)

\* MarshalTransferCommittedV1, EnvelopeFromContext and ExecuteTransfer up to InTx:
\* the breaker (module Breaker) admits the request, or refuses it, or building the
\* payload or the audit row fails.
Allow(r) ==
    /\ pc[r] = "allow"
    /\ \/ Goto(r, "insert") /\ UNCHANGED <<result, resultTx>>
       \/ Finish(r, "circuitopen", NoTx)
       \/ Finish(r, "fault", NoTx)
    /\ UNCHANGED <<input, acquired, attempt, redis, ledger, indoubt>>

\* An attempt begins its transaction and sends the batch of five inserts.  The first
\* one waits for a transaction that holds the same entry of the UNIQUE index, and
\* then fails if the entry is taken (classifyBatchErr: index 0 gives
\* ErrDuplicateIdempotencyKey and the replay); the journal entries' composite foreign
\* key refuses accounts of another tenant (index 1, 2: ErrAccountTenantMismatch).
Insert(r) ==
    /\ pc[r] = "insert"
    /\ \A o \in Holders : IndexKey(input[o]) # IndexKey(input[r])
    /\ \/ /\ Committed(r) # {}
          /\ Goto(r, "replay")
          /\ UNCHANGED <<result, resultTx>>
       \/ /\ Committed(r) = {}
          /\ Owner[input[r].body] # input[r].tenant
          /\ Finish(r, "accountmismatch", NoTx)
       \/ /\ Committed(r) = {}
          /\ Owner[input[r].body] = input[r].tenant
          /\ Goto(r, "commit")
          /\ UNCHANGED <<result, resultTx>>
    /\ UNCHANGED <<input, acquired, attempt, redis, ledger, indoubt>>

\* An attempt ends without effect for another reason: no connection in time, the
\* connection or the context lost before the COMMIT.  InTx does not retry it.
InsertFault(r) ==
    /\ pc[r] = "insert"
    /\ Finish(r, "fault", NoTx)
    /\ UNCHANGED <<input, acquired, attempt, redis, ledger, indoubt>>

SerializationFailureUncounted(r) ==
    /\ pc[r] \in {"insert", "commit"}
    /\ Goto(r, "backoff")
    /\ UNCHANGED <<input, acquired, attempt, result, resultTx, redis, ledger, indoubt>>

SerializationFailureUncapped(r) ==
    /\ pc[r] \in {"insert", "commit"}
    /\ attempt[r] < MaxAttempts
    /\ attempt' = [attempt EXCEPT ![r] = @ + 1]
    /\ Goto(r, "backoff")
    /\ UNCHANGED <<input, acquired, result, resultTx, redis, ledger, indoubt>>

\* SQLSTATE 40001, from the inserts or from the COMMIT: the transaction is rolled
\* back and tried again, unless this was the last attempt.
SerializationFailure(r) ==
    /\ pc[r] \in {"insert", "commit"}
    /\ IF attempt[r] + 1 = MaxAttempts
       THEN Finish(r, "retrycap", NoTx) /\ UNCHANGED attempt
       ELSE /\ attempt' = [attempt EXCEPT ![r] = @ + 1]
            /\ Goto(r, "backoff")
            /\ UNCHANGED <<result, resultTx>>
    /\ UNCHANGED <<input, acquired, redis, ledger, indoubt>>

\* The backoff before the next attempt ends, or the context does first.
Backoff(r) ==
    /\ pc[r] = "backoff"
    /\ \/ Goto(r, "insert") /\ UNCHANGED <<result, resultTx>>
       \/ Finish(r, "fault", NoTx)
    /\ UNCHANGED <<input, acquired, attempt, redis, ledger, indoubt>>

\* The COMMIT succeeds and its answer arrives.
Commit(r) ==
    /\ pc[r] = "commit"
    /\ ledger' = ledger \cup {RowOf(r)}
    /\ Finish(r, "fresh", r)
    /\ UNCHANGED <<input, acquired, attempt, redis, indoubt>>

CommitFaultForgotten(r) ==
    /\ pc[r] = "commit"
    /\ indoubt' = indoubt \cup {r}
    /\ Finish(r, "retrycap", NoTx)
    /\ UNCHANGED <<input, acquired, attempt, redis, ledger>>

\* The COMMIT returns an error that is not 40001 because its answer is lost: InTx
\* gives up, and whether the transaction commits is up to the server.
CommitFault(r) ==
    /\ pc[r] = "commit"
    /\ indoubt' = indoubt \cup {r}
    /\ Finish(r, "fault", NoTx)
    /\ UNCHANGED <<input, acquired, attempt, redis, ledger>>

\* The server settles a transaction in doubt.
Settle(r) ==
    /\ r \in indoubt
    /\ indoubt' = indoubt \ {r}
    /\ ledger' \in {ledger, ledger \cup {RowOf(r)}}
    /\ UNCHANGED <<input, pc, acquired, attempt, result, resultTx, redis>>

ReplayAnyBody(r) ==
    /\ pc[r] = "replay"
    /\ \E row \in Committed(r) : Finish(r, "replayed", row.tx)
    /\ UNCHANGED <<input, acquired, attempt, redis, ledger, indoubt>>

\* replay: load the transaction by tenant and key and compare its fingerprint.
Replay(r) ==
    /\ pc[r] = "replay"
    /\ \/ Committed(r) = {} /\ Finish(r, "fault", NoTx)
       \/ \E row \in Committed(r) :
             IF Fingerprint(row.input) = Fingerprint(input[r])
             THEN Finish(r, "replayed", row.tx)
             ELSE Finish(r, "mismatch", NoTx)
    /\ UNCHANGED <<input, acquired, attempt, redis, ledger, indoubt>>

\* One of the two queries of loadTransaction fails.
ReplayFault(r) ==
    /\ pc[r] = "replay"
    /\ Finish(r, "fault", NoTx)
    /\ UNCHANGED <<input, acquired, attempt, redis, ledger, indoubt>>

-----------------------------------------------------------------------------
(* The end of Execute, and the environment *)

FinalAlwaysCompleted(r) == "COMPLETED"

FinalFailedOnReplay(r) == IF result[r] = "fresh" THEN "COMPLETED" ELSE "FAILED"

\* The state Execute records: COMPLETED after a success, FAILED after an error.
FinalState(r) == IF result[r] \in {"fresh", "replayed"} THEN "COMPLETED" ELSE "FAILED"

\* SetState overwrites whatever is under the key.
WriteState(r) ==
    redis' = [redis EXCEPT ![ScopedKey(input[r])] =
                 [state |-> FinalState(r), fp |-> Fingerprint(input[r])]]

\* SetState is answered and Execute returns.
SetState(r) ==
    /\ pc[r] = "setstate"
    /\ WriteState(r)
    /\ Goto(r, "done")
    /\ UNCHANGED <<input, acquired, attempt, result, resultTx, ledger, indoubt>>

\* SetState's SET is carried out, its answer lost, and the client library sends it again.
SetStateResend(r) ==
    /\ pc[r] = "setstate"
    /\ WriteState(r)
    /\ UNCHANGED <<input, pc, acquired, attempt, result, resultTx, ledger, indoubt>>

\* SetState does not reach Redis: the error is logged and Execute returns all the same.
SetStateFault(r) ==
    /\ pc[r] = "setstate"
    /\ Goto(r, "done")
    /\ UNCHANGED <<input, acquired, attempt, result, resultTx, redis, ledger, indoubt>>

\* The process that serves r dies.  An open transaction is rolled back by the
\* server, unless its COMMIT had been sent.
Crash(r) ==
    /\ pc[r] \notin {"idle", "done", "crashed"}
    /\ Goto(r, "crashed")
    /\ \/ UNCHANGED indoubt
       \/ pc[r] = "commit" /\ indoubt' = indoubt \cup {r}
    /\ UNCHANGED <<input, acquired, attempt, result, resultTx, redis, ledger>>

\* A Redis key reaches its TTL (five minutes for STARTED, a day for the others; nothing
\* bounds how long a request runs, so it may outlive either) or is evicted.
Expire(k) ==
    /\ redis[k] # NoRecord
    /\ redis' = [redis EXCEPT ![k] = NoRecord]
    /\ UNCHANGED <<input, pc, acquired, attempt, result, resultTx, ledger, indoubt>>

\* A step in which the request's goroutine gets on, its round trip answered.
Progress(r) ==
    \/ SetNX(r) \/ Get(r) \/ Allow(r) \/ Insert(r) \/ Backoff(r) \/ Commit(r)
    \/ Replay(r) \/ SetState(r)

\* A round trip that fails, or a command that is sent again.
Fault(r) ==
    \/ SetNXFault(r) \/ GetFault(r) \/ InsertFault(r) \/ SerializationFailure(r)
    \/ CommitFault(r) \/ ReplayFault(r) \/ SetStateFault(r) \/ Crash(r)
    \/ SetNXResend(r) \/ SetStateResend(r)

Next ==
    \/ \E r \in Requests :
          \/ \E i \in Inputs : Execute(r, i)
          \/ Progress(r)
          \/ Fault(r)
          \/ Settle(r)
    \/ \E k \in Slots : Expire(k)

Spec == Init /\ [][Next]_vars

\* A running request gets on (a goroutine is scheduled and a round trip that does not
\* wait for another transaction is answered), and the server settles what is in doubt.
\* Nothing is assumed of clients, of the faults or of the TTLs.
Fairness == \A r \in Requests : WF_vars(Progress(r)) /\ WF_vars(Settle(r))

FairSpec == Spec /\ Fairness

-----------------------------------------------------------------------------
(* Properties *)

\* At most one transaction is ever committed for a tenant's idempotency key, whatever
\* Redis says or loses: the "durable barrier" of repository/ledger_repo.go.
OneTransactionPerKey ==
    \A a, b \in ledger :
        a.input.tenant = b.input.tenant /\ a.input.key = b.input.key => a = b

\* A success, fresh or replayed, always names a committed transaction of the
\* caller's own tenant and key with the caller's own body.
SuccessIsCommitted ==
    \A r \in Requests : result[r] \in {"fresh", "replayed"} =>
        \E row \in ledger : row.tx = resultTx[r] /\ row.input = input[r]

\* COMPLETED in Redis is never ahead of Postgres: the replay that Execute takes on
\* COMPLETED finds the transaction, with the recorded fingerprint.
CompletedIsCommitted ==
    \A k \in Slots : redis[k] # NoRecord /\ redis[k].state = "COMPLETED" =>
        \E row \in ledger : IndexKey(row.input) = k /\ Fingerprint(row.input) = redis[k].fp

SameSlot(i, j) == i.tenant = j.tenant /\ i.key = j.key

Errors == {"fault"} \cup DefiniteErrors

\* A refusal on account of the key is another request's doing.  A fingerprint mismatch
\* needs a request of the same tenant and key with another body; "key failed" needs one
\* with the same input that itself ended in an error, so it is never said of a key whose
\* request succeeded, whatever stale record the request met.  ("In flight" promises less:
\* a re-sent SETNX makes a request meet its own STARTED record.)
RefusalIsJustified ==
    \A r \in Requests :
        /\ result[r] = "mismatch" =>
              \E o \in Requests \ {r} : /\ input[o] # NoInput
                                         /\ SameSlot(input[o], input[r])
                                         /\ input[o].body # input[r].body
        /\ result[r] = "keyfailed" =>
              \E o \in Requests \ {r} : input[o] = input[r] /\ result[o] \in Errors

ReplyKind(r) ==
    IF pc[r] # "done" THEN "none"
    ELSE IF result[r] \in {"fresh", "replayed"} THEN "success"
    ELSE IF result[r] \in DefiniteErrors THEN "definite"
    ELSE "unknown"

Abstract ==
    INSTANCE IdempotentLedger WITH
        called  <- input,
        entries <- ledger,
        reply   <- [r \in Requests |-> ReplyKind(r)],
        replyTx <- [r \in Requests |-> IF pc[r] = "done" THEN resultTx[r] ELSE NoTx]

\* The service implements the idempotent ledger: every step is a call, the single
\* effect of a call, an answer that keeps its promise, or invisible to the caller.
ImplementsIdempotentLedger == Abstract!Spec

\* Every request that was started is answered, unless its process dies: no wait on
\* the UNIQUE index, no retry loop and no transaction in doubt holds it up for ever.
EveryRequestEnds ==
    \A r \in Requests : pc[r] # "idle" ~> pc[r] \in {"done", "crashed"}

\* What ErrIdempotencyKeyFailed tells the client (domain/errors.go): the key failed,
\* use a new one.  It should never be said of a transfer that is in the ledger.
FailedKeyHasNoTransaction ==
    \A r \in Requests : result[r] = "keyfailed" => \A row \in ledger : row.input # input[r]
=============================================================================
