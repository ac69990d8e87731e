----------------------------- MODULE AuditChain -----------------------------
(***************************************************************************)
(* The asynchronous audit log: transfers leave a row in audit_pending and  *)
(* AuditWorker drains it into audit_log, computing each tenant's hash      *)
(* chain on the way (repository/audit_drain.go, audit_repo.go,             *)
(* infrastructure/audit_worker.go, audit/hasher.go).                       *)
(*                                                                         *)
(* EntryHash is taken to be injective, so an entry's hash is named by the  *)
(* entry's row and prev_hash by the predecessor's row.  A worker is the    *)
(* drain loop of one server process; it keeps nothing between drains, so a *)
(* restart is a failed drain followed by another one.                      *)
(***************************************************************************)
EXTENDS Naturals, FiniteSets

CONSTANTS Ids,            \* audit_pending ids (uuidv7), in the order they were drawn
          Times,          \* values of occurred_at
          Tenants,        \* tenant ids, in their sort order
          Workers,
          BatchSize,
          Genesis,        \* GenesisHash
          MaxInDoubt      \* bound on transactions abandoned at the same time

ASSUME AuditAssumption ==
    /\ Ids \subseteq Nat /\ Times \subseteq Nat /\ Tenants \subseteq Nat
    /\ BatchSize \in Nat \ {0}
    /\ Genesis \notin Ids
    /\ MaxInDoubt \in Nat

Rows == [id : Ids, tenant : Tenants, occ : Times]

Entries == [row : Rows, prev : Ids \cup {Genesis}]

VARIABLES
    enqueued,  \* the audit rows of all committed transfers
    pending,   \* audit_pending
    log,       \* audit_log
    pc,        \* pc[w]: between drains, chaining tenant runs, about to commit
    claimed,   \* claimed[w]: the rows w's transaction has locked
    out,       \* out[w]: the entries it has inserted
    lost,      \* transactions whose client is gone and that the server has not ended
    disorder   \* history: tenants with a row out of order or with overlapping drains

vars == <<enqueued, pending, log, pc, claimed, out, lost, disorder>>

TypeOK ==
    /\ enqueued \subseteq Rows
    /\ pending \subseteq Rows
    /\ log \subseteq Entries
    /\ pc \in [Workers -> {"idle", "chain", "commit"}]
    /\ claimed \in [Workers -> SUBSET Rows]
    /\ out \in [Workers -> SUBSET Entries]
    /\ lost \subseteq [rows : SUBSET Rows, entries : SUBSET Entries]
    /\ disorder \subseteq Tenants

Init ==
    /\ enqueued = {} /\ pending = {} /\ log = {}
    /\ pc = [w \in Workers |-> "idle"]
    /\ claimed = [w \in Workers |-> {}]
    /\ out = [w \in Workers |-> {}]
    /\ lost = {}
    /\ disorder = {}

\* ORDER BY tenant_id, id
Before(a, b) == a.tenant < b.tenant \/ (a.tenant = b.tenant /\ a.id < b.id)

\* ORDER BY occurred_at DESC, id DESC
Later(a, b) == a.occ > b.occ \/ (a.occ = b.occ /\ a.id > b.id)

Locked == (UNION {claimed[w] : w \in Workers}) \cup (UNION {t.rows : t \in lost})

\* Row r appears too late to be chained in order: behind a row of its tenant that a drain
\* has taken, or with a clock that runs against the ids.
OutOfOrder(r) ==
    \E q \in enqueued :
        /\ q.tenant = r.tenant
        /\ \/ q \notin pending \ Locked /\ ~Later(r, q)
           \/ Later(r, q) # (r.id > q.id)

\* A transfer commits its audit_pending row.  The id is drawn when the row is inserted,
\* occurred_at was read from the server's clock earlier, and the commit comes later.
EnqueueAudit(r) ==
    /\ \A q \in enqueued : q.id # r.id
    /\ enqueued' = enqueued \cup {r}
    /\ pending' = pending \cup {r}
    /\ disorder' = IF OutOfOrder(r) THEN disorder \cup {r.tenant} ELSE disorder
    /\ UNCHANGED <<log, pc, claimed, out, lost>>

\* claimPendingBatch: the first BatchSize rows that nobody has locked.  (When there are
\* none the empty transaction is committed and nothing changes.)
Claim(w) ==
    /\ pc[w] = "idle"
    /\ LET free == pending \ Locked
           rows == {r \in free : Cardinality({q \in free : Before(q, r)}) < BatchSize}
       IN
       /\ free # {}
       /\ claimed' = [claimed EXCEPT ![w] = rows]
       /\ disorder' = disorder \cup ({r.tenant : r \in rows} \cap {q.tenant : q \in Locked})
    /\ pc' = [pc EXCEPT ![w] = "chain"]
    /\ UNCHANGED <<enqueued, pending, log, out, lost>>

LatestAscending(t) ==
    LET own == {e.row : e \in {x \in log : x.row.tenant = t}} IN
    IF own = {} THEN Genesis
    ELSE (CHOOSE r \in own : \A q \in own \ {r} : Later(q, r)).id

\* latestAuditHash: the entry_hash of the tenant's latest row, or GenesisHash.
LatestAuditHash(t) ==
    LET own == {e.row : e \in {x \in log : x.row.tenant = t}} IN
    IF own = {} THEN Genesis
    ELSE (CHOOSE r \in own : \A q \in own \ {r} : Later(r, q)).id

\* The rows of w's batch that are not in audit_log yet.
Remaining(w) == {r \in claimed[w] : \A e \in out[w] : e.row # r}

PrevHashOffByOne(r, run, head) ==
    LET earlier == {q \in run : q.id < r.id} IN
    IF earlier = {} THEN head
    ELSE (CHOOSE p \in earlier : \A q \in earlier : q.id <= p.id).id - 1

\* prev_hash of row r: the first row of a run is linked to head, every other one to the
\* row before it.
PrevHash(r, run, head) ==
    LET earlier == {q \in run : q.id < r.id} IN
    IF earlier = {} THEN head
    ELSE (CHOOSE p \in earlier : \A q \in earlier : q.id <= p.id).id

\* What chainTenantRun inserts for a run.
Chained(run, head) == {[row |-> r, prev |-> PrevHash(r, run, head)] : r \in run}

ChainWholeBatch(w) ==
    /\ pc[w] = "chain"
    /\ \E t \in Tenants :
          /\ \E r \in Remaining(w) : r.tenant = t
          /\ \A r \in Remaining(w) : t <= r.tenant
          /\ out' = [out EXCEPT ![w] = @ \cup Chained(Remaining(w), LatestAuditHash(t))]
    /\ pc' = [pc EXCEPT ![w] = "commit"]
    /\ UNCHANGED <<enqueued, pending, log, claimed, lost, disorder>>

\* chainTenantRun for the next tenant of the batch: read the head (a statement of its
\* own, which sees what others have committed by now), insert the run.
ChainTenantRun(w) ==
    /\ pc[w] = "chain"
    /\ \E t \in Tenants :
          LET run == {r \in Remaining(w) : r.tenant = t} IN
          /\ run # {}
          /\ \A r \in Remaining(w) : t <= r.tenant
          /\ out' = [out EXCEPT ![w] = @ \cup Chained(run, LatestAuditHash(t))]
          /\ pc' = [pc EXCEPT ![w] = IF run = Remaining(w) THEN "commit" ELSE "chain"]
    /\ UNCHANGED <<enqueued, pending, log, claimed, lost, disorder>>

EndDrainKeepingClaims(w) ==
    /\ pc' = [pc EXCEPT ![w] = "idle"]
    /\ out' = [out EXCEPT ![w] = {}]
    /\ UNCHANGED claimed

\* The transaction of w is over for w.
EndDrain(w) ==
    /\ pc' = [pc EXCEPT ![w] = "idle"]
    /\ claimed' = [claimed EXCEPT ![w] = {}]
    /\ out' = [out EXCEPT ![w] = {}]

CommitDeletingTenants(w) ==
    /\ pc[w] = "commit"
    /\ log' = log \cup out[w]
    /\ pending' = {r \in pending : \A q \in claimed[w] : q.tenant # r.tenant}
    /\ EndDrain(w)
    /\ UNCHANGED <<enqueued, lost, disorder>>

\* The COMMIT: the inserted entries and the deletion of the claimed rows appear at once.
Commit(w) ==
    /\ pc[w] = "commit"
    /\ log' = log \cup out[w]
    /\ pending' = pending \ claimed[w]
    /\ EndDrain(w)
    /\ UNCHANGED <<enqueued, lost, disorder>>

\* A statement fails, or the process dies, and the transaction is rolled back.
DrainFault(w) ==
    /\ pc[w] # "idle"
    /\ EndDrain(w)
    /\ UNCHANGED <<enqueued, pending, log, lost, disorder>>

\* The connection is gone and the server has not noticed, or has the COMMIT to carry out.
Disconnect(w) ==
    /\ pc[w] # "idle"
    /\ Cardinality(lost) < MaxInDoubt
    /\ lost' = lost \cup {[rows |-> claimed[w],
                           entries |-> IF pc[w] = "commit" THEN out[w] ELSE {}]}
    /\ EndDrain(w)
    /\ UNCHANGED <<enqueued, pending, log, disorder>>

\* The server ends an abandoned transaction: rolled back, or committed if its COMMIT
\* was sent.
Settle(t) ==
    /\ t \in lost
    /\ lost' = lost \ {t}
    /\ \/ UNCHANGED <<pending, log>>
       \/ /\ t.entries # {}
          /\ log' = log \cup t.entries
          /\ pending' = pending \ t.rows
    /\ UNCHANGED <<enqueued, pc, claimed, out, disorder>>

Drain(w) == Claim(w) \/ ChainTenantRun(w) \/ Commit(w)

\* Everything but the ledger's own transactions.
Audit ==
    \/ \E w \in Workers : Drain(w) \/ DrainFault(w) \/ Disconnect(w)
    \/ \E t \in lost : Settle(t)

Next == Audit \/ \E r \in Rows : EnqueueAudit(r)

Spec == Init /\ [][Next]_vars

\* The loop keeps draining, the server ends abandoned transactions, and the faults of
\* the database stop at some time.
Fairness ==
    /\ \A w \in Workers : WF_vars(Drain(w))
    /\ WF_vars(\E t \in lost : Settle(t))
    /\ <>[][~ \E w \in Workers : DrainFault(w) \/ Disconnect(w)]_vars

FairSpec == Spec /\ Fairness

-----------------------------------------------------------------------------
(* Properties *)

\* The move from audit_pending to audit_log neither loses nor repeats a row: every
\* committed transfer is waiting or audited, never both, and audited once.
RowsConserved ==
    /\ \A r \in enqueued : r \in pending <=> \A e \in log : e.row # r
    /\ \A d, e \in log : d.row = e.row => d = e

\* Every link leads to the start of the tenant's chain or to another audited row of the
\* same tenant: one tenant's chain is verifiable without another's, and without gaps.
LinksAreSound ==
    \A e \in log : e.prev # Genesis =>
        \E p \in log : p.row.id = e.prev /\ p.row.tenant = e.row.tenant /\ p # e

\* The tenant's chain is a chain: no two entries have the same predecessor.
ChainIsLinear ==
    \A d, e \in log : d.row.tenant = e.row.tenant /\ d.prev = e.prev => d = e

\* A tenant's chain forks only for one of two causes of its own: a row that appears behind a
\* row already taken (or clocks against ids), or two drains that hold rows of the tenant at
\* the same time.  Failed drains, batch limits and other tenants never fork it.
ForksHaveACause ==
    \A d, e \in log :
        d.row.tenant = e.row.tenant /\ d.prev = e.prev /\ d.row.tenant \notin disorder => d = e

\* Every committed transfer is audited in the end.
EveryRowIsAudited ==
    \A r \in Rows : r \in enqueued ~> \E e \in log : e.row = r
=============================================================================
