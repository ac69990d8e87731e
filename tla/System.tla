-------------------------------- MODULE System --------------------------------
(***************************************************************************)
(* A transfer from the request's decimal string to the topic and the audit *)
(* log: the gRPC handler's conversion, the checks of TransferUsecase, the  *)
(* one database transaction that writes the two legs, the outbox row and   *)
(* the audit row, the relay, the audit worker, and the reconciler's check  *)
(* of the ledger.                                                          *)
(*                                                                         *)
(* Idempotency is taken from IdempotentLedger, which Transfer implements;  *)
(* the relay is Outbox and the audit worker is AuditChain, whose own       *)
(* environment actions become parts of the ledger's COMMIT.  The outbox    *)
(* row and the audit row of a call are named by the call.                  *)
(***************************************************************************)
EXTENDS Money, FiniteSetsExt

CONSTANTS Requests,   \* the calls of the Transfer RPC
          Sends,      \* Sends[r]: what call r may send (see Message)
          NoInput, NoTx,
          Drainers, BatchSize, MaxFaults,   \* see Outbox
          Tenants, Times, Workers, Genesis, MaxInDoubt   \* see AuditChain

\* A TransferRequest with its tenant claim.  wellFormed stands for the checks on the shape
\* of the tenant, the key, the UUIDs and the currency.
Message(m) ==
    /\ DOMAIN m = {"tenant", "key", "from", "to", "amount", "wellFormed"}
    /\ m.tenant \in Tenants
    /\ m.amount \in Decimals
    /\ m.wellFormed \in BOOLEAN

Messages == UNION {Sends[r] : r \in Requests}

ASSUME SystemAssumption ==
    /\ Requests \subseteq Nat
    /\ \A m \in Messages : Message(m)
    /\ NoInput \notin Messages
    /\ BatchSize \in Nat \ {0} /\ MaxFaults \in Nat
    /\ Tenants \subseteq Nat /\ Times \subseteq Nat
    /\ Genesis \notin Requests
    /\ MaxInDoubt \in Nat

VARIABLES
    sent,      \* sent[r]: the message of call r
    journal,   \* journal_entries
    called, entries, reply, replyTx,
    status, stale, pc, batch, held, flight, acked, orphan, topic, produced, lost, faults,
    enqueued, pending, log, auditPc, claimed, out, auditLost, disorder

ledgerVars == <<called, entries, reply, replyTx>>
relayVars == <<status, stale, pc, batch, held, flight, acked, orphan, topic, produced, lost, faults>>
auditVars == <<enqueued, pending, log, auditPc, claimed, out, auditLost, disorder>>
vars == <<sent, journal, ledgerVars, relayVars, auditVars>>

\* The TransferInput of a message; the fingerprint tells two of them apart exactly when
\* they differ here, so decimals of the same value are the same body.
Input(m) ==
    [tenant |-> m.tenant, key |-> m.key,
     body |-> [from |-> m.from, to |-> m.to, amount |-> NewAmount(m.amount)]]

L == INSTANCE IdempotentLedger WITH Inputs <- {Input(m) : m \in Messages}

\* The workers' relay.  No reconciler is among the drainers, so no row's age is ever read.
R == INSTANCE Outbox WITH Events <- Requests, Reconcilers <- {}

A == INSTANCE AuditChain WITH Ids <- Requests, pc <- auditPc, lost <- auditLost

Legs(tx, body) ==
    {[tx |-> tx, account |-> body.from, amount |-> Neg(body.amount)],
     [tx |-> tx, account |-> body.to, amount |-> body.amount]}

Init ==
    /\ sent = [r \in Requests |-> NoInput]
    /\ journal = {}
    /\ L!Init /\ R!Init /\ A!Init

-----------------------------------------------------------------------------
(* The call *)

\* validateTransferInput, and validateTransferRequest once more.
Valid(body) == body.from # body.to /\ ~IsZero(body.amount) /\ ~IsNegative(body.amount)

\* The message passes transferRequestFromPB, validateTransferInput and the pre-flight
\* AssertBalanced.
Accepted(m) ==
    LET body == Input(m).body IN
    /\ m.wellFormed
    /\ body.amount # Refused
    /\ Valid(body)
    /\ AssertBalanced(Neg(body.amount), body.amount)

SubmitUnconverted(r, m) ==
    /\ sent[r] = NoInput
    /\ sent' = [sent EXCEPT ![r] = m]
    /\ IF Accepted(m) THEN L!Call(r, m) ELSE L!CallAndReject(r, m)
    /\ UNCHANGED <<journal, relayVars, auditVars>>

\* The handler takes a call, and answers a message that is refused at once.
Submit(r, m) ==
    /\ sent[r] = NoInput
    /\ sent' = [sent EXCEPT ![r] = m]
    /\ IF Accepted(m) THEN L!Call(r, Input(m)) ELSE L!CallAndReject(r, Input(m))
    /\ UNCHANGED <<journal, relayVars, auditVars>>

WriteJournalOnly(r) ==
    /\ journal' = journal \cup Legs(r, called[r].body)
    /\ UNCHANGED <<relayVars, auditVars>>

\* What the batch of ExecuteTransfer inserts beside the transactions row.
WriteBatch(r) ==
    LET body == called[r].body IN
    /\ Storable(Neg(body.amount)) /\ Storable(body.amount)
    /\ journal' = journal \cup Legs(r, body)
    /\ R!Append(r)
    /\ \E t \in Times : A!EnqueueAudit([id |-> r, tenant |-> called[r].tenant, occ |-> t])

BookRegardless(r) ==
    /\ called[r] # NoInput
    /\ \A e \in entries : L!SlotOf(e.input) # L!SlotOf(called[r])
    /\ entries' = entries \cup {L!EntryOf(r)}
    /\ WriteBatch(r)
    /\ UNCHANGED <<sent, called, reply, replyTx>>

\* The COMMIT of call r, whose caller may have been answered, and one answered with it.
Book(r) == L!Commit(r) /\ WriteBatch(r) /\ UNCHANGED sent

BookAndAnswer(r) == L!CommitAndAnswer(r) /\ WriteBatch(r) /\ UNCHANGED sent

\* Any other answer: a replay, an error.
Answer(r) ==
    /\ \E k \in L!Kinds : L!Answer(r, k)
    /\ UNCHANGED <<sent, journal, relayVars, auditVars>>

Next ==
    \/ \E r \in Requests :
          (\E m \in Sends[r] : Submit(r, m)) \/ Book(r) \/ BookAndAnswer(r) \/ Answer(r)
    \/ R!Relay /\ UNCHANGED <<sent, journal, ledgerVars, auditVars>>
    \/ A!Audit /\ UNCHANGED <<sent, journal, ledgerVars, relayVars>>

Spec == Init /\ [][Next]_vars

\* The fairness of the two workers, and none of the callers.
FairSpec == Spec /\ R!RelayFairness /\ A!Fairness

-----------------------------------------------------------------------------
(* The reconciler's check, and the properties *)

\* SUM(amount), where NaN is contagious.
SumOf(legs) ==
    IF \E l \in legs : l.amount.form = "nan" THEN NaN
    ELSE Finite(MapThenSumSet(LAMBDA l : l.amount.n, legs))

\* LedgerSumZeroCheck and, for the alert, UnbalancedTransactionIDs.
LedgerSumZeroCheck == SumOf(journal) = Finite(0)

UnbalancedTransactionIDs ==
    {r \in Requests : SumOf({l \in journal : l.tx = r}) # Finite(0)}

TypeOK ==
    /\ sent \in [Requests -> Messages \cup {NoInput}]
    /\ journal \subseteq UNION {Legs(r, Input(m).body) : r \in Requests, m \in Messages}
    /\ called \in [Requests -> {Input(m) : m \in Messages} \cup {NoInput}]
    /\ entries \subseteq {[tx |-> r, input |-> Input(m)] : r \in Requests, m \in Messages}
    /\ reply \in [Requests -> L!Kinds]
    /\ replyTx \in [Requests -> Requests \cup {NoTx}]

\* Neither the ledger nor any single transaction is ever out of balance, so the reconciler
\* never pages: no amount that NewAmount lets through unreadable reaches a leg.
ReconcilerNeverPages == LedgerSumZeroCheck /\ UnbalancedTransactionIDs = {}

\* A success, first or replayed, stands for a transaction that moves exactly the positive
\* value the caller wrote, from the one account to the other.
SuccessBooksTheAmount ==
    \A r \in Requests : reply[r] = "success" =>
        LET v == Units(sent[r].amount) IN
        /\ sent[r].amount.exp >= -Scale
        /\ v > 0
        /\ {l \in journal : l.tx = replyTx[r]} =
              {[tx |-> replyTx[r], account |-> sent[r].from, amount |-> Finite(-v)],
               [tx |-> replyTx[r], account |-> sent[r].to, amount |-> Finite(v)]}

\* A definite error is final everywhere: no leg, no event and no audit row of that call
\* exists or ever appears.
RefusedLeavesNoTrace ==
    \A r \in Requests : reply[r] = "definite" =>
        /\ \A l \in journal : l.tx # r
        /\ topic[r] = 0 /\ status[r] = "absent"
        /\ \A q \in enqueued : q.id # r

\* Every transaction of the ledger reaches the topic, as long as a drainer is left, and the
\* audit log, whatever its caller was told.
EveryTransferArrives ==
    \A r \in Requests :
        (\E e \in entries : e.tx = r) ~>
            /\ topic[r] >= 1 \/ \A d \in Drainers : pc[d] = "stopped"
            /\ \E e \in log : e.row.id = r
=============================================================================
