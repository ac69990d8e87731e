----------------------------- MODULE SystemProofs -----------------------------
(***************************************************************************)
(* The composition of System keeps what its components promise, and more:  *)
(* a refused call leaves no trace, a success books the amount that was     *)
(* sent, the ledger is balanced, and the ledger, the topic and the audit   *)
(* log agree about which transfers exist, for any calls, amounts,          *)
(* drainers, workers and faults.                                           *)
(***************************************************************************)
EXTENDS System, FiniteSetTheorems, WellFoundedInduction, TLAPS

RP == INSTANCE OutboxProofs WITH Events <- Requests, Reconcilers <- {}

AP == INSTANCE AuditProofs WITH Ids <- Requests, pc <- auditPc, lost <- auditLost

\* The assumptions of the three components hold of the instances.
LEMMA ComponentAssumptions ==
    /\ Requests \subseteq Nat /\ {} \subseteq Drainers /\ BatchSize \in Nat \ {0} /\ MaxFaults \in Nat
    /\ Times \subseteq Nat /\ Tenants \subseteq Nat /\ Genesis \notin Requests /\ MaxInDoubt \in Nat
BY SystemAssumption

-----------------------------------------------------------------------------
(* The steps of the relay are those of Outbox, about which OutboxProofs speaks *)

LEMMA RelaySteps == R!Relay => RP!Relay
<1>0. /\ \A S : R!Cardinality(S) = RP!Cardinality(S)
      /\ \A S, n : R!Oldest(S, n) = RP!Oldest(S, n)
  <2>1. \A S : R!Cardinality(S) = RP!Cardinality(S)
    BY DEF R!Cardinality, RP!Cardinality
  <2> QED
    BY <2>1 DEF R!Oldest, RP!Oldest
<1>1. \A e \in Requests : R!DeliverOrphan(e) => RP!DeliverOrphan(e)
  BY DEF R!DeliverOrphan, RP!DeliverOrphan
<1>2. \A d \in Drainers, e \in Requests : R!Deliver(d, e) => RP!Deliver(d, e)
  BY DEF R!Deliver, RP!Deliver
<1>3. \A d \in Drainers, e \in Requests : R!DeliverFault(d, e) => RP!DeliverFault(d, e)
  BY DEF R!DeliverFault, RP!DeliverFault, R!AFault, RP!AFault
<1>4. \A d \in Drainers : R!Claim(d) => RP!Claim(d)
  <2>1. \A d : R!Eligible(d) = RP!Eligible(d)
    BY DEF R!Eligible, RP!Eligible, R!Locked, RP!Locked
  <2> QED
    BY <1>0, <2>1 DEF R!Claim, RP!Claim
<1>5. \A d \in Drainers : R!Enqueue(d) => RP!Enqueue(d)
  BY DEF R!Enqueue, RP!Enqueue, R!Plus, RP!Plus
<1>6. \A d \in Drainers : R!Collect(d) => RP!Collect(d)
  BY DEF R!Collect, RP!Collect, R!EndDrain, RP!EndDrain, R!Forget, RP!Forget, R!Plus, RP!Plus
<1>7. \A d \in Drainers : R!Publish(d) => RP!Publish(d)
  BY DEF R!Publish, RP!Publish, R!EndDrain, RP!EndDrain, R!Forget, RP!Forget, R!Plus, RP!Plus,
      R!Published, RP!Published, R!Marks, RP!Marks
<1>8. \A d \in Drainers : R!EnqueueFault(d) => RP!EnqueueFault(d)
  <2>1. \A f, S : R!Plus(f, S) = RP!Plus(f, S)
    BY DEF R!Plus, RP!Plus
  <2> QED
    BY <1>0, <2>1 DEF R!EnqueueFault, RP!EnqueueFault, R!AFault, RP!AFault
<1>9. \A d \in Drainers : R!ProduceTimeout(d) => RP!ProduceTimeout(d)
  BY DEF R!ProduceTimeout, RP!ProduceTimeout, R!AFault, RP!AFault, R!EndDrain, RP!EndDrain,
      R!Forget, RP!Forget, R!Plus, RP!Plus
<1>10. \A d \in Drainers : R!PublishFault(d) => RP!PublishFault(d)
  BY DEF R!PublishFault, RP!PublishFault, R!AFault, RP!AFault, R!EndDrain, RP!EndDrain,
      R!Forget, RP!Forget, R!Plus, RP!Plus
<1>11. \A d \in Drainers : R!PublishInDoubt(d) => RP!PublishInDoubt(d)
  BY DEF R!PublishInDoubt, RP!PublishInDoubt, R!AFault, RP!AFault, R!EndDrain, RP!EndDrain,
      R!Forget, RP!Forget, R!Plus, RP!Plus, R!Abandoned, RP!Abandoned, R!Marks, RP!Marks
<1>12. \A d \in Drainers : R!ConnectionLost(d) => RP!ConnectionLost(d)
  BY DEF R!ConnectionLost, RP!ConnectionLost, R!AFault, RP!AFault, R!Abandoned, RP!Abandoned
<1>13. \A d \in Drainers : R!Stop(d) => RP!Stop(d)
  BY DEF R!Stop, RP!Stop, R!AFault, RP!AFault, R!Forget, RP!Forget, R!Plus, RP!Plus,
      R!Abandoned, RP!Abandoned, R!Marks, RP!Marks
<1>14. \A t \in lost : R!Settle(t) => RP!Settle(t)
  BY DEF R!Settle, RP!Settle, R!Published, RP!Published
<1> QED
  BY <1>1, <1>2, <1>3, <1>4, <1>5, <1>6, <1>7, <1>8, <1>9, <1>10, <1>11, <1>12, <1>13, <1>14
  DEF R!Relay, RP!Relay, R!Drain, RP!Drain, R!DrainFault, RP!DrainFault

RelayInv == RP!TypeOK /\ RP!BatchInv /\ RP!LockInv /\ RP!KnownInv

\* Every step of the system is a step of the relay or leaves it alone.
LEMMA NextRelay == [Next]_vars => [RP!Next]_(RP!vars)
<1> SUFFICES ASSUME [Next]_vars PROVE RP!Next \/ UNCHANGED RP!vars
  OBVIOUS
<1>1. \A r \in Requests : R!Append(r) => RP!Append(r)
  BY DEF R!Append, RP!Append
<1>2. ASSUME NEW r \in Requests, Book(r) \/ BookAndAnswer(r) PROVE RP!Next
  BY <1>1, <1>2 DEF Book, BookAndAnswer, WriteBatch, RP!Next
<1>3. CASE R!Relay
  BY <1>3, RelaySteps DEF RP!Next
<1>4. CASE UNCHANGED relayVars
  BY <1>4 DEF relayVars, RP!vars
<1> QED
  BY <1>2, <1>3, <1>4 DEF Next, Submit, Answer, vars

LEMMA NextRelayInv == RelayInv /\ [Next]_vars => RelayInv'
<1> SUFFICES ASSUME RelayInv, [Next]_vars PROVE RelayInv'
  OBVIOUS
<1>1. [RP!Next]_(RP!vars)
  BY NextRelay
<1>2. RP!TypeOK /\ RP!BatchInv /\ RP!LockInv /\ RP!KnownInv
  BY DEF RelayInv
<1>3. RP!TypeOK'
  BY <1>1, <1>2, ComponentAssumptions, RP!NextType
<1>4. RP!BatchInv'
  BY <1>1, <1>2, ComponentAssumptions, RP!NextBatch
<1>5. RP!LockInv'
  BY <1>1, <1>2, ComponentAssumptions, RP!NextLock
<1>6. RP!KnownInv'
  BY <1>1, <1>2, ComponentAssumptions, RP!NextKnown
<1> QED
  BY <1>3, <1>4, <1>5, <1>6 DEF RelayInv

-----------------------------------------------------------------------------
(* The steps of the audit worker are those of AuditChain, about which AuditProofs speaks *)

LEMMA AuditSteps ==
    /\ A!Audit => AP!Audit
    /\ \A r \in A!Rows : A!EnqueueAudit(r) => AP!EnqueueAudit(r)
    /\ A!Rows = AP!Rows
<1>0. /\ \A S : A!Cardinality(S) = AP!Cardinality(S)
      /\ A!Locked = AP!Locked /\ A!Rows = AP!Rows
      /\ \A a, b : A!Later(a, b) = AP!Later(a, b)
  BY DEF A!Cardinality, AP!Cardinality, A!Locked, AP!Locked, A!Rows, AP!Rows, A!Later, AP!Later
<1>1. ASSUME NEW r \in A!Rows, A!EnqueueAudit(r) PROVE AP!EnqueueAudit(r)
  <2>1. A!OutOfOrder(r) = AP!OutOfOrder(r)
    BY <1>0 DEF A!OutOfOrder, AP!OutOfOrder
  <2> QED
    BY <1>1, <2>1 DEF A!EnqueueAudit, AP!EnqueueAudit
<1>2. \A w \in Workers : A!Claim(w) => AP!Claim(w)
  BY DEF A!Claim, AP!Claim, A!Before, AP!Before, A!Locked, AP!Locked, A!Cardinality, AP!Cardinality
<1>3. ASSUME NEW w \in Workers, A!ChainTenantRun(w) PROVE AP!ChainTenantRun(w)
  <2>1. A!Remaining(w) = AP!Remaining(w)
    BY DEF A!Remaining, AP!Remaining
  <2>2. \A t : A!LatestAuditHash(t) = AP!LatestAuditHash(t)
    BY DEF A!LatestAuditHash, AP!LatestAuditHash, A!Later, AP!Later
  <2>3. \A run, head : A!Chained(run, head) = AP!Chained(run, head)
    BY DEF A!Chained, AP!Chained, A!PrevHash, AP!PrevHash
  <2> QED
    BY <1>3, <2>1, <2>2, <2>3, ZenonT(40) DEF A!ChainTenantRun, AP!ChainTenantRun
<1>4. \A w \in Workers : A!EndDrain(w) = AP!EndDrain(w)
  BY DEF A!EndDrain, AP!EndDrain
<1>5. \A w \in Workers : A!Commit(w) => AP!Commit(w)
  BY <1>4 DEF A!Commit, AP!Commit
<1>6. \A w \in Workers : A!DrainFault(w) => AP!DrainFault(w)
  BY <1>4 DEF A!DrainFault, AP!DrainFault
<1>7. \A w \in Workers : A!Disconnect(w) => AP!Disconnect(w)
  BY <1>0, <1>4 DEF A!Disconnect, AP!Disconnect
<1>8. \A t \in auditLost : A!Settle(t) => AP!Settle(t)
  BY DEF A!Settle, AP!Settle
<1> QED
  BY <1>0, <1>1, <1>2, <1>3, <1>5, <1>6, <1>7, <1>8 DEF A!Audit, AP!Audit, A!Drain, AP!Drain

-----------------------------------------------------------------------------
(* What the ledger, its journal and the other two tables know of each other *)

CallInv ==
    /\ sent \in [Requests -> Messages \cup {NoInput}]
    /\ called \in [Requests -> {Input(m) : m \in Messages} \cup {NoInput}]
    /\ reply \in [Requests -> L!Kinds]
    /\ replyTx \in [Requests -> Requests \cup {NoTx}]
    /\ \A r \in Requests :
          IF sent[r] = NoInput
          THEN called[r] = NoInput /\ reply[r] = "none"
          ELSE called[r] = Input(sent[r]) /\ (reply[r] # "definite" => Accepted(sent[r]))

\* A transaction is of an accepted call that no definite error has answered; a success
\* names a transaction with the caller's input.
EntryInv ==
    /\ \A e \in entries :
          /\ e.tx \in Requests /\ sent[e.tx] # NoInput /\ reply[e.tx] # "definite"
          /\ e = [tx |-> e.tx, input |-> called[e.tx]]
          /\ Accepted(sent[e.tx])
    /\ \A r \in Requests : reply[r] = "success" =>
          sent[r] # NoInput /\ \E e \in entries : e.tx = replyTx[r] /\ e.input = called[r]

\* The rows of a batch appear together.
BatchWritten ==
    /\ \A l \in journal : \E e \in entries : l \in Legs(e.tx, e.input.body)
    /\ \A e \in entries : Legs(e.tx, e.input.body) \subseteq journal
    /\ \A r \in Requests : status[r] # "absent" => \E e \in entries : e.tx = r
    /\ \A e \in entries : status[e.tx] # "absent"
    /\ \A q \in enqueued : \E e \in entries : e.tx = q.id /\ e.input.tenant = q.tenant
    /\ \A e \in entries : \E q \in enqueued : q.id = e.tx

SInv == CallInv /\ EntryInv /\ BatchWritten

\* The relay and the audit worker neither add a row to the tables that a transfer writes nor
\* remove its traces.
LEMMA WorkersAddNothing ==
    ASSUME RelayInv
    PROVE  /\ R!Relay => \A r \in Requests : status'[r] # "absent" <=> status[r] # "absent"
           /\ A!Audit => enqueued' = enqueued
<1>1. ASSUME R!Relay, NEW r \in Requests, status[r] = "absent" PROVE status'[r] = "absent"
  <2>0. /\ status \in [Requests -> {"absent", "PENDING", "PUBLISHED"}]
        /\ \A d \in Drainers : r \notin acked[d]
        /\ \A t \in lost : r \notin t.marks
    BY <1>1 DEF RelayInv, RP!TypeOK, RP!BatchInv, RP!LockInv, RP!KnownInv
  <2>1. ASSUME NEW d \in Drainers, R!Publish(d) PROVE status'[r] = "absent"
    BY <1>1, <2>0, <2>1 DEF R!Publish, R!Published, R!Marks
  <2>2. ASSUME NEW t \in lost, R!Settle(t) PROVE status'[r] = "absent"
    BY <1>1, <2>0, <2>2 DEF R!Settle, R!Published
  <2>3. CASE status' = status
    BY <1>1, <2>3
  <2> QED
    BY <1>1, <2>1, <2>2, <2>3
    DEF R!Relay, R!Drain, R!DrainFault, R!DeliverOrphan, R!Deliver, R!DeliverFault, R!Claim, R!Enqueue,
        R!Collect, R!EnqueueFault, R!ProduceTimeout, R!PublishFault, R!PublishInDoubt, R!ConnectionLost, R!Stop
<1>2. ASSUME R!Relay, NEW r \in Requests, status[r] # "absent" PROVE status'[r] # "absent"
  <2>0. status \in [Requests -> {"absent", "PENDING", "PUBLISHED"}]
    BY DEF RelayInv, RP!TypeOK
  <2>1. ASSUME NEW d \in Drainers, R!Publish(d) PROVE status'[r] # "absent"
    BY <1>2, <2>0, <2>1 DEF R!Publish, R!Published
  <2>2. ASSUME NEW t \in lost, R!Settle(t) PROVE status'[r] # "absent"
    BY <1>2, <2>0, <2>2 DEF R!Settle, R!Published
  <2>3. CASE status' = status
    BY <1>2, <2>3
  <2> QED
    BY <1>2, <2>1, <2>2, <2>3
    DEF R!Relay, R!Drain, R!DrainFault, R!DeliverOrphan, R!Deliver, R!DeliverFault, R!Claim, R!Enqueue,
        R!Collect, R!EnqueueFault, R!ProduceTimeout, R!PublishFault, R!PublishInDoubt, R!ConnectionLost, R!Stop
<1>3. A!Audit => enqueued' = enqueued
  BY DEF A!Audit, A!Drain, A!Claim, A!ChainTenantRun, A!Commit, A!DrainFault, A!Disconnect, A!Settle
<1> QED
  BY <1>1, <1>2, <1>3

LEMMA NextSInv == SInv /\ RelayInv /\ [Next]_vars => SInv'
<1> SUFFICES ASSUME SInv, RelayInv, [Next]_vars PROVE SInv'
  OBVIOUS
<1>0. CallInv /\ EntryInv /\ BatchWritten
  BY DEF SInv
<1>1. ASSUME NEW r \in Requests, NEW m \in Sends[r], Submit(r, m) PROVE SInv'
  <2>1. m \in Messages /\ m # NoInput /\ sent[r] = NoInput /\ called[r] = NoInput
    BY <1>0, <1>1, SystemAssumption DEF Messages, Submit, CallInv
  <2>2. /\ sent' = [sent EXCEPT ![r] = m]
        /\ called' = [called EXCEPT ![r] = Input(m)]
        /\ (reply' = reply /\ Accepted(m)) \/ reply' = [reply EXCEPT ![r] = "definite"]
        /\ entries' = entries /\ replyTx' = replyTx /\ journal' = journal
        /\ status' = status /\ enqueued' = enqueued
    BY <1>1 DEF Submit, L!Call, L!CallAndReject, relayVars, auditVars
  <2>3. CallInv'
    BY <1>0, <2>1, <2>2 DEF CallInv, L!Kinds
  <2>4. EntryInv'
    BY <1>0, <2>1, <2>2 DEF CallInv, EntryInv
  <2> QED
    BY <1>0, <2>2, <2>3, <2>4 DEF SInv, BatchWritten
<1>2. ASSUME NEW r \in Requests, Book(r) \/ BookAndAnswer(r) PROVE SInv'
  <2> DEFINE e == [tx |-> r, input |-> called[r]]
  <2>1. /\ called[r] # NoInput /\ reply[r] \in {"none", "unknown"}
        /\ entries' = entries \cup {e}
        /\ sent' = sent /\ called' = called
        /\ \/ reply' = reply /\ replyTx' = replyTx
           \/ reply' = [reply EXCEPT ![r] = "success"] /\ replyTx' = [replyTx EXCEPT ![r] = r]
    BY <1>2 DEF Book, BookAndAnswer, L!Commit, L!CommitAndAnswer, L!EntryOf
  <2>2. /\ journal' = journal \cup Legs(r, called[r].body)
        /\ status' = [status EXCEPT ![r] = "PENDING"]
        /\ \E t \in Times : enqueued' = enqueued \cup {[id |-> r, tenant |-> called[r].tenant, occ |-> t]}
    BY <1>2 DEF Book, BookAndAnswer, WriteBatch, R!Append, A!EnqueueAudit
  <2>3. sent[r] # NoInput /\ Accepted(sent[r])
    BY <1>0, <2>1 DEF CallInv
  <2>4. e.tx = r /\ e.input = called[r] /\ e = [tx |-> e.tx, input |-> e.input]
    OBVIOUS
  <2> HIDE DEF e
  <2>5. CallInv'
    BY <1>0, <2>1, <2>3 DEF CallInv, L!Kinds
  <2>6. EntryInv'
    BY <1>0, <2>1, <2>3, <2>4 DEF CallInv, EntryInv
  <2>7. BatchWritten'
    <3>1. status \in [Requests -> {"absent", "PENDING", "PUBLISHED"}]
      BY DEF RelayInv, RP!TypeOK
    <3>2. PICK q : q.id = r /\ q.tenant = called[r].tenant /\ enqueued' = enqueued \cup {q}
      BY <2>2
    <3>3. \A d \in entries : d.tx \in Requests
      BY <1>0 DEF EntryInv
    <3>4. /\ \A l \in journal' : \E d \in entries' : l \in Legs(d.tx, d.input.body)
          /\ \A d \in entries' : Legs(d.tx, d.input.body) \subseteq journal'
      BY <1>0, <2>1, <2>2, <2>4 DEF BatchWritten
    <3>5. /\ \A x \in Requests : status'[x] # "absent" => \E d \in entries' : d.tx = x
          /\ \A d \in entries' : status'[d.tx] # "absent"
      BY <1>0, <2>1, <2>2, <2>4, <3>1, <3>3 DEF BatchWritten
    <3>6. /\ \A x \in enqueued' : \E d \in entries' : d.tx = x.id /\ d.input.tenant = x.tenant
          /\ \A d \in entries' : \E x \in enqueued' : x.id = d.tx
      BY <1>0, <2>1, <2>4, <3>2 DEF BatchWritten
    <3> QED
      BY <3>4, <3>5, <3>6 DEF BatchWritten
  <2> QED
    BY <2>5, <2>6, <2>7 DEF SInv
<1>3. ASSUME NEW r \in Requests, Answer(r) PROVE SInv'
  <2>1. PICK k \in L!Kinds : L!Answer(r, k)
    BY <1>3 DEF Answer
  <2>2. /\ reply' = [reply EXCEPT ![r] = k] /\ called[r] # NoInput /\ reply[r] = "none"
        /\ k = "definite" => \A e \in entries : e.tx # r
        /\ called' = called /\ entries' = entries
    BY <2>1 DEF L!Answer
  <2>3. PICK t \in Requests \cup {NoTx} :
           /\ replyTx' = [replyTx EXCEPT ![r] = t]
           /\ k = "success" => \E e \in entries : e.tx = t /\ e.input = called[r]
    <3>1. CASE k = "success"
      BY <1>0, <2>1, <3>1 DEF L!Answer, EntryInv
    <3>2. CASE k # "success"
      <4>1. replyTx' = replyTx
        BY <2>1, <3>2 DEF L!Answer
      <4>2. replyTx \in [Requests -> Requests \cup {NoTx}]
        BY <1>0 DEF CallInv
      <4> QED
        BY <3>2, <4>1, <4>2
    <3> QED
      BY <3>1, <3>2
  <2>4. sent' = sent /\ journal' = journal /\ status' = status /\ enqueued' = enqueued
    BY <1>3 DEF Answer, relayVars, auditVars
  <2>5. sent[r] # NoInput /\ Accepted(sent[r])
    BY <1>0, <2>2 DEF CallInv
  <2>6. CallInv'
    BY <1>0, <2>2, <2>3, <2>4, <2>5 DEF CallInv
  <2>7. EntryInv'
    BY <1>0, <2>2, <2>3, <2>4, <2>5 DEF CallInv, EntryInv
  <2> QED
    BY <1>0, <2>2, <2>4, <2>6, <2>7 DEF SInv, BatchWritten
<1>4. CASE UNCHANGED <<sent, journal, ledgerVars>> /\ (R!Relay \/ UNCHANGED relayVars)
           /\ (A!Audit \/ UNCHANGED auditVars)
  <2>1. /\ sent' = sent /\ journal' = journal /\ called' = called /\ entries' = entries
        /\ reply' = reply /\ replyTx' = replyTx /\ enqueued' = enqueued
        /\ \A r \in Requests : status'[r] # "absent" <=> status[r] # "absent"
    BY <1>4, WorkersAddNothing DEF ledgerVars, relayVars, auditVars
  <2> QED
    BY <1>0, <2>1 DEF SInv, CallInv, EntryInv, BatchWritten
<1> QED
  BY <1>1, <1>2, <1>3, <1>4 DEF Next, vars

\* Every step of the system is a step of the audit log or leaves it alone.
LEMMA NextAudit == SInv /\ [Next]_vars => [AP!Next]_(AP!vars)
<1> SUFFICES ASSUME SInv, [Next]_vars PROVE AP!Next \/ UNCHANGED AP!vars
  OBVIOUS
<1>1. ASSUME NEW r \in Requests, Book(r) \/ BookAndAnswer(r) PROVE AP!Next
  <2>1. PICK t \in Times : A!EnqueueAudit([id |-> r, tenant |-> called[r].tenant, occ |-> t])
    BY <1>1 DEF Book, BookAndAnswer, WriteBatch
  <2>2. called[r] # NoInput
    BY <1>1 DEF Book, BookAndAnswer, L!Commit, L!CommitAndAnswer
  <2>3. PICK m \in Messages : called[r] = Input(m)
    BY <2>2 DEF SInv, CallInv
  <2>4. [id |-> r, tenant |-> called[r].tenant, occ |-> t] \in A!Rows
    BY <2>3, SystemAssumption DEF Input, Message, A!Rows
  <2> QED
    BY <2>1, <2>4, AuditSteps DEF AP!Next
<1>2. CASE A!Audit
  BY <1>2, AuditSteps DEF AP!Next
<1>3. CASE UNCHANGED auditVars
  BY <1>3 DEF auditVars, AP!vars
<1> QED
  BY <1>1, <1>2, <1>3 DEF Next, Submit, Answer, vars

-----------------------------------------------------------------------------
(* Theorems *)

LEMMA Inductive == Spec => [](SInv /\ RelayInv)
<1>1. Init => SInv
  BY DEF Init, L!Init, R!Init, A!Init, SInv, CallInv, EntryInv, BatchWritten, L!Kinds
<1>2. Init => RelayInv
  BY SystemAssumption DEF Init, R!Init, RelayInv, RP!TypeOK, RP!BatchInv, RP!LockInv, RP!KnownInv, RP!Transactions
<1> QED
  BY <1>1, <1>2, NextSInv, NextRelayInv, PTL DEF Spec

\* Messages, answers, transactions and legs have their types: what is booked is what some
\* message asks for, converted.
THEOREM SystemTypeCorrect == Spec => []TypeOK
<1>1. SInv => TypeOK
  <2> SUFFICES ASSUME SInv PROVE TypeOK
    OBVIOUS
  <2>1. ASSUME NEW e \in entries
        PROVE  \E r \in Requests, m \in Messages : e = [tx |-> r, input |-> Input(m)]
    BY DEF SInv, CallInv, EntryInv
  <2>2. entries \subseteq {[tx |-> r, input |-> Input(m)] : r \in Requests, m \in Messages}
    BY <2>1
  <2>3. journal \subseteq UNION {Legs(r, Input(m).body) : r \in Requests, m \in Messages}
    <3> SUFFICES ASSUME NEW l \in journal
                 PROVE  \E r \in Requests, m \in Messages : l \in Legs(r, Input(m).body)
      OBVIOUS
    <3>1. PICK e \in entries : l \in Legs(e.tx, e.input.body)
      BY DEF SInv, BatchWritten
    <3> QED
      BY <2>1, <3>1
  <2> QED
    BY <2>2, <2>3 DEF SInv, CallInv, TypeOK
<1> QED
  BY <1>1, Inductive, PTL

\* A call that is answered with a definite error has no leg, no event in the outbox or the
\* topic and no audit row, and never gets one.
THEOREM SystemRefusedLeavesNoTrace == Spec => []RefusedLeavesNoTrace
<1>1. SInv /\ RelayInv => RefusedLeavesNoTrace
  <2> SUFFICES ASSUME SInv, RelayInv, NEW r \in Requests, reply[r] = "definite"
               PROVE  /\ \A l \in journal : l.tx # r
                      /\ topic[r] = 0 /\ status[r] = "absent"
                      /\ \A q \in enqueued : q.id # r
    BY DEF RefusedLeavesNoTrace
  <2>1. \A e \in entries : e.tx # r
    BY DEF SInv, EntryInv
  <2>2. \A l \in journal : l.tx # r
    BY <2>1 DEF SInv, BatchWritten, Legs
  <2>3. status[r] = "absent" /\ \A q \in enqueued : q.id # r
    BY <2>1 DEF SInv, BatchWritten
  <2>4. topic[r] = 0
    BY <2>3 DEF RelayInv, RP!KnownInv
  <2> QED
    BY <2>2, <2>3, <2>4
<1> QED
  BY <1>1, Inductive, PTL

\* What the checks of a transfer let through: a finite positive amount, which is the value
\* of the decimal string.
LEMMA AcceptedAmount ==
    ASSUME NEW m \in Messages, Accepted(m)
    PROVE  /\ m.amount.exp >= -Scale
           /\ Units(m.amount) \in Int /\ Units(m.amount) > 0
           /\ NewAmount(m.amount) = Finite(Units(m.amount))
<1> DEFINE w == m.amount
           a == NewAmount(w)
<1>0. m.amount \in Decimals /\ Scale \in Nat
  BY SystemAssumption, MoneyAssumption DEF Message
<1>1. Input(m).body.amount = a
  BY DEF Input
<1>2. a # Refused /\ ~IsZero(a) /\ ~IsNegative(a) /\ AssertBalanced(Neg(a), a)
  BY <1>1 DEF Accepted, Valid
<1>3. w.exp \in Int /\ w.coeff \in Int /\ ~(w.exp < -Scale) /\ a = Quantize(Units(w))
  BY <1>0, <1>2 DEF NewAmount, Decimals
<1>4. Units(w) \in Int
  <2>1. \A k \in Nat : 10 ^ k \in Int
    OBVIOUS
  <2>2. w.exp + Scale \in Nat
    BY <1>0, <1>3
  <2> QED
    BY <1>3, <2>1, <2>2 DEF Units
<1> HIDE DEF a
<1>5. a.form = "finite"
  <2>1. NaN.form = "nan" /\ Neg(a).form = a.form /\ Finite(0).form = "finite"
    BY <1>3 DEF NaN, Neg, Finite, Quantize
  <2> QED
    BY <1>2, <2>1 DEF AssertBalanced, Add, IsZero
<1>6. a = Finite(Units(w))
  BY <1>3, <1>5 DEF Quantize, NaN
<1>7. Units(w) > 0
  BY <1>2, <1>4, <1>6 DEF IsZero, IsNegative, Finite
<1> QED
  BY <1>0, <1>3, <1>4, <1>6, <1>7 DEF a

\* A success, first or replayed, names a transaction of exactly two legs that move the value
\* the caller wrote; no unreadable, rounded, zero or negative amount is ever booked.
THEOREM SystemSuccessBooksTheAmount == Spec => []SuccessBooksTheAmount
<1>1. SInv => SuccessBooksTheAmount
  <2> SUFFICES ASSUME SInv, NEW r \in Requests, reply[r] = "success"
               PROVE  LET v == Units(sent[r].amount) IN
                      /\ sent[r].amount.exp >= -Scale
                      /\ v > 0
                      /\ {l \in journal : l.tx = replyTx[r]} =
                            {[tx |-> replyTx[r], account |-> sent[r].from, amount |-> Finite(-v)],
                             [tx |-> replyTx[r], account |-> sent[r].to, amount |-> Finite(v)]}
    BY DEF SuccessBooksTheAmount
  <2> DEFINE v == Units(sent[r].amount)
             t == replyTx[r]
             debit == [tx |-> t, account |-> sent[r].from, amount |-> Finite(-v)]
             credit == [tx |-> t, account |-> sent[r].to, amount |-> Finite(v)]
  <2>1. sent[r] \in Messages /\ called[r] = Input(sent[r]) /\ Accepted(sent[r])
    BY DEF SInv, CallInv, EntryInv
  <2>2. PICK e \in entries : e.tx = t /\ e.input = called[r]
    BY DEF SInv, EntryInv
  <2>3. sent[r].amount.exp >= -Scale /\ v > 0 /\ NewAmount(sent[r].amount) = Finite(v)
    BY <2>1, AcceptedAmount
  <2>4. Legs(t, called[r].body) = {debit, credit}
    <3>1. /\ called[r].body.from = sent[r].from /\ called[r].body.to = sent[r].to
          /\ called[r].body.amount = Finite(v)
      BY <2>1, <2>3 DEF Input
    <3>2. Neg(Finite(v)) = Finite(-v)
      BY DEF Neg, Finite
    <3> QED
      BY <3>1, <3>2 DEF Legs
  <2>5. ASSUME NEW l \in journal, l.tx = t PROVE l \in {debit, credit}
    <3>1. PICK d \in entries : l \in Legs(d.tx, d.input.body)
      BY DEF SInv, BatchWritten
    <3>2. d.tx = t
      BY <2>5, <3>1 DEF Legs
    <3>3. d.input = e.input
      BY <2>2, <3>2 DEF SInv, EntryInv
    <3> QED
      BY <2>2, <2>4, <3>1, <3>2, <3>3
  <2>6. {debit, credit} \subseteq journal /\ debit.tx = t /\ credit.tx = t
    BY <2>2, <2>4 DEF SInv, BatchWritten
  <2> HIDE DEF debit, credit
  <2>7. {l \in journal : l.tx = t} = {debit, credit}
    BY <2>5, <2>6
  <2> QED
    BY <2>3, <2>7 DEF debit, credit
<1> QED
  BY <1>1, Inductive, PTL

-----------------------------------------------------------------------------
(* Sums over a set of legs.  MapThenSumSet is a recursive function on the  *)
(* subsets of its argument; that it exists, and that it does not matter    *)
(* which leg is taken first, goes by the least counterexample.             *)

Total(S) == MapThenSumSet(LAMBDA l : l.amount.n, S)

First(s) == CHOOSE x \in s : TRUE

\* F gives every subset of S its sum.
Sums(F, S) ==
    F = [s \in SUBSET S |-> IF s = {} THEN 0 ELSE First(s).amount.n + F[s \ {First(s)}]]

Summable(S) == IsFiniteSet(S) /\ \A l \in S : l.amount.n \in Int

LEMMA TotalDef == ASSUME NEW S PROVE Total(S) = (CHOOSE F : Sums(F, S))[S]
  BY DEF Total, MapThenSumSet, MapThenFoldSet, Sums, First

LEMMA FirstIn == ASSUME NEW s, s # {} PROVE First(s) \in s
  BY DEF First

\* A set of subsets of a finite set that is not empty has a minimal element.
LEMMA MinimalSubset ==
    ASSUME NEW S, IsFiniteSet(S), NEW C, C \subseteq SUBSET S, C # {}
    PROVE  \E s \in C : \A u \in C : ~(u \subseteq s /\ u # s)
<1>1. IsWellFoundedOn(StrictSubsetOrdering(S), SUBSET S)
  BY FS_StrictSubsetOrderingWellFounded, FS_FiniteSubsetsOfFinite
<1>2. PICK s \in C : \A u \in C : ~(<<u, s>> \in StrictSubsetOrdering(S))
  BY <1>1, WFMin
<1>3. \A u \in C : u \subseteq s /\ u # s => <<u, s>> \in StrictSubsetOrdering(S)
  BY DEF StrictSubsetOrdering
<1>4. \A u \in C : ~(u \subseteq s /\ u # s)
  BY <1>2, <1>3
<1> QED
  BY <1>4

\* The sum is determined by the set.
LEMMA SumsAgree ==
    ASSUME NEW S, IsFiniteSet(S), NEW T, T \subseteq S, NEW F, NEW G, Sums(F, S), Sums(G, T)
    PROVE  \A s \in SUBSET T : F[s] = G[s]
<1> DEFINE C == {s \in SUBSET T : F[s] # G[s]}
<1>1. SUFFICES ASSUME C # {} PROVE FALSE
  OBVIOUS
<1>2. PICK s \in C : \A u \in C : ~(u \subseteq s /\ u # s)
  <2>1. C \subseteq SUBSET S
    OBVIOUS
  <2> HIDE DEF C
  <2> QED
    BY <1>1, <2>1, MinimalSubset
<1>3. CASE s = {}
  <2>1. F[{}] = 0 /\ G[{}] = 0
    BY DEF Sums
  <2> QED
    BY <1>2, <1>3, <2>1
<1>4. CASE s # {}
  <2>1. First(s) \in s
    BY <1>4, FirstIn
  <2>2. F[s] = First(s).amount.n + F[s \ {First(s)}] /\ G[s] = First(s).amount.n + G[s \ {First(s)}]
    BY <1>2, <1>4 DEF Sums
  <2>3. F[s \ {First(s)}] = G[s \ {First(s)}]
    BY <1>2, <2>1
  <2> QED
    BY <1>2, <2>2, <2>3
<1> QED
  BY <1>3, <1>4

\* There is a function that sums.
LEMMA SumsExists ==
    ASSUME NEW S, Summable(S)
    PROVE  \E F \in [SUBSET S -> Int] : Sums(F, S)
<1> DEFINE Rest(s) == s \ {First(s)}
           Step(F, s) == IF s = {} THEN 0 ELSE First(s).amount.n + F[Rest(s)]
           UpTo(F, T) == \A s \in SUBSET S : Cardinality(s) <= Cardinality(T) => F[s] = Step(F, s)
           C == {T \in SUBSET S : \A F \in [SUBSET S -> Int] : ~UpTo(F, T)}
<1>0. \A s \in SUBSET S : IsFiniteSet(s) /\ Cardinality(s) \in Nat
  BY FS_Subset, FS_CardinalityType DEF Summable
<1>1. \A s \in SUBSET S : s # {} =>
          Rest(s) \in SUBSET S /\ Cardinality(Rest(s)) = Cardinality(s) - 1 /\ First(s).amount.n \in Int
  BY <1>0, FirstIn, FS_RemoveElement DEF Summable
<1> HIDE DEF Rest
<1>2. {} \notin C
  <2> DEFINE F == [s \in SUBSET S |-> 0]
  <2>1. \A s \in SUBSET S : Cardinality(s) <= Cardinality({}) => s = {}
    BY <1>0, FS_EmptySet
  <2>2. F \in [SUBSET S -> Int] /\ UpTo(F, {})
    BY <2>1
  <2> QED
    BY <2>2
<1>3. ASSUME NEW T \in SUBSET S, T # {}, Rest(T) \notin C PROVE T \notin C
  <2>1. PICK G \in [SUBSET S -> Int] : UpTo(G, Rest(T))
    BY <1>1, <1>3
  <2> DEFINE F == [s \in SUBSET S |-> Step(G, s)]
  <2>2. F \in [SUBSET S -> Int]
    BY <1>1
  <2>3. ASSUME NEW s \in SUBSET S, Cardinality(s) <= Cardinality(T) PROVE F[s] = Step(F, s)
    <3>1. CASE s = {}
      BY <3>1
    <3>2. CASE s # {}
      <4>1. Rest(s) \in SUBSET S /\ Cardinality(Rest(s)) <= Cardinality(Rest(T))
        BY <1>0, <1>1, <1>3, <2>3, <3>2
      <4>2. F[Rest(s)] = G[Rest(s)]
        BY <2>1, <4>1
      <4> QED
        BY <3>2, <4>2
    <3> QED
      BY <3>1, <3>2
  <2> HIDE DEF F, Step
  <2> QED
    BY <2>2, <2>3
<1>4. S \notin C
  <2>1. C \subseteq SUBSET S /\ IsFiniteSet(S)
    BY DEF Summable
  <2> HIDE DEF C
  <2>2. SUFFICES ASSUME C # {} PROVE FALSE
    OBVIOUS
  <2>3. PICK T \in C : \A u \in C : ~(u \subseteq T /\ u # T)
    BY <2>1, <2>2, MinimalSubset
  <2>4. T # {}
    BY <1>2, <2>3
  <2>5. Rest(T) \subseteq T /\ Rest(T) # T
    BY <2>4, FirstIn DEF Rest
  <2> QED
    BY <1>3, <2>1, <2>3, <2>4, <2>5
<1>5. \A s \in SUBSET S : Cardinality(s) <= Cardinality(S)
  BY FS_Subset DEF Summable
<1>6. PICK F \in [SUBSET S -> Int] : UpTo(F, S)
  BY <1>4
<1>7. F = [s \in SUBSET S |-> Step(F, s)]
  BY <1>5, <1>6
<1> QED
  BY <1>7 DEF Sums, Rest

\* Total is a sum: it adds up the legs in any order.
LEMMA TotalSums ==
    ASSUME NEW S, Summable(S)
    PROVE  \E F \in [SUBSET S -> Int] : Sums(F, S) /\ \A s \in SUBSET S : Total(s) = F[s]
<1>1. PICK F \in [SUBSET S -> Int] : Sums(F, S)
  BY SumsExists
<1>2. ASSUME NEW s \in SUBSET S PROVE Total(s) = F[s]
  <2> DEFINE G == CHOOSE G : Sums(G, s)
  <2>1. Summable(s) /\ IsFiniteSet(S)
    BY FS_Subset DEF Summable
  <2>2. Sums(G, s)
    BY <2>1, SumsExists
  <2>3. Total(s) = G[s]
    BY TotalDef
  <2> HIDE DEF G
  <2> QED
    BY <1>1, <2>1, <2>2, <2>3, SumsAgree
<1> QED
  BY <1>1, <1>2

LEMMA TotalEmpty == Total({}) = 0
<1>1. Summable({})
  BY FS_EmptySet DEF Summable
<1>2. PICK F \in [SUBSET {} -> Int] : Sums(F, {}) /\ \A s \in SUBSET {} : Total(s) = F[s]
  BY <1>1, TotalSums
<1> QED
  BY <1>2 DEF Sums

LEMMA TotalRemove ==
    ASSUME NEW S, Summable(S), NEW x \in S
    PROVE  Total(S) \in Int /\ Total(S) = x.amount.n + Total(S \ {x})
<1>1. PICK F \in [SUBSET S -> Int] : Sums(F, S) /\ \A s \in SUBSET S : Total(s) = F[s]
  BY TotalSums
<1> DEFINE C == {s \in SUBSET S : \E y \in s : F[s] # y.amount.n + F[s \ {y}]}
<1>2. C = {}
  <2>1. SUFFICES ASSUME C # {} PROVE FALSE
    OBVIOUS
  <2>2. PICK s \in C : \A u \in C : ~(u \subseteq s /\ u # s)
    <3>1. C \subseteq SUBSET S /\ IsFiniteSet(S)
      BY DEF Summable
    <3> HIDE DEF C
    <3> QED
      BY <2>1, <3>1, MinimalSubset
  <2>3. PICK y \in s : F[s] # y.amount.n + F[s \ {y}]
    BY <2>2
  <2> DEFINE c == First(s)
             b == s \ {c, y}
  <2>4. c \in s /\ c.amount.n \in Int /\ y.amount.n \in Int
    BY <2>2, <2>3, FirstIn DEF Summable
  <2>5. F[s] = c.amount.n + F[s \ {c}]
    BY <1>1, <2>2, <2>3 DEF Sums
  <2> HIDE DEF c
  <2>6. c # y
    BY <2>3, <2>5
  <2>7. F[s \ {c}] = y.amount.n + F[b]
    <3>1. s \ {c} \notin C /\ s \ {c} \in SUBSET S /\ y \in s \ {c} /\ (s \ {c}) \ {y} = b
      BY <2>2, <2>3, <2>4, <2>6
    <3> QED
      BY <3>1
  <2>8. F[s \ {y}] = c.amount.n + F[b]
    <3>1. s \ {y} \notin C /\ s \ {y} \in SUBSET S /\ c \in s \ {y} /\ (s \ {y}) \ {c} = b
      BY <2>2, <2>3, <2>4, <2>6
    <3> QED
      BY <3>1
  <2>9. F[b] \in Int
    BY <2>2
  <2> QED
    BY <2>3, <2>4, <2>5, <2>7, <2>8, <2>9
<1>3. F[S] = x.amount.n + F[S \ {x}]
  BY <1>2
<1> QED
  BY <1>1, <1>3

\* Two legs that cancel out change no sum.
LEMMA TotalPair ==
    ASSUME NEW S, Summable(S), NEW d, NEW c, d # c, d \notin S, c \notin S,
           c.amount.n \in Int, d.amount.n = -c.amount.n
    PROVE  Summable(S \cup {d, c}) /\ Total(S \cup {d, c}) = Total(S)
<1>1. Summable(S \cup {c}) /\ Summable((S \cup {c}) \cup {d})
  <2>1. IsFiniteSet(S \cup {c})
    BY FS_AddElement DEF Summable
  <2>2. IsFiniteSet((S \cup {c}) \cup {d})
    BY <2>1, FS_AddElement
  <2>3. c.amount.n \in Int /\ d.amount.n \in Int /\ \A l \in S : l.amount.n \in Int
    BY DEF Summable
  <2> QED
    BY <2>1, <2>2, <2>3 DEF Summable
<1>2. /\ S \cup {d, c} = (S \cup {c}) \cup {d}
      /\ (S \cup {d, c}) \ {d} = S \cup {c} /\ (S \cup {c}) \ {c} = S
  OBVIOUS
<1>3. Total(S \cup {d, c}) = d.amount.n + Total(S \cup {c})
  <2>1. Summable(S \cup {d, c}) /\ d \in S \cup {d, c}
    BY <1>1, <1>2
  <2>2. Total(S \cup {d, c}) = d.amount.n + Total((S \cup {d, c}) \ {d})
    BY <2>1, TotalRemove
  <2> QED
    BY <1>2, <2>2
<1>4. Total(S \cup {c}) \in Int /\ Total(S \cup {c}) = c.amount.n + Total(S)
  <2>1. Summable(S \cup {c}) /\ c \in S \cup {c}
    BY <1>1
  <2>2. Total(S \cup {c}) \in Int /\ Total(S \cup {c}) = c.amount.n + Total((S \cup {c}) \ {c})
    BY <2>1, TotalRemove
  <2> QED
    BY <1>2, <2>2
<1>5. Total(S) \in Int
  <2>1. PICK F \in [SUBSET S -> Int] : Sums(F, S) /\ \A s \in SUBSET S : Total(s) = F[s]
    BY TotalSums
  <2> QED
    BY <2>1
<1>6. Total(S \cup {d, c}) = Total(S)
  BY <1>3, <1>4, <1>5
<1> QED
  BY <1>1, <1>2, <1>6

-----------------------------------------------------------------------------
(* The ledger is balanced *)

\* Two distinct legs of t that cancel out.
Pair(legs, t) ==
    \E d, c : /\ legs = {d, c} /\ d # c /\ d.tx = t /\ c.tx = t
              /\ c.amount.n \in Int /\ d.amount.n = -c.amount.n

Readable(legs) == \A l \in legs : l.amount.form = "finite" /\ l.amount.n \in Int

\* The legs of an accepted message are readable and cancel out.
LEMMA AcceptedLegs ==
    ASSUME NEW m \in Messages, Accepted(m), NEW t
    PROVE  Pair(Legs(t, Input(m).body), t) /\ Readable(Legs(t, Input(m).body))
<1> DEFINE v == Units(m.amount)
           d == [tx |-> t, account |-> m.from, amount |-> Finite(-v)]
           c == [tx |-> t, account |-> m.to, amount |-> Finite(v)]
<1>1. m.from # m.to
  BY DEF Accepted, Valid, Input
<1>2. v \in Int /\ NewAmount(m.amount) = Finite(v)
  BY AcceptedAmount
<1> HIDE DEF v
<1>3. Legs(t, Input(m).body) = {d, c}
  <2>1. /\ Input(m).body.from = m.from /\ Input(m).body.to = m.to
        /\ Input(m).body.amount = Finite(v)
    BY <1>2 DEF Input
  <2>2. Neg(Finite(v)) = Finite(-v)
    BY DEF Neg, Finite
  <2> QED
    BY <2>1, <2>2 DEF Legs
<1>4. /\ d.tx = t /\ d.account = m.from /\ d.amount.form = "finite" /\ d.amount.n = -v
      /\ c.tx = t /\ c.account = m.to /\ c.amount.form = "finite" /\ c.amount.n = v
  BY DEF Finite
<1> HIDE DEF d, c
<1>5. d # c
  BY <1>1, <1>4
<1>6. /\ Legs(t, Input(m).body) = {d, c} /\ d # c /\ d.tx = t /\ c.tx = t
      /\ c.amount.n \in Int /\ d.amount.n = -c.amount.n
  BY <1>2, <1>3, <1>4, <1>5
<1>7. Readable(Legs(t, Input(m).body))
  BY <1>2, <1>3, <1>4 DEF Readable
<1> QED
  BY <1>6, <1>7 DEF Pair

\* The legs of one transaction are those of its entry, or there are none.
LEMMA LegsOfOne ==
    ASSUME SInv, NEW r \in Requests
    PROVE  LET legs == {l \in journal : l.tx = r} IN
           legs = {} \/ \E m \in Messages : Accepted(m) /\ legs = Legs(r, Input(m).body)
<1> DEFINE legs == {l \in journal : l.tx = r}
<1>1. SUFFICES ASSUME legs # {}
               PROVE  \E m \in Messages : Accepted(m) /\ legs = Legs(r, Input(m).body)
  OBVIOUS
<1>2. \A e \in entries : \A l \in Legs(e.tx, e.input.body) : l.tx = e.tx
  BY DEF Legs
<1>3. PICK e \in entries : e.tx = r
  BY <1>1, <1>2 DEF SInv, BatchWritten
<1>4. \A d \in entries : d.tx = r => d.input = e.input
  BY <1>3 DEF SInv, EntryInv
<1>5. legs = Legs(r, e.input.body)
  <2>1. ASSUME NEW l \in legs PROVE l \in Legs(r, e.input.body)
    <3>1. PICK d \in entries : l \in Legs(d.tx, d.input.body)
      BY DEF SInv, BatchWritten
    <3> QED
      BY <1>2, <1>4, <3>1
  <2>2. Legs(r, e.input.body) \subseteq legs
    BY <1>2, <1>3 DEF SInv, BatchWritten
  <2> QED
    BY <2>1, <2>2
<1>6. e.input = Input(sent[r]) /\ sent[r] \in Messages /\ Accepted(sent[r])
  BY <1>3 DEF SInv, CallInv, EntryInv
<1> QED
  BY <1>5, <1>6

\* Every leg has a readable amount.
LEMMA JournalReadable ==
    ASSUME SInv, NEW l \in journal
    PROVE  l.amount.form = "finite" /\ l.amount.n \in Int
<1>1. PICK e \in entries : l \in Legs(e.tx, e.input.body)
  BY DEF SInv, BatchWritten
<1>2. PICK m \in Messages : Accepted(m) /\ e.input = Input(m)
  BY DEF SInv, CallInv, EntryInv
<1>3. Readable(Legs(e.tx, e.input.body))
  BY <1>2, AcceptedLegs
<1> QED
  BY <1>1, <1>3 DEF Readable

LedgerInv == IsFiniteSet(journal) /\ Total(journal) = 0

LEMMA NextLedgerInv == SInv /\ LedgerInv /\ [Next]_vars => LedgerInv'
<1> SUFFICES ASSUME SInv, LedgerInv, [Next]_vars PROVE LedgerInv'
  OBVIOUS
<1>1. ASSUME NEW r \in Requests, Book(r) \/ BookAndAnswer(r) PROVE LedgerInv'
  <2>1. /\ called[r] # NoInput /\ reply[r] \in {"none", "unknown"}
        /\ \A e \in entries : L!SlotOf(e.input) # L!SlotOf(called[r])
        /\ journal' = journal \cup Legs(r, called[r].body)
    BY <1>1 DEF Book, BookAndAnswer, L!Commit, L!CommitAndAnswer, WriteBatch
  <2>2. PICK m \in Messages : Accepted(m) /\ called[r] = Input(m)
    BY <2>1 DEF SInv, CallInv
  <2>3. \A l \in journal : l.tx # r
    <3>1. \A e \in entries : e.tx # r
      BY <2>1 DEF SInv, EntryInv
    <3> QED
      BY <3>1 DEF SInv, BatchWritten, Legs
  <2>4. PICK d, c : /\ Legs(r, called[r].body) = {d, c} /\ d # c /\ d.tx = r /\ c.tx = r
                    /\ c.amount.n \in Int /\ d.amount.n = -c.amount.n
    <3>1. Pair(Legs(r, called[r].body), r)
      BY <2>2, AcceptedLegs
    <3> QED
      BY <3>1 DEF Pair
  <2>5. Summable(journal)
    BY JournalReadable DEF LedgerInv, Summable
  <2>6. d \notin journal /\ c \notin journal
    BY <2>3, <2>4
  <2>7. Summable(journal \cup {d, c}) /\ Total(journal \cup {d, c}) = Total(journal)
    BY <2>4, <2>5, <2>6, TotalPair
  <2> QED
    BY <2>1, <2>4, <2>7 DEF LedgerInv, Summable
<1>2. CASE journal' = journal
  BY <1>2 DEF LedgerInv
<1> QED
  BY <1>1, <1>2 DEF Next, Submit, Answer, vars

\* The reconciler never pages: whatever amounts are sent and however often, neither the whole
\* ledger nor any transaction of it is ever out of balance, and no leg is unreadable
\* (reconciler.go, money.go, transfer.go).
THEOREM SystemReconcilerNeverPages == Spec => []ReconcilerNeverPages
<1>1. Init => LedgerInv
  BY FS_EmptySet, TotalEmpty DEF Init, LedgerInv
<1>2. SInv /\ LedgerInv => ReconcilerNeverPages
  <2> SUFFICES ASSUME SInv, LedgerInv PROVE ReconcilerNeverPages
    OBVIOUS
  <2>1. \A S \in SUBSET journal : SumOf(S) = Finite(Total(S))
    <3>1. \A l \in journal : l.amount.form # "nan"
      BY JournalReadable
    <3> QED
      BY <3>1 DEF SumOf, Total
  <2>2. LedgerSumZeroCheck
    BY <2>1 DEF LedgerInv, LedgerSumZeroCheck
  <2>3. ASSUME NEW r \in Requests PROVE SumOf({l \in journal : l.tx = r}) = Finite(0)
    <3> DEFINE legs == {l \in journal : l.tx = r}
    <3>1. Total(legs) = 0
      <4>1. CASE legs = {}
        BY <4>1, TotalEmpty
      <4>2. CASE legs # {}
        <5>1. PICK m \in Messages : Accepted(m) /\ legs = Legs(r, Input(m).body)
          BY <4>2, LegsOfOne
        <5>2. PICK d, c : /\ legs = {d, c} /\ d # c /\ d.tx = r /\ c.tx = r
                          /\ c.amount.n \in Int /\ d.amount.n = -c.amount.n
          <6>1. Pair(legs, r)
            BY <5>1, AcceptedLegs
          <6> QED
            BY <6>1 DEF Pair
        <5>3. Summable({}) /\ {} \cup {d, c} = {d, c}
          BY FS_EmptySet DEF Summable
        <5>4. Total({} \cup {d, c}) = Total({})
          BY <5>2, <5>3, TotalPair
        <5> QED
          BY <5>2, <5>3, <5>4, TotalEmpty
      <4> QED
        BY <4>1, <4>2
    <3>2. legs \in SUBSET journal
      OBVIOUS
    <3> HIDE DEF legs
    <3>3. SumOf(legs) = Finite(0)
      BY <2>1, <3>1, <3>2
    <3> QED
      BY <3>3 DEF legs
  <2>4. UnbalancedTransactionIDs = {}
    BY <2>3 DEF UnbalancedTransactionIDs
  <2> QED
    BY <2>2, <2>4 DEF ReconcilerNeverPages
<1> QED
  BY <1>1, <1>2, NextLedgerInv, Inductive, PTL DEF Spec

-----------------------------------------------------------------------------
\* The composition implements its components: what is proved of IdempotentLedger, Outbox and
\* AuditChain holds of the ledger, the relay and the audit log of the whole system.
THEOREM SystemImplementsComponents == Spec => L!Spec /\ R!Spec /\ A!Spec
<1>1. Init => L!Init /\ R!Init /\ A!Init
  BY DEF Init
<1>2. SInv /\ [Next]_vars => [L!Next]_(L!vars)
  <2> SUFFICES ASSUME SInv, [Next]_vars PROVE L!Next \/ UNCHANGED L!vars
    OBVIOUS
  <2>1. ASSUME NEW r \in Requests, NEW m \in Sends[r], Submit(r, m) PROVE L!Next
    <3>1. Input(m) \in {Input(n) : n \in Messages}
      BY DEF Messages
    <3> QED
      BY <2>1, <3>1 DEF Submit, L!Next
  <2>2. ASSUME NEW r \in Requests, Book(r) \/ BookAndAnswer(r) \/ Answer(r) PROVE L!Next
    BY <2>2 DEF Book, BookAndAnswer, Answer, L!Next
  <2>3. CASE UNCHANGED ledgerVars
    BY <2>3 DEF ledgerVars, L!vars
  <2> QED
    BY <2>1, <2>2, <2>3 DEF Next, vars
<1>3. [Next]_vars => [R!Next]_(R!vars)
  <2> SUFFICES ASSUME [Next]_vars PROVE R!Next \/ UNCHANGED R!vars
    OBVIOUS
  <2>1. ASSUME NEW r \in Requests, Book(r) \/ BookAndAnswer(r) PROVE R!Next
    BY <2>1 DEF Book, BookAndAnswer, WriteBatch, R!Next
  <2>2. CASE R!Relay
    BY <2>2 DEF R!Next
  <2>3. CASE UNCHANGED relayVars
    BY <2>3 DEF relayVars, R!vars
  <2> QED
    BY <2>1, <2>2, <2>3 DEF Next, Submit, Answer, vars
<1>4. SInv /\ [Next]_vars => [A!Next]_(A!vars)
  <2> SUFFICES ASSUME SInv, [Next]_vars PROVE A!Next \/ UNCHANGED A!vars
    OBVIOUS
  <2>1. ASSUME NEW r \in Requests, Book(r) \/ BookAndAnswer(r) PROVE A!Next
    <3>1. PICK t \in Times : A!EnqueueAudit([id |-> r, tenant |-> called[r].tenant, occ |-> t])
      BY <2>1 DEF Book, BookAndAnswer, WriteBatch
    <3>2. called[r] # NoInput
      BY <2>1 DEF Book, BookAndAnswer, L!Commit, L!CommitAndAnswer
    <3>3. PICK m \in Messages : called[r] = Input(m)
      BY <3>2 DEF SInv, CallInv
    <3>4. called[r].tenant \in Tenants
      BY <3>3, SystemAssumption DEF Input, Message
    <3> QED
      BY <3>1, <3>4 DEF A!Next, A!Rows
  <2>2. CASE A!Audit
    BY <2>2 DEF A!Next
  <2>3. CASE UNCHANGED auditVars
    BY <2>3 DEF auditVars, A!vars
  <2> QED
    BY <2>1, <2>2, <2>3 DEF Next, Submit, Answer, vars
<1> QED
  BY <1>1, <1>2, <1>3, <1>4, Inductive, PTL DEF Spec, L!Spec, R!Spec, A!Spec

-----------------------------------------------------------------------------
(* What the components promise, in the composition *)

\* In the whole system an outbox row is marked published only once its event is in the topic.
THEOREM SystemEventsDelivered == Spec => []R!PublishedIsDelivered
<1>1. Init => RP!Init
  BY DEF Init, R!Init, RP!Init
<1>2. RP!PublishedIsDelivered => R!PublishedIsDelivered
  BY DEF R!PublishedIsDelivered, RP!PublishedIsDelivered
<1>3. RP!Spec => []RP!PublishedIsDelivered
  BY RP!NoEventLost, ComponentAssumptions
<1>4. Spec => RP!Spec
  BY <1>1, NextRelay, PTL DEF Spec, RP!Spec
<1> QED
  BY <1>2, <1>3, <1>4, PTL

\* The audit log of the composition is one of AuditChain.
LEMMA SystemAudits == Spec => AP!Spec /\ []AP!IInv
<1>1. Init => AP!Init /\ AP!IInv
  BY DEF Init, A!Init, AP!Init, AP!IInv, AP!DrainInv, AP!LockInv, AP!SourceInv, AP!RowsConserved, AP!OncePerRow
<1>2. AP!IInv /\ [AP!Next]_(AP!vars) => AP!IInv'
  BY AP!NextIInv, ComponentAssumptions
<1> QED
  BY <1>1, <1>2, NextAudit, Inductive, PTL DEF Spec, AP!Spec

\* In the whole system no audit row is lost or audited twice, every link leads to a row of
\* the same tenant or to the start of its chain, and a chain forks only for a cause of its
\* own tenant's.
THEOREM SystemAuditIsSound == Spec => [](A!RowsConserved /\ A!LinksAreSound /\ A!ForksHaveACause)
<1>1. AP!Spec => [](AP!RowsConserved /\ AP!LinksAreSound /\ AP!ForksHaveACause)
  <2>1. AP!Spec => []AP!RowsConserved
    BY AP!NoAuditRowLost, ComponentAssumptions
  <2>2. AP!Spec => []AP!LinksAreSound
    BY AP!AuditLinksAreSound, ComponentAssumptions
  <2>3. AP!Spec => []AP!ForksHaveACause
    BY AP!AuditForksHaveACause, ComponentAssumptions
  <2> QED
    BY <2>1, <2>2, <2>3, PTL
<1>2. AP!RowsConserved /\ AP!LinksAreSound /\ AP!ForksHaveACause =>
      A!RowsConserved /\ A!LinksAreSound /\ A!ForksHaveACause
  BY DEF A!RowsConserved, A!LinksAreSound, A!ForksHaveACause,
      AP!RowsConserved, AP!LinksAreSound, AP!ForksHaveACause
<1> QED
  BY <1>1, <1>2, SystemAudits, PTL

\* A transaction of the ledger and its traces are inseparable: its event is waiting in the
\* outbox or has reached the topic, its audit row is waiting or audited under the tenant of
\* the call, and nothing is in the topic or in the audit log that is not in the ledger.
TransferIsTraced ==
    /\ \A e \in entries :
          /\ status[e.tx] = "PENDING" \/ (status[e.tx] = "PUBLISHED" /\ topic[e.tx] >= 1)
          /\ \E q \in enqueued :
                /\ q.id = e.tx /\ q.tenant = e.input.tenant
                /\ q \in pending <=> \A d \in log : d.row # q
    /\ \A r \in Requests : topic[r] >= 1 => \E e \in entries : e.tx = r
    /\ \A d \in log : \E e \in entries : e.tx = d.row.id /\ e.input.tenant = d.row.tenant

\* However the callers were answered and whatever faults the relay and the audit worker meet,
\* the ledger, the topic and the audit log never disagree about which transfers exist: the
\* single transaction of ExecuteTransfer and the two drains carry every one of them.
THEOREM SystemTransferIsTraced == Spec => []TransferIsTraced
<1>1. SInv /\ RelayInv /\ AP!IInv /\ R!PublishedIsDelivered => TransferIsTraced
  <2> SUFFICES ASSUME SInv, RelayInv, AP!IInv, R!PublishedIsDelivered PROVE TransferIsTraced
    OBVIOUS
  <2>0. BatchWritten /\ EntryInv
    BY DEF SInv
  <2>1. ASSUME NEW e \in entries
        PROVE  status[e.tx] = "PENDING" \/ (status[e.tx] = "PUBLISHED" /\ topic[e.tx] >= 1)
    <3>1. e.tx \in Requests /\ status[e.tx] # "absent"
      BY <2>0 DEF BatchWritten, EntryInv
    <3> QED
      BY <3>1 DEF RelayInv, RP!TypeOK, R!PublishedIsDelivered
  <2>2. ASSUME NEW e \in entries
        PROVE  \E q \in enqueued :
                  /\ q.id = e.tx /\ q.tenant = e.input.tenant
                  /\ q \in pending <=> \A d \in log : d.row # q
    <3>1. PICK q \in enqueued : q.id = e.tx
      BY <2>0 DEF BatchWritten
    <3>2. PICK f \in entries : f.tx = q.id /\ f.input.tenant = q.tenant
      BY <2>0 DEF BatchWritten
    <3>3. f = e
      BY <2>0, <3>1, <3>2 DEF EntryInv
    <3> QED
      BY <3>1, <3>2, <3>3 DEF AP!IInv, AP!RowsConserved
  <2>3. ASSUME NEW r \in Requests, topic[r] >= 1 PROVE \E e \in entries : e.tx = r
    BY <2>0, <2>3 DEF BatchWritten, RelayInv, RP!KnownInv
  <2>4. ASSUME NEW d \in log PROVE \E e \in entries : e.tx = d.row.id /\ e.input.tenant = d.row.tenant
    BY <2>0 DEF BatchWritten, AP!IInv, AP!SourceInv
  <2> QED
    BY <2>1, <2>2, <2>3, <2>4 DEF TransferIsTraced
<1> QED
  BY <1>1, Inductive, SystemAudits, SystemEventsDelivered, PTL

=============================================================================
