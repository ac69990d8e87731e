---------------------------- MODULE OutboxProofs ----------------------------
(***************************************************************************)
(* Outbox loses no event and duplicates none without a fault, for any      *)
(* number of events, drainers, faults and any batch size.                  *)
(***************************************************************************)
EXTENDS Outbox, FiniteSetTheorems, TLAPS

-----------------------------------------------------------------------------
(* The inductive invariant *)

\* Successes, collected or waiting in an abandoned COMMIT, are in the topic.
DeliveredInv ==
    /\ PublishedIsDelivered
    /\ \A d \in Drainers : \A e \in acked[d] : topic[e] >= 1
    /\ \A t \in lost : \A e \in t.marks : topic[e] >= 1

\* What a drainer remembers: it has a batch only during a drain, and locks the whole of
\* it or, with the connection lost, nothing.
BatchInv ==
    \A d \in Drainers :
        /\ held[d] = {} \/ held[d] = batch[d]
        /\ flight[d] \subseteq batch[d]
        /\ acked[d] \subseteq batch[d]
        /\ flight[d] \cap acked[d] = {}
        /\ pc[d] \in {"idle", "stopped"} => batch[d] = {}
        /\ pc[d] = "claimed" => flight[d] = {} /\ acked[d] = {}
        /\ pc[d] = "mark" => flight[d] = {}

\* Row locks are exclusive, and a locked row is PENDING.
LockInv ==
    /\ \A c, d \in Drainers : c # d => held[c] \cap held[d] = {}
    /\ \A d \in Drainers, t \in lost : held[d] \cap t.rows = {}
    /\ \A s, t \in lost : s # t => s.rows \cap t.rows = {}
    /\ \A t \in lost : t.marks \subseteq t.rows
    /\ \A d \in Drainers : \A e \in held[d] : status[e] = "PENDING"
    /\ \A t \in lost : \A e \in t.rows : status[e] = "PENDING"

\* Drainers that have lost their lock on e and will produce it all the same.
Debtors(e) == {d \in Drainers : pc[d] = "claimed" /\ e \in batch[d] /\ e \notin held[d]}

\* The copy of e that no fault accounts for: it is marked, or on its way to be.
Earned(e) ==
    \/ status[e] = "PUBLISHED"
    \/ \E d \in Drainers : e \in held[d] /\ e \in flight[d] \cup acked[d]

\* Every other copy, and every copy a debtor will add, has been paid for by a fault.
Budget(e) ==
    /\ IsFiniteSet(Debtors(e))
    /\ produced[e] + Cardinality(Debtors(e)) <= faults + 1
    /\ ~Earned(e) => produced[e] + Cardinality(Debtors(e)) <= faults

BudgetInv == \A e \in Events : Budget(e)

IInv == TypeOK /\ DeliveredInv /\ BatchInv /\ LockInv /\ BudgetInv

-----------------------------------------------------------------------------
(* One lemma per conjunct, with one step per action *)

\* A row that may be claimed is PENDING and nobody has it locked.
LEMMA EligibleRows ==
    ASSUME NEW d \in Drainers, NEW e \in Oldest(Eligible(d), BatchSize)
    PROVE  /\ e \in Events
           /\ status[e] = "PENDING"
           /\ \A c \in Drainers : e \notin held[c]
           /\ \A t \in lost : e \notin t.rows
BY DEF Oldest, Eligible, Locked

\* Types are kept.
LEMMA NextType ==
    ASSUME TypeOK, [Next]_vars
    PROVE  TypeOK'
<1>1. ASSUME NEW e \in Events, Append(e)
      PROVE  TypeOK'
  BY <1>1 DEF Append, TypeOK, Transactions
<1>2. ASSUME NEW e \in Events, Age(e)
      PROVE  TypeOK'
  BY <1>2 DEF Age, TypeOK, Transactions
<1>3. ASSUME NEW e \in Events, DeliverOrphan(e)
      PROVE  TypeOK'
  BY <1>3 DEF DeliverOrphan, TypeOK, Transactions
<1>4. ASSUME NEW d \in Drainers, NEW e \in Events, Deliver(d, e)
      PROVE  TypeOK'
  BY <1>4 DEF Deliver, TypeOK, Transactions
<1>5. ASSUME NEW d \in Drainers, NEW e \in Events, DeliverFault(d, e)
      PROVE  TypeOK'
  BY <1>5, OutboxAssumption DEF DeliverFault, AFault, TypeOK, Transactions
<1>6. ASSUME NEW d \in Drainers, Claim(d)
      PROVE  TypeOK'
  BY <1>6, EligibleRows DEF Claim, TypeOK, Transactions
<1>7. ASSUME NEW d \in Drainers, Enqueue(d)
      PROVE  TypeOK'
  BY <1>7 DEF Enqueue, Plus, TypeOK, Transactions
<1>8. ASSUME NEW d \in Drainers, Collect(d)
      PROVE  TypeOK'
  BY <1>8, SMTT(30) DEF Collect, EndDrain, Forget, Plus, TypeOK, Transactions
<1>9. ASSUME NEW d \in Drainers, Publish(d)
      PROVE  TypeOK'
  BY <1>9 DEF Publish, EndDrain, Forget, Plus, Published, Marks, TypeOK, Transactions
<1>10. ASSUME NEW d \in Drainers, EnqueueFault(d)
      PROVE  TypeOK'
  BY <1>10, OutboxAssumption DEF EnqueueFault, AFault, Plus, Oldest, TypeOK, Transactions
<1>11. ASSUME NEW d \in Drainers, ProduceTimeout(d)
      PROVE  TypeOK'
  BY <1>11, OutboxAssumption DEF ProduceTimeout, AFault, EndDrain, Forget, Plus,
     TypeOK, Transactions
<1>12. ASSUME NEW d \in Drainers, PublishFault(d)
      PROVE  TypeOK'
  BY <1>12, OutboxAssumption DEF PublishFault, AFault, EndDrain, Forget, Plus, TypeOK,
     Transactions
<1>13. ASSUME NEW d \in Drainers, PublishInDoubt(d)
      PROVE  TypeOK'
  BY <1>13, OutboxAssumption DEF PublishInDoubt, AFault, EndDrain, Forget, Plus,
     Abandoned, Marks, TypeOK, Transactions
<1>14. ASSUME NEW d \in Drainers, ConnectionLost(d)
      PROVE  TypeOK'
  BY <1>14, OutboxAssumption DEF ConnectionLost, AFault, Abandoned, TypeOK, Transactions
<1>15. ASSUME NEW d \in Drainers, Stop(d)
      PROVE  TypeOK'
  BY <1>15, OutboxAssumption DEF Stop, AFault, Forget, Plus, Abandoned, Marks, TypeOK,
     Transactions
<1>16. ASSUME NEW t \in lost, Settle(t)
      PROVE  TypeOK'
  BY <1>16 DEF Settle, Published, TypeOK, Transactions
<1>17. CASE UNCHANGED vars
  BY <1>17 DEF vars, TypeOK, Transactions
<1> QED
  BY <1>1, <1>2, <1>3, <1>4, <1>5, <1>6, <1>7, <1>8, <1>9, <1>10, <1>11,
     <1>12, <1>13, <1>14, <1>15, <1>16, <1>17 DEF Next, Relay, Drain, DrainFault

\* Successes stay delivered: the topic only grows, and only a report adds a success.
LEMMA NextDelivered ==
    ASSUME TypeOK, DeliveredInv, [Next]_vars
    PROVE  DeliveredInv'
<1>1. ASSUME NEW e \in Events, Append(e)
      PROVE  DeliveredInv'
  BY <1>1 DEF Append, TypeOK, Transactions, DeliveredInv, PublishedIsDelivered
<1>2. ASSUME NEW e \in Events, Age(e)
      PROVE  DeliveredInv'
  BY <1>2 DEF Age, TypeOK, Transactions, DeliveredInv, PublishedIsDelivered
<1>3. ASSUME NEW e \in Events, DeliverOrphan(e)
      PROVE  DeliveredInv'
  BY <1>3 DEF DeliverOrphan, TypeOK, Transactions, DeliveredInv, PublishedIsDelivered
<1>4. ASSUME NEW d \in Drainers, NEW e \in Events, Deliver(d, e)
      PROVE  DeliveredInv'
  BY <1>4 DEF Deliver, TypeOK, Transactions, DeliveredInv, PublishedIsDelivered
<1>5. ASSUME NEW d \in Drainers, NEW e \in Events, DeliverFault(d, e)
      PROVE  DeliveredInv'
  BY <1>5 DEF DeliverFault, AFault, TypeOK, Transactions, DeliveredInv,
     PublishedIsDelivered
<1>6. ASSUME NEW d \in Drainers, Claim(d)
      PROVE  DeliveredInv'
  BY <1>6 DEF Claim, TypeOK, Transactions, DeliveredInv, PublishedIsDelivered
<1>7. ASSUME NEW d \in Drainers, Enqueue(d)
      PROVE  DeliveredInv'
  BY <1>7 DEF Enqueue, Plus, TypeOK, Transactions, DeliveredInv, PublishedIsDelivered
<1>8. ASSUME NEW d \in Drainers, Collect(d)
      PROVE  DeliveredInv'
  BY <1>8 DEF Collect, EndDrain, Forget, Plus, TypeOK, Transactions, DeliveredInv,
     PublishedIsDelivered
<1>9. ASSUME NEW d \in Drainers, Publish(d)
      PROVE  DeliveredInv'
  BY <1>9 DEF Publish, EndDrain, Forget, Plus, Published, Marks, TypeOK, Transactions,
     DeliveredInv, PublishedIsDelivered
<1>10. ASSUME NEW d \in Drainers, EnqueueFault(d)
      PROVE  DeliveredInv'
  BY <1>10 DEF EnqueueFault, AFault, Plus, Oldest, TypeOK, Transactions, DeliveredInv,
     PublishedIsDelivered
<1>11. ASSUME NEW d \in Drainers, ProduceTimeout(d)
      PROVE  DeliveredInv'
  BY <1>11 DEF ProduceTimeout, AFault, EndDrain, Forget, Plus, TypeOK, Transactions,
     DeliveredInv, PublishedIsDelivered
<1>12. ASSUME NEW d \in Drainers, PublishFault(d)
      PROVE  DeliveredInv'
  BY <1>12 DEF PublishFault, AFault, EndDrain, Forget, Plus, TypeOK, Transactions,
     DeliveredInv, PublishedIsDelivered
<1>13. ASSUME NEW d \in Drainers, PublishInDoubt(d)
      PROVE  DeliveredInv'
  BY <1>13 DEF PublishInDoubt, AFault, EndDrain, Forget, Plus, Abandoned, Marks,
     TypeOK, Transactions, DeliveredInv, PublishedIsDelivered
<1>14. ASSUME NEW d \in Drainers, ConnectionLost(d)
      PROVE  DeliveredInv'
  BY <1>14 DEF ConnectionLost, AFault, Abandoned, TypeOK, Transactions, DeliveredInv,
     PublishedIsDelivered
<1>15. ASSUME NEW d \in Drainers, Stop(d)
      PROVE  DeliveredInv'
  BY <1>15 DEF Stop, AFault, Forget, Plus, Abandoned, Marks, TypeOK, Transactions,
     DeliveredInv, PublishedIsDelivered
<1>16. ASSUME NEW t \in lost, Settle(t)
      PROVE  DeliveredInv'
  BY <1>16 DEF Settle, Published, TypeOK, Transactions, DeliveredInv, PublishedIsDelivered
<1>17. CASE UNCHANGED vars
  BY <1>17 DEF vars, TypeOK, Transactions, DeliveredInv, PublishedIsDelivered
<1> QED
  BY <1>1, <1>2, <1>3, <1>4, <1>5, <1>6, <1>7, <1>8, <1>9, <1>10, <1>11,
     <1>12, <1>13, <1>14, <1>15, <1>16, <1>17 DEF Next, Relay, Drain, DrainFault

\* A drainer keeps its batch, its locks and its reports together.
LEMMA NextBatch ==
    ASSUME TypeOK, BatchInv, [Next]_vars
    PROVE  BatchInv'
<1>1. ASSUME NEW e \in Events, Append(e)
      PROVE  BatchInv'
  BY <1>1 DEF Append, TypeOK, BatchInv
<1>2. ASSUME NEW e \in Events, Age(e)
      PROVE  BatchInv'
  BY <1>2 DEF Age, TypeOK, BatchInv
<1>3. ASSUME NEW e \in Events, DeliverOrphan(e)
      PROVE  BatchInv'
  BY <1>3 DEF DeliverOrphan, TypeOK, BatchInv
<1>4. ASSUME NEW d \in Drainers, NEW e \in Events, Deliver(d, e)
      PROVE  BatchInv'
  BY <1>4 DEF Deliver, TypeOK, BatchInv
<1>5. ASSUME NEW d \in Drainers, NEW e \in Events, DeliverFault(d, e)
      PROVE  BatchInv'
  BY <1>5 DEF DeliverFault, AFault, TypeOK, BatchInv
<1>6. ASSUME NEW d \in Drainers, Claim(d)
      PROVE  BatchInv'
  BY <1>6 DEF Claim, TypeOK, BatchInv
<1>7. ASSUME NEW d \in Drainers, Enqueue(d)
      PROVE  BatchInv'
  BY <1>7 DEF Enqueue, Plus, TypeOK, BatchInv
<1>8. ASSUME NEW d \in Drainers, Collect(d)
      PROVE  BatchInv'
  BY <1>8 DEF Collect, EndDrain, Forget, Plus, TypeOK, BatchInv
<1>9. ASSUME NEW d \in Drainers, Publish(d)
      PROVE  BatchInv'
  BY <1>9 DEF Publish, EndDrain, Forget, Plus, Published, Marks, TypeOK, BatchInv
<1>10. ASSUME NEW d \in Drainers, EnqueueFault(d)
      PROVE  BatchInv'
  BY <1>10 DEF EnqueueFault, AFault, Plus, Oldest, TypeOK, BatchInv
<1>11. ASSUME NEW d \in Drainers, ProduceTimeout(d)
      PROVE  BatchInv'
  BY <1>11 DEF ProduceTimeout, AFault, EndDrain, Forget, Plus, TypeOK, BatchInv
<1>12. ASSUME NEW d \in Drainers, PublishFault(d)
      PROVE  BatchInv'
  BY <1>12 DEF PublishFault, AFault, EndDrain, Forget, Plus, TypeOK, BatchInv
<1>13. ASSUME NEW d \in Drainers, PublishInDoubt(d)
      PROVE  BatchInv'
  BY <1>13 DEF PublishInDoubt, AFault, EndDrain, Forget, Plus, Abandoned, Marks,
     TypeOK, BatchInv
<1>14. ASSUME NEW d \in Drainers, ConnectionLost(d)
      PROVE  BatchInv'
  BY <1>14 DEF ConnectionLost, AFault, Abandoned, TypeOK, BatchInv
<1>15. ASSUME NEW d \in Drainers, Stop(d)
      PROVE  BatchInv'
  BY <1>15 DEF Stop, AFault, Forget, Plus, Abandoned, Marks, TypeOK, BatchInv
<1>16. ASSUME NEW t \in lost, Settle(t)
      PROVE  BatchInv'
  BY <1>16 DEF Settle, Published, TypeOK, BatchInv
<1>17. CASE UNCHANGED vars
  BY <1>17 DEF vars, TypeOK, BatchInv
<1> QED
  BY <1>1, <1>2, <1>3, <1>4, <1>5, <1>6, <1>7, <1>8, <1>9, <1>10, <1>11,
     <1>12, <1>13, <1>14, <1>15, <1>16, <1>17 DEF Next, Relay, Drain, DrainFault

\* Locks stay exclusive, and only the holder's transaction changes a locked row.
LEMMA NextLock ==
    ASSUME TypeOK, BatchInv, LockInv, [Next]_vars
    PROVE  LockInv'
<1>1. ASSUME NEW e \in Events, Append(e)
      PROVE  LockInv'
  BY <1>1 DEF Append, TypeOK, Transactions, BatchInv, LockInv
<1>2. ASSUME NEW e \in Events, Age(e)
      PROVE  LockInv'
  BY <1>2 DEF Age, TypeOK, Transactions, BatchInv, LockInv
<1>3. ASSUME NEW e \in Events, DeliverOrphan(e)
      PROVE  LockInv'
  BY <1>3 DEF DeliverOrphan, TypeOK, Transactions, BatchInv, LockInv
<1>4. ASSUME NEW d \in Drainers, NEW e \in Events, Deliver(d, e)
      PROVE  LockInv'
  BY <1>4 DEF Deliver, TypeOK, Transactions, BatchInv, LockInv
<1>5. ASSUME NEW d \in Drainers, NEW e \in Events, DeliverFault(d, e)
      PROVE  LockInv'
  BY <1>5 DEF DeliverFault, AFault, TypeOK, Transactions, BatchInv, LockInv
<1>6. ASSUME NEW d \in Drainers, Claim(d)
      PROVE  LockInv'
  BY <1>6, EligibleRows DEF Claim, TypeOK, Transactions, BatchInv, LockInv
<1>7. ASSUME NEW d \in Drainers, Enqueue(d)
      PROVE  LockInv'
  BY <1>7 DEF Enqueue, Plus, TypeOK, Transactions, BatchInv, LockInv
<1>8. ASSUME NEW d \in Drainers, Collect(d)
      PROVE  LockInv'
  BY <1>8, SMTT(30) DEF Collect, EndDrain, Forget, Plus, TypeOK, Transactions, BatchInv, LockInv
<1>9. ASSUME NEW d \in Drainers, Publish(d)
      PROVE  LockInv'
  BY <1>9, SMTT(30) DEF Publish, EndDrain, Forget, Plus, Published, Marks, TypeOK, Transactions,
     BatchInv, LockInv
<1>10. ASSUME NEW d \in Drainers, EnqueueFault(d)
      PROVE  LockInv'
  BY <1>10 DEF EnqueueFault, AFault, Plus, Oldest, TypeOK, Transactions, BatchInv, LockInv
<1>11. ASSUME NEW d \in Drainers, ProduceTimeout(d)
      PROVE  LockInv'
  BY <1>11 DEF ProduceTimeout, AFault, EndDrain, Forget, Plus, TypeOK, Transactions,
     BatchInv, LockInv
<1>12. ASSUME NEW d \in Drainers, PublishFault(d)
      PROVE  LockInv'
  BY <1>12 DEF PublishFault, AFault, EndDrain, Forget, Plus, TypeOK, Transactions,
     BatchInv, LockInv
<1>13. ASSUME NEW d \in Drainers, PublishInDoubt(d)
      PROVE  LockInv'
  BY <1>13 DEF PublishInDoubt, AFault, EndDrain, Forget, Plus, Abandoned, Marks,
     TypeOK, Transactions, BatchInv, LockInv
<1>14. ASSUME NEW d \in Drainers, ConnectionLost(d)
      PROVE  LockInv'
  <2>1. held' = [held EXCEPT ![d] = {}] /\ status' = status
    BY <1>14 DEF ConnectionLost
  <2>2. lost' = lost \cup {[rows |-> held[d], marks |-> {}]}
    BY <1>14 DEF ConnectionLost, Abandoned
  <2>3. \A t \in lost' : t \in lost \/ (t.rows = held[d] /\ t.marks = {})
    BY <2>2
  <2>4. \A c \in Drainers : held'[c] = IF c = d THEN {} ELSE held[c]
    BY <2>1 DEF TypeOK
  <2>5. \A s, t \in lost' : s # t => s.rows \cap t.rows = {}
    BY <2>2 DEF LockInv
  <2> QED
    BY <2>1, <2>3, <2>4, <2>5 DEF TypeOK, LockInv
<1>15. ASSUME NEW d \in Drainers, Stop(d)
      PROVE  LockInv'
  BY <1>15, SMTT(30) DEF Stop, AFault, Forget, Plus, Abandoned, Marks, TypeOK, Transactions,
     BatchInv, LockInv
<1>16. ASSUME NEW t \in lost, Settle(t)
      PROVE  LockInv'
  BY <1>16 DEF Settle, Published, TypeOK, Transactions, BatchInv, LockInv
<1>17. CASE UNCHANGED vars
  BY <1>17 DEF vars, TypeOK, Transactions, BatchInv, LockInv
<1> QED
  BY <1>1, <1>2, <1>3, <1>4, <1>5, <1>6, <1>7, <1>8, <1>9, <1>10, <1>11,
     <1>12, <1>13, <1>14, <1>15, <1>16, <1>17 DEF Next, Relay, Drain, DrainFault

-----------------------------------------------------------------------------
(* Copies and faults *)

\* Removing a debtor, and adding one.
LEMMA RemoveOne ==
    ASSUME NEW D, IsFiniteSet(D), NEW d
    PROVE  /\ IsFiniteSet(D \ {d})
           /\ Cardinality(D) \in Nat /\ Cardinality(D \ {d}) \in Nat
           /\ Cardinality(D \ {d}) <= Cardinality(D)
           /\ d \in D => Cardinality(D \ {d}) = Cardinality(D) - 1
<1>1. /\ IsFiniteSet(D \ {d})
      /\ Cardinality(D \ {d}) = IF d \in D THEN Cardinality(D) - 1 ELSE Cardinality(D)
  BY FS_RemoveElement
<1>2. Cardinality(D) \in Nat
  BY FS_CardinalityType
<1>3. Cardinality(D \ {d}) \in Nat
  BY <1>1, FS_CardinalityType
<1> QED
  BY <1>1, <1>2, <1>3

LEMMA AddOne ==
    ASSUME NEW D, IsFiniteSet(D), NEW d
    PROVE  /\ IsFiniteSet(D \cup {d})
           /\ Cardinality(D) \in Nat /\ Cardinality(D \cup {d}) \in Nat
           /\ Cardinality(D \cup {d}) <= Cardinality(D) + 1
<1>1. /\ IsFiniteSet(D \cup {d})
      /\ Cardinality(D \cup {d}) = IF d \in D THEN Cardinality(D) ELSE Cardinality(D) + 1
  BY FS_AddElement
<1>2. Cardinality(D) \in Nat
  BY FS_CardinalityType
<1>3. Cardinality(D \cup {d}) \in Nat
  BY <1>1, FS_CardinalityType
<1> QED
  BY <1>1, <1>2, <1>3

\* A step that produces nothing and lets no earned copy go keeps e's budget.
LEMMA KeepBudget ==
    ASSUME TypeOK, TypeOK', NEW e \in Events, Budget(e),
           Debtors(e)' = Debtors(e), produced'[e] = produced[e], faults' = faults,
           Earned(e) => Earned(e)'
    PROVE  Budget(e)'
BY DEF Budget

\* A fault that produces nothing pays for an earned copy that is let go.
LEMMA PayBudget ==
    ASSUME TypeOK, TypeOK', NEW e \in Events, Budget(e), NEW d,
           Debtors(e)' = Debtors(e) \/ Debtors(e)' = Debtors(e) \ {d},
           produced'[e] = produced[e], faults' = faults + 1
    PROVE  Budget(e)'
<1>1. IsFiniteSet(Debtors(e))
  BY DEF Budget
<1>2. /\ IsFiniteSet(Debtors(e)') /\ Cardinality(Debtors(e)) \in Nat
      /\ Cardinality(Debtors(e)') \in Nat
      /\ Cardinality(Debtors(e)') <= Cardinality(Debtors(e))
  <2>1. CASE Debtors(e)' = Debtors(e)
    <3>1. Cardinality(Debtors(e)) \in Nat
      BY <1>1, FS_CardinalityType
    <3> QED
      BY <1>1, <2>1, <3>1
  <2>2. CASE Debtors(e)' = Debtors(e) \ {d}
    BY <1>1, <2>2, RemoveOne
  <2> QED
    BY <2>1, <2>2
<1> QED
  BY <1>2 DEF Budget, TypeOK

\* A row that is claimed and not yet produced has no earned copy.
LEMMA NotYetEarned ==
    ASSUME BatchInv, LockInv, NEW d \in Drainers, pc[d] = "claimed", NEW e \in held[d]
    PROVE  ~Earned(e)
BY DEF BatchInv, LockInv, Earned

\* Handing a batch to the producer uses up e's one free copy, or a debt.
LEMMA EnqueueBudget ==
    ASSUME TypeOK, TypeOK', BatchInv, LockInv, NEW e \in Events, Budget(e),
           NEW d \in Drainers, Enqueue(d)
    PROVE  Budget(e)'
<1>1. Debtors(e)' = Debtors(e) \ {d}
  BY DEF Enqueue, Debtors, TypeOK
<1>2. Earned(e) => Earned(e)'
  BY DEF Enqueue, Earned, TypeOK, BatchInv
<1>3. pc[d] = "claimed" /\ faults' = faults
  BY DEF Enqueue
<1>n. /\ IsFiniteSet(Debtors(e)') /\ Cardinality(Debtors(e)) \in Nat
      /\ Cardinality(Debtors(e)') \in Nat
      /\ Cardinality(Debtors(e)') <= Cardinality(Debtors(e))
      /\ d \in Debtors(e) => Cardinality(Debtors(e)') = Cardinality(Debtors(e)) - 1
  BY <1>1, RemoveOne DEF Budget
<1>4. CASE e \in held[d]
  <2>1. ~Earned(e)
    BY <1>3, <1>4, NotYetEarned
  <2>2. e \in batch[d] /\ held' = held /\ flight'[d] = batch[d]
    BY <1>4 DEF Enqueue, BatchInv, TypeOK
  <2>3. Earned(e)'
    BY <1>4, <2>2 DEF Earned
  <2>4. produced'[e] = produced[e] + 1
    BY <2>2 DEF Enqueue, Plus
  <2> QED
    BY <1>n, <1>3, <2>1, <2>3, <2>4 DEF Budget, TypeOK
<1>5. CASE e \in batch[d] /\ e \notin held[d]
  <2>1. d \in Debtors(e)
    BY <1>3, <1>5 DEF Debtors
  <2>2. produced'[e] = produced[e] + 1
    BY <1>5 DEF Enqueue, Plus
  <2> QED
    BY <1>n, <1>2, <1>3, <2>1, <2>2 DEF Budget, TypeOK
<1>6. CASE e \notin batch[d]
  <2>1. produced'[e] = produced[e]
    BY <1>6 DEF Enqueue, Plus
  <2>2. Debtors(e)' = Debtors(e)
    BY <1>1, <1>6 DEF Debtors
  <2> QED
    BY <1>2, <1>3, <2>1, <2>2, KeepBudget
<1> QED
  BY <1>4, <1>5, <1>6 DEF BatchInv

\* A full queue: the messages before it are extra copies, and the fault pays for them.
LEMMA EnqueueFaultBudget ==
    ASSUME TypeOK, TypeOK', BatchInv, LockInv, NEW e \in Events, Budget(e),
           NEW d \in Drainers, EnqueueFault(d)
    PROVE  Budget(e)'
<1>1. Debtors(e)' = Debtors(e) \ {d}
  BY DEF EnqueueFault, Debtors, TypeOK
<1>2. pc[d] = "claimed" /\ faults' = faults + 1
  BY DEF EnqueueFault, AFault
<1>n. /\ IsFiniteSet(Debtors(e)') /\ Cardinality(Debtors(e)) \in Nat
      /\ Cardinality(Debtors(e)') \in Nat
      /\ Cardinality(Debtors(e)') <= Cardinality(Debtors(e))
      /\ d \in Debtors(e) => Cardinality(Debtors(e)') = Cardinality(Debtors(e)) - 1
  BY <1>1, RemoveOne DEF Budget
<1>3. PICK sent \in SUBSET batch[d] : produced' = Plus(produced, sent)
  BY DEF EnqueueFault, Oldest
<1>4. CASE e \in sent /\ e \in held[d]
  <2>1. ~Earned(e)
    BY <1>2, <1>4, NotYetEarned
  <2>2. produced'[e] = produced[e] + 1
    BY <1>3, <1>4 DEF Plus
  <2> QED
    BY <1>n, <1>2, <2>1, <2>2 DEF Budget, TypeOK
<1>5. CASE e \in sent /\ e \notin held[d]
  <2>1. d \in Debtors(e)
    BY <1>2, <1>3, <1>5 DEF Debtors
  <2>2. produced'[e] = produced[e] + 1
    BY <1>3, <1>5 DEF Plus
  <2> QED
    BY <1>n, <1>2, <2>1, <2>2 DEF Budget, TypeOK
<1>6. CASE e \notin sent
  <2>1. produced'[e] = produced[e]
    BY <1>3, <1>6 DEF Plus
  <2> QED
    BY <1>1, <1>2, <2>1, PayBudget
<1> QED
  BY <1>4, <1>5, <1>6

\* A lost connection may make d a debtor, and pays for it.
LEMMA ConnectionLostBudget ==
    ASSUME TypeOK, TypeOK', BatchInv, LockInv, NEW e \in Events, Budget(e),
           NEW d \in Drainers, ConnectionLost(d)
    PROVE  Budget(e)'
<1>1. faults' = faults + 1 /\ produced' = produced
  BY DEF ConnectionLost, AFault
<1>2. CASE pc[d] = "claimed" /\ e \in held[d]
  <2>1. ~Earned(e)
    BY <1>2, NotYetEarned
  <2>2. Debtors(e)' = Debtors(e) \cup {d}
    BY <1>2 DEF ConnectionLost, Debtors, TypeOK, BatchInv
  <2>3. /\ IsFiniteSet(Debtors(e)') /\ Cardinality(Debtors(e)) \in Nat
        /\ Cardinality(Debtors(e)') \in Nat
        /\ Cardinality(Debtors(e)') <= Cardinality(Debtors(e)) + 1
    BY <2>2, AddOne DEF Budget
  <2> QED
    BY <1>1, <2>1, <2>3 DEF Budget, TypeOK
<1>3. CASE ~(pc[d] = "claimed" /\ e \in held[d])
  <2>1. Debtors(e)' = Debtors(e)
    BY <1>3 DEF ConnectionLost, Debtors, TypeOK, BatchInv
  <2> QED
    BY <1>1, <2>1, PayBudget
<1> QED
  BY <1>2, <1>3

\* Every step keeps the budget of every event.
LEMMA NextBudget ==
    ASSUME TypeOK, TypeOK', BatchInv, LockInv, BudgetInv, [Next]_vars
    PROVE  BudgetInv'
<1> SUFFICES ASSUME NEW e \in Events PROVE Budget(e)'
  BY DEF BudgetInv
<1>0. Budget(e)
  BY DEF BudgetInv
<1>1. ASSUME NEW f \in Events, Append(f) \/ Age(f) \/ DeliverOrphan(f)
      PROVE  Budget(e)'
  <2>1. Debtors(e)' = Debtors(e) /\ produced' = produced /\ faults' = faults
    BY <1>1 DEF Append, Age, DeliverOrphan, Debtors
  <2>2. Earned(e) => Earned(e)'
    BY <1>1 DEF Append, Age, DeliverOrphan, Earned, TypeOK
  <2> QED
    BY <1>0, <2>1, <2>2, KeepBudget
<1>2. ASSUME NEW d \in Drainers, NEW f \in Events, Deliver(d, f)
      PROVE  Budget(e)'
  <2>1. Debtors(e)' = Debtors(e) /\ produced' = produced /\ faults' = faults
    BY <1>2 DEF Deliver, Debtors
  <2>2. Earned(e) => Earned(e)'
    BY <1>2 DEF Deliver, Earned, TypeOK
  <2> QED
    BY <1>0, <2>1, <2>2, KeepBudget
<1>3. ASSUME NEW d \in Drainers, NEW f \in Events, DeliverFault(d, f)
      PROVE  Budget(e)'
  <2>1. Debtors(e)' = Debtors(e) /\ produced' = produced /\ faults' = faults + 1
    BY <1>3 DEF DeliverFault, AFault, Debtors
  <2> QED
    BY <1>0, <2>1, PayBudget
<1>4. ASSUME NEW d \in Drainers, Claim(d)
      PROVE  Budget(e)'
  <2>1. produced' = produced /\ faults' = faults
    BY <1>4 DEF Claim
  <2>2. Debtors(e)' = Debtors(e)
    BY <1>4 DEF Claim, Debtors, TypeOK
  <2>3. Earned(e) => Earned(e)'
    BY <1>4 DEF Claim, Earned, TypeOK, BatchInv
  <2> QED
    BY <1>0, <2>1, <2>2, <2>3, KeepBudget
<1>5. ASSUME NEW d \in Drainers, Collect(d)
      PROVE  Budget(e)'
  <2>1. produced' = produced /\ faults' = faults
    BY <1>5 DEF Collect
  <2>2. Debtors(e)' = Debtors(e)
    BY <1>5 DEF Collect, EndDrain, Forget, Debtors, TypeOK
  <2>3. Earned(e) => Earned(e)'
    BY <1>5 DEF Collect, EndDrain, Forget, Earned, TypeOK
  <2> QED
    BY <1>0, <2>1, <2>2, <2>3, KeepBudget
<1>6. ASSUME NEW d \in Drainers, Publish(d)
      PROVE  Budget(e)'
  <2>1. produced' = produced /\ faults' = faults
    BY <1>6 DEF Publish
  <2>2. Debtors(e)' = Debtors(e)
    BY <1>6 DEF Publish, EndDrain, Forget, Debtors, TypeOK
  <2>3. Earned(e) => Earned(e)'
    BY <1>6 DEF Publish, EndDrain, Forget, Published, Marks, Earned, TypeOK, BatchInv
  <2> QED
    BY <1>0, <2>1, <2>2, <2>3, KeepBudget
<1>7. ASSUME NEW d \in Drainers, ProduceTimeout(d) \/ PublishFault(d) \/ PublishInDoubt(d)
      PROVE  Budget(e)'
  <2>1. produced' = produced /\ faults' = faults + 1
    BY <1>7 DEF ProduceTimeout, PublishFault, PublishInDoubt, AFault
  <2>2. Debtors(e)' = Debtors(e)
    BY <1>7 DEF ProduceTimeout, PublishFault, PublishInDoubt, EndDrain, Forget, Debtors, TypeOK
  <2> QED
    BY <1>0, <2>1, <2>2, PayBudget
<1>8. ASSUME NEW d \in Drainers, Stop(d)
      PROVE  Budget(e)'
  <2>1. produced' = produced /\ faults' = faults + 1
    BY <1>8 DEF Stop, AFault
  <2>2. Debtors(e)' = Debtors(e) \ {d}
    BY <1>8 DEF Stop, Forget, Debtors, TypeOK
  <2> QED
    BY <1>0, <2>1, <2>2, PayBudget
<1>9. ASSUME NEW t \in lost, Settle(t)
      PROVE  Budget(e)'
  <2>1. Debtors(e)' = Debtors(e) /\ produced' = produced /\ faults' = faults
    BY <1>9 DEF Settle, Debtors
  <2>2. Earned(e) => Earned(e)'
    BY <1>9 DEF Settle, Published, Earned, TypeOK
  <2> QED
    BY <1>0, <2>1, <2>2, KeepBudget
<1>10. CASE UNCHANGED vars
  BY <1>0, <1>10 DEF vars, Budget, Debtors, Earned
<1> QED
  BY <1>0, <1>1, <1>2, <1>3, <1>4, <1>5, <1>6, <1>7, <1>8, <1>9, <1>10, EnqueueBudget,
     EnqueueFaultBudget, ConnectionLostBudget DEF Next, Relay, Drain, DrainFault

-----------------------------------------------------------------------------
(* The theorems *)

\* The inductive invariant holds in every state.
LEMMA Inductive == Spec => []IInv
<1>1. Init => IInv
  <2> SUFFICES ASSUME Init PROVE IInv
    OBVIOUS
  <2>1. TypeOK
    BY OutboxAssumption DEF Init, TypeOK
  <2>2. DeliveredInv /\ BatchInv /\ LockInv
    BY DEF Init, DeliveredInv, PublishedIsDelivered, BatchInv, LockInv
  <2>3. ASSUME NEW e \in Events PROVE Budget(e)
    <3>1. Debtors(e) = {}
      BY DEF Init, Debtors
    <3> QED
      BY <3>1, FS_EmptySet DEF Init, Budget
  <2> QED
    BY <2>1, <2>2, <2>3 DEF IInv, BudgetInv
<1>2. IInv /\ [Next]_vars => IInv'
  BY NextType, NextDelivered, NextBatch, NextLock, NextBudget DEF IInv
<1> QED
  BY <1>1, <1>2, PTL DEF Spec

\* Every state of the relay is well-typed.
THEOREM OutboxTypeCorrect == Spec => []TypeOK
BY Inductive, PTL DEF IInv

\* No event is lost: a row marked PUBLISHED is in the topic, whatever drains crash, time
\* out or lose the answer to their COMMIT.
THEOREM NoEventLost == Spec => []PublishedIsDelivered
BY Inductive, PTL DEF IInv, DeliveredInv

\* Concurrent drainers never duplicate an event on their own: n faults account for all
\* but one of the copies handed to Kafka.
THEOREM DuplicatesArePaidFor == Spec => []DuplicatesNeedFaults
<1>1. IInv => DuplicatesNeedFaults
  <2> SUFFICES ASSUME IInv, NEW e \in Events PROVE produced[e] <= 1 + faults
    BY DEF DuplicatesNeedFaults
  <2>1. Budget(e) /\ TypeOK
    BY DEF IInv, BudgetInv
  <2>2. Cardinality(Debtors(e)) \in Nat
    BY <2>1, FS_CardinalityType DEF Budget
  <2> QED
    BY <2>1, <2>2 DEF Budget, TypeOK
<1> QED
  BY <1>1, Inductive, PTL
-----------------------------------------------------------------------------
(* An event that is not committed is unknown to drainers, producers and broker *)

KnownInv ==
    \A e \in Events : status[e] = "absent" =>
        topic[e] = 0 /\ orphan[e] = 0 /\ \A d \in Drainers : e \notin batch[d]

\* Nothing of an event is anywhere before its ledger transaction has committed.
LEMMA NextKnown ==
    ASSUME TypeOK, BatchInv, LockInv, KnownInv, [Next]_vars
    PROVE  KnownInv'
<1>1. ASSUME NEW e \in Events, Append(e)
      PROVE  KnownInv'
  BY <1>1 DEF Append, TypeOK, BatchInv, KnownInv
<1>2. ASSUME NEW e \in Events, Age(e)
      PROVE  KnownInv'
  BY <1>2 DEF Age, TypeOK, BatchInv, KnownInv
<1>3. ASSUME NEW e \in Events, DeliverOrphan(e)
      PROVE  KnownInv'
  BY <1>3 DEF DeliverOrphan, TypeOK, BatchInv, KnownInv
<1>4. ASSUME NEW d \in Drainers, NEW e \in Events, Deliver(d, e)
      PROVE  KnownInv'
  BY <1>4 DEF Deliver, TypeOK, BatchInv, KnownInv
<1>5. ASSUME NEW d \in Drainers, NEW e \in Events, DeliverFault(d, e)
      PROVE  KnownInv'
  BY <1>5 DEF DeliverFault, AFault, TypeOK, BatchInv, KnownInv
<1>6. ASSUME NEW d \in Drainers, Claim(d)
      PROVE  KnownInv'
  BY <1>6, EligibleRows DEF Claim, TypeOK, BatchInv, KnownInv
<1>7. ASSUME NEW d \in Drainers, Enqueue(d)
      PROVE  KnownInv'
  BY <1>7 DEF Enqueue, Plus, TypeOK, BatchInv, KnownInv
<1>8. ASSUME NEW d \in Drainers, Collect(d)
      PROVE  KnownInv'
  BY <1>8 DEF Collect, EndDrain, Forget, Plus, TypeOK, BatchInv, KnownInv
<1>9. ASSUME NEW d \in Drainers, Publish(d)
      PROVE  KnownInv'
  BY <1>9 DEF Publish, EndDrain, Forget, Plus, Published, Marks, TypeOK, BatchInv, LockInv, KnownInv
<1>10. ASSUME NEW d \in Drainers, EnqueueFault(d)
      PROVE  KnownInv'
  BY <1>10 DEF EnqueueFault, AFault, Plus, Oldest, TypeOK, BatchInv, KnownInv
<1>11. ASSUME NEW d \in Drainers, ProduceTimeout(d)
      PROVE  KnownInv'
  BY <1>11 DEF ProduceTimeout, AFault, EndDrain, Forget, Plus, TypeOK, BatchInv, KnownInv
<1>12. ASSUME NEW d \in Drainers, PublishFault(d)
      PROVE  KnownInv'
  BY <1>12 DEF PublishFault, AFault, EndDrain, Forget, Plus, TypeOK, BatchInv, KnownInv
<1>13. ASSUME NEW d \in Drainers, PublishInDoubt(d)
      PROVE  KnownInv'
  BY <1>13 DEF PublishInDoubt, AFault, EndDrain, Forget, Plus, Abandoned, Marks,
     TypeOK, BatchInv, KnownInv
<1>14. ASSUME NEW d \in Drainers, ConnectionLost(d)
      PROVE  KnownInv'
  BY <1>14 DEF ConnectionLost, AFault, Abandoned, TypeOK, BatchInv, KnownInv
<1>15. ASSUME NEW d \in Drainers, Stop(d)
      PROVE  KnownInv'
  BY <1>15 DEF Stop, AFault, Forget, Plus, Abandoned, Marks, TypeOK, BatchInv, KnownInv
<1>16. ASSUME NEW t \in lost, Settle(t)
      PROVE  KnownInv'
  BY <1>16 DEF Settle, Published, TypeOK, Transactions, LockInv, KnownInv
<1>17. CASE UNCHANGED vars
  BY <1>17 DEF vars, TypeOK, BatchInv, KnownInv
<1> QED
  BY <1>1, <1>2, <1>3, <1>4, <1>5, <1>6, <1>7, <1>8, <1>9, <1>10, <1>11,
     <1>12, <1>13, <1>14, <1>15, <1>16, <1>17 DEF Next, Relay, Drain, DrainFault
=============================================================================
