------------------------------- MODULE Outbox -------------------------------
(***************************************************************************)
(* The transactional-outbox relay: OutboxRepo.drain under the worker       *)
(* goroutines of every server (infrastructure/outbox_worker.go) and under  *)
(* the reconciler (infrastructure/reconciler.go), over one Kafka producer  *)
(* per process (infrastructure/kafka_producer.go).                         *)
(*                                                                         *)
(* A drain is one READ COMMITTED transaction that stays open while Kafka   *)
(* is written: claim rows FOR UPDATE SKIP LOCKED, publish, mark, commit.   *)
(* Each drainer is a process; a restarted one is another drainer.  The     *)
(* server's side of a transaction (held, lost) is kept apart from the      *)
(* client's (batch), because either may be gone while the other lives.     *)
(*                                                                         *)
(* Faults, at most MaxFaults of them: the producer's queue is full, a      *)
(* delivery report is an error or comes too late, the database connection  *)
(* breaks, the UPDATE fails, the COMMIT's answer is lost, a drainer stops. *)
(***************************************************************************)
EXTENDS Naturals, FiniteSets

CONSTANTS Events,       \* outbox_events rows, numbered in created_at order
          Drainers,     \* drain loops: worker goroutines and reconcilers
          Reconcilers,  \* the drainers that only take stale rows
          BatchSize,
          MaxFaults     \* bound on the faults of a behaviour

ASSUME OutboxAssumption ==
    /\ Events \subseteq Nat
    /\ Reconcilers \subseteq Drainers
    /\ BatchSize \in Nat \ {0}
    /\ MaxFaults \in Nat

VARIABLES
    status,    \* status[e]: "absent" until the ledger transaction commits, then the column
    stale,     \* events older than StaleAfter
    pc,        \* pc[d]: between drains, rows claimed, awaiting reports, about to mark, gone
    batch,     \* batch[d]: the rows d has read
    held,      \* held[d]: the rows the open transaction of d has locked
    flight,    \* flight[d]: messages d waits for
    acked,     \* acked[d]: the successes ProduceBatch has collected
    orphan,    \* orphan[e]: messages in a producer's queue that nobody waits for
    topic,     \* topic[e]: copies of e in the Kafka topic
    produced,  \* produced[e]: times a producer has accepted e
    lost,      \* transactions whose client is gone and that the server has not ended
    faults

vars == <<status, stale, pc, batch, held, flight, acked, orphan, topic, produced, lost, faults>>

Transactions == [rows : SUBSET Events, marks : SUBSET Events]

TypeOK ==
    /\ status \in [Events -> {"absent", "PENDING", "PUBLISHED"}]
    /\ stale \subseteq Events
    /\ pc \in [Drainers -> {"idle", "claimed", "await", "mark", "stopped"}]
    /\ batch \in [Drainers -> SUBSET Events]
    /\ held \in [Drainers -> SUBSET Events]
    /\ flight \in [Drainers -> SUBSET Events]
    /\ acked \in [Drainers -> SUBSET Events]
    /\ orphan \in [Events -> Nat]
    /\ topic \in [Events -> Nat]
    /\ produced \in [Events -> Nat]
    /\ lost \subseteq Transactions
    /\ faults \in 0 .. MaxFaults

Init ==
    /\ status = [e \in Events |-> "absent"]
    /\ stale = {}
    /\ pc = [d \in Drainers |-> "idle"]
    /\ batch = [d \in Drainers |-> {}]
    /\ held = [d \in Drainers |-> {}]
    /\ flight = [d \in Drainers |-> {}]
    /\ acked = [d \in Drainers |-> {}]
    /\ orphan = [e \in Events |-> 0]
    /\ topic = [e \in Events |-> 0]
    /\ produced = [e \in Events |-> 0]
    /\ lost = {}
    /\ faults = 0

AFault == faults < MaxFaults /\ faults' = faults + 1

Plus(f, S) == [e \in Events |-> IF e \in S THEN f[e] + 1 ELSE f[e]]

Published(S) == [e \in Events |-> IF e \in S THEN "PUBLISHED" ELSE status[e]]

\* The first n rows of S in created_at order.
Oldest(S, n) == {e \in S : Cardinality({f \in S : f < e}) < n}

Locked == (UNION {held[d] : d \in Drainers}) \cup (UNION {t.rows : t \in lost})

\* The client of d forgets its batch and goes to l; messages it still waited for stay
\* in the producer's queue.
Forget(d, l) ==
    /\ pc' = [pc EXCEPT ![d] = l]
    /\ batch' = [batch EXCEPT ![d] = {}]
    /\ flight' = [flight EXCEPT ![d] = {}]
    /\ acked' = [acked EXCEPT ![d] = {}]
    /\ orphan' = Plus(orphan, flight[d])

EndDrainHoldingLocks(d) == Forget(d, "idle") /\ UNCHANGED held

\* drain returns after its transaction has ended.
EndDrain(d) == Forget(d, "idle") /\ held' = [held EXCEPT ![d] = {}]

-----------------------------------------------------------------------------
(* The environment of a drain *)

\* A ledger transaction commits its outbox row.  created_at is the start of that
\* transaction, so rows appear in any order.
Append(e) ==
    /\ status[e] = "absent"
    /\ status' = [status EXCEPT ![e] = "PENDING"]
    /\ UNCHANGED <<stale, pc, batch, held, flight, acked, orphan, topic, produced, lost, faults>>

\* StaleAfter passes.
Age(e) ==
    /\ status[e] # "absent"
    /\ e \notin stale
    /\ stale' = stale \cup {e}
    /\ UNCHANGED <<status, pc, batch, held, flight, acked, orphan, topic, produced, lost, faults>>

\* The broker appends a message d waits for and the report says so.
Deliver(d, e) ==
    /\ e \in flight[d]
    /\ flight' = [flight EXCEPT ![d] = @ \ {e}]
    /\ acked' = [acked EXCEPT ![d] = @ \cup {e}]
    /\ topic' = [topic EXCEPT ![e] = @ + 1]
    /\ UNCHANGED <<status, stale, pc, batch, held, orphan, produced, lost, faults>>

\* The report of a message is an error, though the broker may have appended it.
DeliverFault(d, e) ==
    /\ AFault
    /\ e \in flight[d]
    /\ flight' = [flight EXCEPT ![d] = @ \ {e}]
    /\ topic' \in {topic, [topic EXCEPT ![e] = @ + 1]}
    /\ UNCHANGED <<status, stale, pc, batch, held, acked, orphan, produced, lost>>

DeliverOrphanTwice(e) ==
    /\ orphan' = [orphan EXCEPT ![e] = @ - 1]
    /\ topic' \in {topic, [topic EXCEPT ![e] = @ + 1]}
    /\ UNCHANGED <<status, stale, pc, batch, held, flight, acked, produced, lost, faults>>

\* A message nobody waits for reaches the broker, or is dropped.
DeliverOrphan(e) ==
    /\ orphan[e] > 0
    /\ orphan' = [orphan EXCEPT ![e] = @ - 1]
    /\ topic' \in {topic, [topic EXCEPT ![e] = @ + 1]}
    /\ UNCHANGED <<status, stale, pc, batch, held, flight, acked, produced, lost, faults>>

-----------------------------------------------------------------------------
(* A drain *)

EligibleIgnoringLocks(d) ==
    {e \in Events : /\ status[e] = "PENDING"
                    /\ d \in Reconcilers => e \in stale}

\* The rows the claiming SELECT may return: Drain takes any PENDING row, DrainStale a
\* stale one; SKIP LOCKED passes over the rows of every open transaction.
Eligible(d) ==
    {e \in Events : /\ status[e] = "PENDING"
                    /\ d \in Reconcilers => e \in stale
                    /\ e \notin Locked}

\* Begin, and claim the oldest rows.  (When there are none the empty transaction is
\* committed and nothing changes.)
Claim(d) ==
    /\ pc[d] = "idle"
    /\ Eligible(d) # {}
    /\ LET rows == Oldest(Eligible(d), BatchSize) IN
       /\ batch' = [batch EXCEPT ![d] = rows]
       /\ held' = [held EXCEPT ![d] = rows]
    /\ pc' = [pc EXCEPT ![d] = "claimed"]
    /\ UNCHANGED <<status, stale, flight, acked, orphan, topic, produced, lost, faults>>

\* ProduceBatch enqueues every message.
Enqueue(d) ==
    /\ pc[d] = "claimed"
    /\ flight' = [flight EXCEPT ![d] = batch[d]]
    /\ produced' = Plus(produced, batch[d])
    /\ pc' = [pc EXCEPT ![d] = "await"]
    /\ UNCHANGED <<status, stale, batch, held, acked, orphan, topic, lost, faults>>

\* The queue refuses message n + 1: ProduceBatch returns at once, the n before it stay
\* enqueued, and the error rolls the transaction back.
EnqueueFault(d) ==
    /\ AFault
    /\ pc[d] = "claimed"
    /\ \E n \in 0 .. Cardinality(batch[d]) - 1 :
          LET sent == Oldest(batch[d], n) IN
          /\ orphan' = Plus(orphan, sent)
          /\ produced' = Plus(produced, sent)
    /\ pc' = [pc EXCEPT ![d] = "idle"]
    /\ batch' = [batch EXCEPT ![d] = {}]
    /\ held' = [held EXCEPT ![d] = {}]
    /\ UNCHANGED <<status, stale, flight, acked, topic, lost>>

\* Every report is in.  publishBatch returns the successes; without any, drain rolls
\* back.
Collect(d) ==
    /\ pc[d] = "await"
    /\ flight[d] = {}
    /\ IF acked[d] = {}
       THEN EndDrain(d)
       ELSE pc' = [pc EXCEPT ![d] = "mark"] /\ UNCHANGED <<batch, held, flight, acked, orphan>>
    /\ UNCHANGED <<status, stale, topic, produced, lost, faults>>

\* ProduceBatch times out: publishBatch drops the successes it has and drain rolls back.
ProduceTimeout(d) ==
    /\ AFault
    /\ pc[d] = "await"
    /\ EndDrain(d)
    /\ UNCHANGED <<status, stale, topic, produced, lost>>

MarksAll(d) == batch[d]

\* The rows the UPDATE sets to PUBLISHED.
Marks(d) == acked[d]

\* UPDATE and COMMIT, which fail when the connection is gone.
Publish(d) ==
    /\ pc[d] = "mark"
    /\ status' = IF held[d] = {} THEN status ELSE Published(Marks(d))
    /\ EndDrain(d)
    /\ UNCHANGED <<stale, topic, produced, lost, faults>>

\* The UPDATE or the COMMIT fails and the transaction is rolled back.
PublishFault(d) ==
    /\ AFault
    /\ pc[d] = "mark"
    /\ EndDrain(d)
    /\ UNCHANGED <<status, stale, topic, produced, lost>>

\* The server's side of d's transaction is left alone with what it may still commit.
Abandoned(d, marks) ==
    IF held[d] = {} THEN lost ELSE lost \cup {[rows |-> held[d], marks |-> marks]}

\* The COMMIT is sent and its answer lost; drain returns the error.
PublishInDoubt(d) ==
    /\ AFault
    /\ pc[d] = "mark"
    /\ lost' = Abandoned(d, Marks(d))
    /\ EndDrain(d)
    /\ UNCHANGED <<status, stale, topic, produced>>

\* The connection breaks while d is publishing; d learns of it from its next statement.
ConnectionLost(d) ==
    /\ AFault
    /\ held[d] # {}
    /\ lost' = Abandoned(d, {})
    /\ held' = [held EXCEPT ![d] = {}]
    /\ UNCHANGED <<status, stale, pc, batch, flight, acked, orphan, topic, produced>>

\* The drainer's context is cancelled or its process dies.  A cancelled context also
\* fails every later statement, so only a COMMIT already sent can still take effect.
Stop(d) ==
    /\ AFault
    /\ pc[d] # "stopped"
    /\ \E marks \in {{}, IF pc[d] = "mark" THEN Marks(d) ELSE {}} : lost' = Abandoned(d, marks)
    /\ Forget(d, "stopped")
    /\ held' = [held EXCEPT ![d] = {}]
    /\ UNCHANGED <<status, stale, topic, produced>>

\* The server ends a transaction whose client is gone, one way or the other.
Settle(t) ==
    /\ t \in lost
    /\ lost' = lost \ {t}
    /\ status' \in {status, Published(t.marks)}
    /\ UNCHANGED <<stale, pc, batch, held, flight, acked, orphan, topic, produced, faults>>

Drain(d) == Claim(d) \/ Enqueue(d) \/ Collect(d) \/ Publish(d)

DrainFault(d) ==
    \/ EnqueueFault(d) \/ ProduceTimeout(d) \/ PublishFault(d) \/ PublishInDoubt(d)
    \/ ConnectionLost(d) \/ Stop(d)

\* The drainers, the producers, the broker and the database.
Relay ==
    \/ \E e \in Events : DeliverOrphan(e)
    \/ \E d \in Drainers, e \in Events : Deliver(d, e) \/ DeliverFault(d, e)
    \/ \E d \in Drainers : Drain(d) \/ DrainFault(d)
    \/ \E t \in lost : Settle(t)

Next == Relay \/ \E e \in Events : Append(e) \/ Age(e)

Spec == Init /\ [][Next]_vars

\* Drain loops keep ticking, the producer reports on every message and the server ends
\* abandoned transactions.  Faults stop after MaxFaults of them.
RelayFairness ==
    /\ \A d \in Drainers : WF_vars(Drain(d))
    /\ \A d \in Drainers, e \in Events : WF_vars(Deliver(d, e))
    /\ WF_vars(\E t \in lost : Settle(t))

\* And time passes.
Fairness == RelayFairness /\ \A e \in Events : WF_vars(Age(e))

FairSpec == Spec /\ Fairness

-----------------------------------------------------------------------------
(* Properties *)

\* A row is marked PUBLISHED only when its event is in the topic, whichever report,
\* timeout or lost answer drain has acted on: no event is lost.
PublishedIsDelivered ==
    \A e \in Events : status[e] = "PUBLISHED" => topic[e] >= 1

\* Each fault costs at most one more copy of an event: as many drainers as one likes
\* never hand an event to Kafka twice on their own.
DuplicatesNeedFaults == \A e \in Events : produced[e] <= 1 + faults

\* Every committed event is published in the end, as long as one drainer is left, be
\* it only a reconciler: no row stays locked, skipped or behind others for ever.
EveryEventIsPublished ==
    \A e \in Events :
        status[e] = "PENDING" ~>
            status[e] = "PUBLISHED" \/ \A d \in Drainers : pc[d] = "stopped"
=============================================================================
