----------------------------- MODULE AuditProofs -----------------------------
(***************************************************************************)
(* The audit queue of AuditChain loses and repeats no row, its links lead  *)
(* to rows of the same tenant, and a tenant's chain forks only for a cause *)
(* of its own: for any number of rows, tenants, workers and abandoned      *)
(* transactions.                                                           *)
(***************************************************************************)
EXTENDS AuditChain, FiniteSetTheorems, WellFoundedInduction, TLAPS

\* At most one entry for a row.
OncePerRow(S) == \A d, e \in S : d.row = e.row => d = e

\* S is what chaining the rows R inserts.
Covers(S, R) ==
    /\ OncePerRow(S)
    /\ \A e \in S : e.row \in R
    /\ \A r \in R : \E e \in S : e.row = r

\* A worker holds rows and entries only during a drain, its entries are of its own rows,
\* and all of them are there when it commits.
DrainInv ==
    /\ pc \in [Workers -> {"idle", "chain", "commit"}]
    /\ claimed = [w \in Workers |-> claimed[w]]
    /\ out = [w \in Workers |-> out[w]]
    /\ \A w \in Workers :
          /\ pc[w] = "idle" => claimed[w] = {} /\ out[w] = {}
          /\ OncePerRow(out[w])
          /\ \A e \in out[w] : e.row \in claimed[w]
          /\ pc[w] = "commit" => Covers(out[w], claimed[w])
    /\ \A t \in lost : t.entries = {} \/ Covers(t.entries, t.rows)

\* Row locks are exclusive, and on rows that are still pending.
LockInv ==
    /\ \A v, w \in Workers : v # w => claimed[v] \cap claimed[w] = {}
    /\ \A w \in Workers, t \in lost : claimed[w] \cap t.rows = {}
    /\ \A s, t \in lost : s # t => s.rows \cap t.rows = {}
    /\ \A w \in Workers : claimed[w] \subseteq pending
    /\ \A t \in lost : t.rows \subseteq pending

\* Only rows of committed transfers are pending or audited.
SourceInv ==
    /\ pending \subseteq enqueued
    /\ \A e \in log : e.row \in enqueued

IInv == DrainInv /\ LockInv /\ SourceInv /\ RowsConserved

\* chainTenantRun makes exactly one entry for every row of the run.
LEMMA ChainedCovers ==
    ASSUME NEW run, NEW head
    PROVE  Covers(Chained(run, head), run)
<1> DEFINE entry(r) == [row |-> r, prev |-> PrevHash(r, run, head)]
<1>1. \A e \in Chained(run, head) : \E r \in run : e = entry(r)
  BY DEF Chained
<1>2. \A r \in run : entry(r) \in Chained(run, head)
  BY DEF Chained
<1>3. \A r : entry(r).row = r
  OBVIOUS
<1> HIDE DEF entry
<1> QED
  BY <1>1, <1>2, <1>3 DEF Covers, OncePerRow

\* Moving covered rows of pending into the log conserves the rows.
LEMMA MoveConserves ==
    ASSUME SourceInv, RowsConserved, NEW S, NEW R, Covers(S, R), R \subseteq pending,
           log' = log \cup S, pending' = pending \ R, enqueued' = enqueued
    PROVE  SourceInv' /\ RowsConserved'
BY DEF SourceInv, RowsConserved, Covers, OncePerRow

\* The end of w's transaction, with or without a trace at the server.
LEMMA EndDrainInv ==
    ASSUME DrainInv, NEW w \in Workers, EndDrain(w), lost' = lost
    PROVE  DrainInv'
BY ZenonT(40) DEF DrainInv, EndDrain, OncePerRow, Covers

\* Ending a transaction releases its locks and nobody else's.
LEMMA EndDrainLock ==
    ASSUME DrainInv, LockInv, NEW w \in Workers, EndDrain(w), lost' = lost,
           pending' = pending \/ pending' = pending \ claimed[w]
    PROVE  LockInv'
BY DEF DrainInv, LockInv, EndDrain

\* IInv is inductive.
LEMMA NextIInv == IInv /\ [Next]_vars => IInv'
<1> SUFFICES ASSUME IInv, [Next]_vars PROVE IInv'
  OBVIOUS
<1>0. DrainInv /\ LockInv /\ SourceInv /\ RowsConserved
  BY DEF IInv
<1>1. ASSUME NEW r \in Rows, EnqueueAudit(r)
      PROVE  IInv'
  <2>1. r \notin enqueued
    BY <1>1 DEF EnqueueAudit
  <2>2. DrainInv' /\ LockInv'
    BY <1>0, <1>1 DEF EnqueueAudit, DrainInv, LockInv, Covers, OncePerRow
  <2>3. SourceInv' /\ RowsConserved'
    BY <1>0, <1>1, <2>1 DEF EnqueueAudit, SourceInv, RowsConserved
  <2> QED
    BY <2>2, <2>3 DEF IInv
<1>2. ASSUME NEW w \in Workers, Claim(w)
      PROVE  IInv'
  <2>1. PICK rows \in SUBSET (pending \ Locked) : claimed' = [claimed EXCEPT ![w] = rows]
    BY <1>2 DEF Claim
  <2>2. /\ rows \subseteq pending
        /\ \A v \in Workers : rows \cap claimed[v] = {}
        /\ \A t \in lost : rows \cap t.rows = {}
    BY <2>1 DEF Locked
  <2>3. LockInv'
    BY <1>0, <1>2, <2>1, <2>2 DEF Claim, DrainInv, LockInv
  <2>4. DrainInv'
    BY <1>0, <1>2, <2>1, ZenonT(40) DEF Claim, DrainInv, Covers, OncePerRow
  <2>5. SourceInv' /\ RowsConserved'
    BY <1>0, <1>2 DEF Claim, SourceInv, RowsConserved
  <2> QED
    BY <2>3, <2>4, <2>5 DEF IInv
<1>3. ASSUME NEW w \in Workers, ChainTenantRun(w)
      PROVE  IInv'
  <2>1. PICK t \in Tenants :
          LET run == {r \in Remaining(w) : r.tenant = t} IN
          /\ out' = [out EXCEPT ![w] = @ \cup Chained(run, LatestAuditHash(t))]
          /\ pc' = [pc EXCEPT ![w] = IF run = Remaining(w) THEN "commit" ELSE "chain"]
    BY <1>3 DEF ChainTenantRun
  <2> DEFINE run == {r \in Remaining(w) : r.tenant = t}
             new == Chained(run, LatestAuditHash(t))
  <2>2. Covers(new, run)
    BY ChainedCovers
  <2>3. run \subseteq Remaining(w) /\ Remaining(w) \subseteq claimed[w]
    BY DEF Remaining
  <2>4. /\ out' = [out EXCEPT ![w] = @ \cup new]
        /\ pc' = [pc EXCEPT ![w] = IF run = Remaining(w) THEN "commit" ELSE "chain"]
    BY <2>1
  <2>5. pc[w] = "chain" /\ UNCHANGED <<enqueued, pending, log, claimed, lost>>
    BY <1>3 DEF ChainTenantRun
  <2> HIDE DEF run, new
  <2>6. OncePerRow(out[w] \cup new) /\ \A e \in out[w] \cup new : e.row \in claimed[w]
    BY <1>0, <2>2, <2>3 DEF DrainInv, Covers, OncePerRow, Remaining
  <2>7. run = Remaining(w) => Covers(out[w] \cup new, claimed[w])
    BY <2>2, <2>6 DEF Covers, Remaining
  <2>8. DrainInv'
    BY <1>0, <2>4, <2>5, <2>6, <2>7 DEF DrainInv
  <2>9. LockInv' /\ SourceInv' /\ RowsConserved'
    BY <1>0, <2>5 DEF LockInv, SourceInv, RowsConserved
  <2> QED
    BY <2>8, <2>9 DEF IInv
<1>4. ASSUME NEW w \in Workers, Commit(w)
      PROVE  IInv'
  <2>1. Covers(out[w], claimed[w]) /\ claimed[w] \subseteq pending
    BY <1>0, <1>4 DEF Commit, DrainInv, LockInv
  <2>2. SourceInv' /\ RowsConserved'
    BY <1>0, <1>4, <2>1, MoveConserves DEF Commit
  <2> QED
    BY <1>0, <1>4, <2>2, EndDrainInv, EndDrainLock DEF Commit, IInv
<1>5. ASSUME NEW w \in Workers, DrainFault(w)
      PROVE  IInv'
  <2>1. SourceInv' /\ RowsConserved'
    BY <1>0, <1>5 DEF DrainFault, SourceInv, RowsConserved
  <2> QED
    BY <1>0, <1>5, <2>1, EndDrainInv, EndDrainLock DEF DrainFault, IInv
<1>6. ASSUME NEW w \in Workers, Disconnect(w)
      PROVE  IInv'
  <2> DEFINE gone == [rows |-> claimed[w],
                      entries |-> IF pc[w] = "commit" THEN out[w] ELSE {}]
  <2>1. gone.rows = claimed[w] /\ (gone.entries = {} \/ Covers(gone.entries, claimed[w]))
    BY <1>0 DEF DrainInv
  <2>2. lost' = lost \cup {gone} /\ EndDrain(w) /\ UNCHANGED <<enqueued, pending, log>>
    BY <1>6 DEF Disconnect
  <2> HIDE DEF gone
  <2>3. DrainInv'
    BY <1>0, <2>1, <2>2, ZenonT(40) DEF DrainInv, EndDrain, OncePerRow, Covers
  <2>4. LockInv'
    BY <1>0, <2>1, <2>2 DEF DrainInv, LockInv, EndDrain
  <2>5. SourceInv' /\ RowsConserved'
    BY <1>0, <2>2 DEF SourceInv, RowsConserved
  <2> QED
    BY <2>3, <2>4, <2>5 DEF IInv
<1>7. ASSUME NEW t \in lost, Settle(t)
      PROVE  IInv'
  <2>1. DrainInv'
    BY <1>0, <1>7 DEF Settle, DrainInv, OncePerRow, Covers
  <2>2. LockInv'
    BY <1>0, <1>7 DEF Settle, LockInv
  <2>3. CASE UNCHANGED <<pending, log>>
    BY <1>0, <1>7, <2>1, <2>2, <2>3 DEF Settle, IInv, SourceInv, RowsConserved
  <2>4. CASE t.entries # {} /\ log' = log \cup t.entries /\ pending' = pending \ t.rows
    <3>1. Covers(t.entries, t.rows) /\ t.rows \subseteq pending
      BY <1>0, <2>4 DEF DrainInv, LockInv
    <3>2. SourceInv' /\ RowsConserved'
      BY <1>0, <1>7, <2>4, <3>1, MoveConserves DEF Settle
    <3> QED
      BY <2>1, <2>2, <3>2 DEF IInv
  <2> QED
    BY <1>7, <2>3, <2>4 DEF Settle
<1>8. CASE UNCHANGED vars
  BY <1>0, <1>8 DEF vars, IInv, DrainInv, LockInv, SourceInv, RowsConserved, Covers, OncePerRow
<1> QED
  BY <1>1, <1>2, <1>3, <1>4, <1>5, <1>6, <1>7, <1>8 DEF Next, Audit, Drain

\* Every committed transfer's audit row is waiting or audited, never both, and audited
\* once, however many workers drain, fail or lose the answer to their COMMIT.
THEOREM NoAuditRowLost == Spec => []RowsConserved
<1>1. Init => IInv
  BY DEF Init, IInv, DrainInv, LockInv, SourceInv, RowsConserved, OncePerRow
<1>2. IInv => RowsConserved
  BY DEF IInv
<1> QED
  BY <1>1, <1>2, NextIInv, PTL DEF Spec

-----------------------------------------------------------------------------
(* The last row of a finite set, which PrevHash and LatestAuditHash choose *)

\* A set of naturals has a least element.
LEMMA LeastNat ==
    ASSUME NEW T, T \subseteq Nat, T # {}
    PROVE  \E x \in T : \A y \in T : x <= y
<1> DEFINE R == OpToRel(<, Nat)
<1>1. IsWellFoundedOn(R, Nat)
  BY NatLessThanWellFounded
<1>2. \A x, y \in Nat : x < y => <<x, y>> \in R
  BY DEF OpToRel
<1> HIDE DEF R
<1>3. PICK x \in T : \A y \in T : ~ (<<y, x>> \in R)
  BY <1>1, WFMin
<1>4. \A y \in T : y \in Nat /\ x \in Nat /\ ~ (y < x)
  BY <1>2, <1>3
<1>5. \A y \in T : x <= y
  BY <1>4
<1> QED
  BY <1>5

\* A finite set with a strict order has a last element: the one with the fewest elements
\* above it.
LEMMA LastExists ==
    ASSUME NEW S, IsFiniteSet(S), S # {}, NEW R,
           \A x \in S : <<x, x>> \notin R,
           \A x, y, z \in S : <<x, y>> \in R /\ <<y, z>> \in R => <<x, z>> \in R
    PROVE  \E x \in S : \A y \in S : <<x, y>> \notin R
<1> DEFINE Above(x) == {y \in S : <<x, y>> \in R}
           C == {n \in Nat : \E x \in S : n = Cardinality(Above(x))}
<1>1. \A x \in S : IsFiniteSet(Above(x)) /\ Cardinality(Above(x)) \in Nat
  BY FS_Subset, FS_CardinalityType
<1>2. \A x \in S : Cardinality(Above(x)) \in C
  BY <1>1
<1>3. PICK n \in C : \A m \in C : n <= m
  <2>1. C # {}
    BY <1>2
  <2> QED
    BY <2>1, LeastNat
<1>4. PICK x \in S : n = Cardinality(Above(x))
  BY <1>3
<1>5. SUFFICES ASSUME NEW z \in S, <<x, z>> \in R PROVE FALSE
  BY <1>4
<1>6. Above(z) \subseteq Above(x) /\ z \in Above(x) /\ z \notin Above(z)
  BY <1>5
<1>7. Cardinality(Above(z)) <= Cardinality(Above(x)) /\ Cardinality(Above(z)) # Cardinality(Above(x))
  BY <1>1, <1>6, FS_Subset
<1>8. n <= Cardinality(Above(z))
  BY <1>2, <1>3
<1> QED
  BY <1>1, <1>4, <1>7, <1>8

\* No two rows have the same id.
UniqueIds(S) == \A q, r \in S : q.id = r.id => q = r

LEMMA RowTypes ==
    \A r \in Rows : r.id \in Nat /\ r.occ \in Nat /\ r.tenant \in Nat /\ r.id \in Ids /\ r.tenant \in Tenants
BY AuditAssumption DEF Rows

LEMMA LastById ==
    ASSUME NEW S, S \subseteq Rows, IsFiniteSet(S), S # {}
    PROVE  \E p \in S : \A q \in S : q.id <= p.id
<1> DEFINE R == {p \in S \X S : p[1].id < p[2].id}
<1>1. \A x, y \in S : <<x, y>> \in R <=> x.id < y.id
  OBVIOUS
<1>2. \A x \in S : x.id \in Nat
  BY RowTypes
<1> HIDE DEF R
<1>3. PICK p \in S : \A y \in S : <<p, y>> \notin R
  <2>1. \A x \in S : <<x, x>> \notin R
    BY <1>1, <1>2
  <2>2. \A x, y, z \in S : <<x, y>> \in R /\ <<y, z>> \in R => <<x, z>> \in R
    BY <1>1, <1>2
  <2> QED
    BY <2>1, <2>2, LastExists
<1>4. \A q \in S : ~(p.id < q.id) /\ q.id \in Nat /\ p.id \in Nat
  BY <1>1, <1>2, <1>3
<1>5. \A q \in S : q.id <= p.id
  BY <1>4
<1> QED
  BY <1>5

LEMMA LastByTime ==
    ASSUME NEW S, S \subseteq Rows, IsFiniteSet(S), S # {}, UniqueIds(S)
    PROVE  \E p \in S : \A q \in S \ {p} : Later(p, q)
<1> DEFINE R == {p \in S \X S : Later(p[2], p[1])}
<1>1. \A x, y \in S : <<x, y>> \in R <=> Later(y, x)
  OBVIOUS
<1>2. \A x \in S : x.id \in Nat /\ x.occ \in Nat
  BY RowTypes
<1> HIDE DEF R
<1>3. PICK x \in S : \A y \in S : <<x, y>> \notin R
  <2>1. \A x \in S : <<x, x>> \notin R
    BY <1>1, <1>2 DEF Later
  <2>2. \A x, y, z \in S : <<x, y>> \in R /\ <<y, z>> \in R => <<x, z>> \in R
    BY <1>1, <1>2 DEF Later
  <2> QED
    BY <2>1, <2>2, LastExists
<1>4. ASSUME NEW q \in S \ {x} PROVE Later(x, q)
  <2>1. ~Later(q, x)
    BY <1>1, <1>3
  <2>2. q.id # x.id
    BY DEF UniqueIds
  <2>3. q.id \in Nat /\ x.id \in Nat /\ q.occ \in Nat /\ x.occ \in Nat
    BY <1>2
  <2> QED
    BY <2>1, <2>2, <2>3 DEF Later
<1> QED
  BY <1>4

\* prev_hash of a row: the head for the first row of the run, the row before it otherwise.
LEMMA PrevHashSound ==
    ASSUME NEW run, run \subseteq Rows, IsFiniteSet(run), NEW r \in run, NEW head
    PROVE  \/ (\A q \in run : ~(q.id < r.id)) /\ PrevHash(r, run, head) = head
           \/ \E p \in run : /\ p.id < r.id
                             /\ PrevHash(r, run, head) = p.id
                             /\ \A q \in run : q.id < r.id => q.id <= p.id
<1> DEFINE earlier == {q \in run : q.id < r.id}
<1>1. CASE earlier = {}
  BY <1>1 DEF PrevHash
<1>2. CASE earlier # {}
  <2>1. IsFiniteSet(earlier) /\ earlier \subseteq Rows
    BY FS_Subset
  <2> DEFINE last == CHOOSE p \in earlier : \A q \in earlier : q.id <= p.id
  <2>2. last \in earlier /\ \A q \in earlier : q.id <= last.id
    <3>1. \E p \in earlier : \A q \in earlier : q.id <= p.id
      BY <1>2, <2>1, LastById
    <3> QED
      BY <3>1
  <2>3. PrevHash(r, run, head) = last.id
    BY <1>2 DEF PrevHash
  <2> QED
    BY <2>2, <2>3
<1> QED
  BY <1>1, <1>2

LogRows(t) == {e.row : e \in {x \in log : x.row.tenant = t}}

\* The head of a tenant's chain: its latest row, if it has any.
LEMMA HeadSound ==
    ASSUME NEW t, LogRows(t) \subseteq Rows, IsFiniteSet(LogRows(t)), UniqueIds(LogRows(t))
    PROVE  \/ LogRows(t) = {} /\ LatestAuditHash(t) = Genesis
           \/ \E p \in LogRows(t) : /\ LatestAuditHash(t) = p.id
                                    /\ \A q \in LogRows(t) \ {p} : Later(p, q)
<1>1. CASE LogRows(t) = {}
  BY <1>1 DEF LatestAuditHash, LogRows
<1>2. CASE LogRows(t) # {}
  <2> DEFINE own == LogRows(t)
             last == CHOOSE r \in own : \A q \in own \ {r} : Later(r, q)
  <2>1. last \in own /\ \A q \in own \ {last} : Later(last, q)
    <3>1. \E p \in own : \A q \in own \ {p} : Later(p, q)
      BY <1>2, LastByTime
    <3> QED
      BY <3>1
  <2>2. LatestAuditHash(t) = last.id
    BY <1>2 DEF LatestAuditHash, LogRows
  <2> QED
    BY <2>1, <2>2
<1> QED
  BY <1>1, <1>2

-----------------------------------------------------------------------------
(* Types, and the links of the chains *)

TInv == TypeOK /\ IsFiniteSet(enqueued) /\ UniqueIds(enqueued)

\* What a worker chains is a finite set of rows with ids of their own, none of them in the
\* log; and so are the tenant's rows in the log.
LEMMA RunFacts ==
    ASSUME IInv, TInv, NEW w \in Workers, NEW t, NEW run, run \subseteq claimed[w]
    PROVE  /\ run \subseteq Rows /\ IsFiniteSet(run) /\ UniqueIds(run)
           /\ LogRows(t) \subseteq Rows /\ IsFiniteSet(LogRows(t)) /\ UniqueIds(LogRows(t))
           /\ LogRows(t) \cap run = {}
           /\ \A q \in LogRows(t) : q.tenant = t
<1>1. run \subseteq pending /\ run \subseteq enqueued
  BY DEF IInv, LockInv, SourceInv
<1>2. LogRows(t) \subseteq enqueued /\ \A q \in LogRows(t) : q.tenant = t
  BY DEF IInv, SourceInv, LogRows
<1>3. enqueued \subseteq Rows /\ IsFiniteSet(enqueued) /\ UniqueIds(enqueued)
  BY DEF TInv, TypeOK
<1>4. LogRows(t) \cap run = {}
  BY <1>1 DEF IInv, RowsConserved, SourceInv, LogRows
<1> QED
  BY <1>1, <1>2, <1>3, <1>4, FS_Subset DEF UniqueIds

\* Where the link of a new entry leads: to nothing if it is the tenant's first, to the head
\* of the chain if it is the first of its run, and to the row before it otherwise.
LEMMA ChainedLinks ==
    ASSUME IInv, TInv, NEW w \in Workers, NEW t, NEW run, run \subseteq claimed[w],
           NEW e \in Chained(run, LatestAuditHash(t))
    PROVE  /\ e.row \in run
           /\ e = [row |-> e.row, prev |-> e.prev]
           /\ \/ /\ e.prev = Genesis /\ LogRows(t) = {}
                 /\ \A q \in run : ~(q.id < e.row.id)
              \/ /\ \E p \in LogRows(t) : /\ e.prev = p.id
                                          /\ \A q \in LogRows(t) \ {p} : Later(p, q)
                 /\ \A q \in run : ~(q.id < e.row.id)
              \/ \E p \in run : /\ p.id < e.row.id
                                /\ e.prev = p.id
                                /\ \A q \in run : q.id < e.row.id => q.id <= p.id
<1>1. PICK r \in run : e = [row |-> r, prev |-> PrevHash(r, run, LatestAuditHash(t))]
  BY DEF Chained
<1>2. e.row = r /\ e.prev = PrevHash(r, run, LatestAuditHash(t))
  BY <1>1
<1>3. \/ (\A q \in run : ~(q.id < r.id)) /\ e.prev = LatestAuditHash(t)
      \/ \E p \in run : /\ p.id < r.id
                        /\ e.prev = p.id
                        /\ \A q \in run : q.id < r.id => q.id <= p.id
  BY <1>2, RunFacts, PrevHashSound
<1>4. \/ LogRows(t) = {} /\ LatestAuditHash(t) = Genesis
      \/ \E p \in LogRows(t) : /\ LatestAuditHash(t) = p.id
                               /\ \A q \in LogRows(t) \ {p} : Later(p, q)
  BY RunFacts, HeadSound
<1> QED
  BY <1>1, <1>2, <1>3, <1>4

\* New entries are entries.
LEMMA ChainedType ==
    ASSUME IInv, TInv, NEW w \in Workers, NEW t, NEW run, run \subseteq claimed[w]
    PROVE  Chained(run, LatestAuditHash(t)) \subseteq Entries
<1> SUFFICES ASSUME NEW e \in Chained(run, LatestAuditHash(t)) PROVE e \in Entries
  OBVIOUS
<1>1. e.row \in run /\ e = [row |-> e.row, prev |-> e.prev]
  BY ChainedLinks
<1>2. run \subseteq Rows /\ LogRows(t) \subseteq Rows
  BY RunFacts
<1>3. e.prev = Genesis \/ (\E p \in LogRows(t) : e.prev = p.id) \/ (\E p \in run : e.prev = p.id)
  BY ChainedLinks
<1>4. e.prev \in Ids \cup {Genesis}
  BY <1>2, <1>3, RowTypes
<1> QED
  BY <1>1, <1>2, <1>4 DEF Entries

LEMMA NextTInv == IInv /\ TInv /\ [Next]_vars => TInv'
<1> SUFFICES ASSUME IInv, TInv, [Next]_vars PROVE TInv'
  OBVIOUS
<1>0. TypeOK
  BY DEF TInv
<1>1. ASSUME NEW r \in Rows, EnqueueAudit(r) PROVE TInv'
  <2>1. IsFiniteSet(enqueued \cup {r})
    BY FS_AddElement DEF TInv
  <2>2. TypeOK'
    BY <1>0, <1>1, RowTypes DEF EnqueueAudit, TypeOK
  <2> QED
    BY <1>1, <2>1, <2>2 DEF EnqueueAudit, TInv, UniqueIds
<1>2. ASSUME NEW w \in Workers, Claim(w) PROVE TInv'
  <2>1. PICK rows \in SUBSET pending :
            /\ claimed' = [claimed EXCEPT ![w] = rows]
            /\ disorder' = disorder \cup ({r.tenant : r \in rows} \cap {q.tenant : q \in Locked})
    BY <1>2 DEF Claim
  <2>2. {r.tenant : r \in rows} \subseteq Tenants
    BY <1>0, RowTypes DEF TypeOK
  <2>3. TypeOK'
    BY <1>0, <1>2, <2>1, <2>2 DEF Claim, TypeOK
  <2> QED
    BY <1>2, <2>3 DEF Claim, TInv, UniqueIds
<1>3. ASSUME NEW w \in Workers, ChainTenantRun(w) PROVE TInv'
  <2>1. PICK t \in Tenants, run \in SUBSET claimed[w] :
            /\ out' = [out EXCEPT ![w] = @ \cup Chained(run, LatestAuditHash(t))]
            /\ pc' = [pc EXCEPT ![w] = IF run = Remaining(w) THEN "commit" ELSE "chain"]
    <3>1. PICK t \in Tenants :
          LET run == {r \in Remaining(w) : r.tenant = t} IN
          /\ out' = [out EXCEPT ![w] = @ \cup Chained(run, LatestAuditHash(t))]
          /\ pc' = [pc EXCEPT ![w] = IF run = Remaining(w) THEN "commit" ELSE "chain"]
      BY <1>3 DEF ChainTenantRun
    <3>2. {r \in Remaining(w) : r.tenant = t} \in SUBSET claimed[w]
      BY DEF Remaining
    <3> QED
      BY <3>1, <3>2
  <2>2. Chained(run, LatestAuditHash(t)) \subseteq Entries
    BY ChainedType
  <2>3. TypeOK'
    BY <1>0, <1>3, <2>1, <2>2 DEF ChainTenantRun, TypeOK
  <2> QED
    BY <1>3, <2>3 DEF ChainTenantRun, TInv, UniqueIds
<1>4. ASSUME NEW w \in Workers, Commit(w) PROVE TInv'
  <2>1. TypeOK'
    BY <1>0, <1>4 DEF Commit, EndDrain, TypeOK
  <2> QED
    BY <1>4, <2>1 DEF Commit, TInv, UniqueIds
<1>5. ASSUME NEW w \in Workers, DrainFault(w) PROVE TInv'
  <2>1. TypeOK'
    BY <1>0, <1>5 DEF DrainFault, EndDrain, TypeOK
  <2> QED
    BY <1>5, <2>1 DEF DrainFault, TInv, UniqueIds
<1>6. ASSUME NEW w \in Workers, Disconnect(w) PROVE TInv'
  <2>1. [rows |-> claimed[w], entries |-> IF pc[w] = "commit" THEN out[w] ELSE {}]
            \in [rows : SUBSET Rows, entries : SUBSET Entries]
    BY <1>0 DEF TypeOK
  <2>2. TypeOK'
    BY <1>0, <1>6, <2>1 DEF Disconnect, EndDrain, TypeOK
  <2> QED
    BY <1>6, <2>2 DEF Disconnect, TInv, UniqueIds
<1>7. ASSUME NEW x \in lost, Settle(x) PROVE TInv'
  <2>1. x.entries \subseteq Entries
    BY <1>0 DEF TypeOK
  <2>2. TypeOK'
    BY <1>0, <1>7, <2>1 DEF Settle, TypeOK
  <2> QED
    BY <1>7, <2>2 DEF Settle, TInv, UniqueIds
<1>8. CASE UNCHANGED vars
  BY <1>8 DEF vars, TInv, TypeOK, UniqueIds
<1> QED
  BY <1>1, <1>2, <1>3, <1>4, <1>5, <1>6, <1>7, <1>8 DEF Next, Audit, Drain

\* The variables have their types; in particular every prev_hash is the hash of a row or
\* GenesisHash, which is what latestAuditHash and chainTenantRun compute.
THEOREM AuditTypeCorrect == Spec => []TypeOK
<1>1. Init => IInv /\ TInv
  BY FS_EmptySet DEF Init, IInv, DrainInv, LockInv, SourceInv, RowsConserved, OncePerRow,
                     TInv, TypeOK, UniqueIds
<1>2. TInv => TypeOK
  BY DEF TInv
<1> QED
  BY <1>1, <1>2, NextIInv, NextTInv, PTL DEF Spec

\* The link of e ends in S, at a row of the same tenant, or at the start of the chain.
Linked(e, S) ==
    \/ e.prev = Genesis
    \/ \E p \in S : p.row.id = e.prev /\ p.row.tenant = e.row.tenant /\ p.row # e.row

\* An uncommitted entry may link to another one of its own transaction.
LinkInv ==
    /\ \A e \in log : Linked(e, log)
    /\ \A w \in Workers : \A e \in out[w] : Linked(e, log \cup out[w])
    /\ \A x \in lost : \A e \in x.entries : Linked(e, log \cup x.entries)

\* Links are not broken by more entries.
LEMMA LinkedMore ==
    ASSUME NEW e, NEW S, NEW T, Linked(e, S), S \subseteq T
    PROVE  Linked(e, T)
BY DEF Linked

LEMMA NextLinkInv == IInv /\ TInv /\ LinkInv /\ [Next]_vars => LinkInv'
<1> SUFFICES ASSUME IInv, TInv, LinkInv, [Next]_vars PROVE LinkInv'
  OBVIOUS
<1>0. /\ \A w \in Workers : out[w] \subseteq Entries
      /\ out = [w \in Workers |-> out[w]]
  BY DEF TInv, TypeOK, IInv, DrainInv
<1>1. ASSUME NEW r \in Rows, EnqueueAudit(r) PROVE LinkInv'
  BY <1>1 DEF EnqueueAudit, LinkInv, Linked
<1>2. ASSUME NEW w \in Workers, Claim(w) PROVE LinkInv'
  BY <1>2 DEF Claim, LinkInv, Linked
<1>3. ASSUME NEW w \in Workers, ChainTenantRun(w) PROVE LinkInv'
  <2>1. PICK t \in Tenants :
          LET run == {r \in Remaining(w) : r.tenant = t} IN
          out' = [out EXCEPT ![w] = @ \cup Chained(run, LatestAuditHash(t))]
    BY <1>3 DEF ChainTenantRun
  <2> DEFINE run == {r \in Remaining(w) : r.tenant = t}
             new == Chained(run, LatestAuditHash(t))
  <2>2. run \subseteq claimed[w] /\ \A r \in run : r.tenant = t
    BY DEF Remaining
  <2>3. out' = [out EXCEPT ![w] = out[w] \cup new]
    BY <2>1
  <2>4. log' = log /\ lost' = lost
    BY <1>3 DEF ChainTenantRun
  <2>5. Covers(new, run)
    BY ChainedCovers
  <2> HIDE DEF run
  <2>6. ASSUME NEW e \in new PROVE Linked(e, log \cup (out[w] \cup new))
    <3>1. e.row \in run
      BY <2>2, ChainedLinks
    <3>2. \A p \in LogRows(t) : (\E x \in log : x.row = p) /\ p.tenant = t /\ p \notin run
      <4>1. LogRows(t) \cap run = {} /\ \A p \in LogRows(t) : p.tenant = t
        BY <2>2, RunFacts
      <4>2. \A p \in LogRows(t) : \E x \in log : x.row = p
        BY DEF LogRows
      <4> QED
        BY <4>1, <4>2
    <3>3. \A p \in run : (\E x \in new : x.row = p) /\ p.id \in Nat
      BY <2>2, <2>5, RunFacts, RowTypes DEF Covers
    <3>4. CASE e.prev = Genesis
      BY <3>4 DEF Linked
    <3>5. CASE \E p \in LogRows(t) : e.prev = p.id
      BY <2>2, <3>1, <3>2, <3>5 DEF Linked
    <3>6. CASE \E p \in run : p.id < e.row.id /\ e.prev = p.id
      <4>1. PICK p \in run : p.id < e.row.id /\ e.prev = p.id
        BY <3>6
      <4>2. p # e.row /\ p.tenant = e.row.tenant
        BY <2>2, <3>1, <3>3, <4>1
      <4>3. PICK x \in new : x.row = p
        BY <3>3
      <4> QED
        BY <4>1, <4>2, <4>3 DEF Linked
    <3> QED
      BY <2>2, <3>4, <3>5, <3>6, ChainedLinks
  <2> HIDE DEF new
  <2>7. \A v \in Workers : out'[v] = IF v = w THEN out[w] \cup new ELSE out[v]
    BY <1>0, <2>3
  <2>8. ASSUME NEW v \in Workers, NEW e \in out'[v] PROVE Linked(e, log \cup out'[v])
    <3>1. CASE e \in out[v]
      <4>1. Linked(e, log \cup out[v]) /\ log \cup out[v] \subseteq log \cup out'[v]
        BY <2>7, <3>1 DEF LinkInv
      <4> QED
        BY <4>1, LinkedMore
    <3>2. CASE v = w /\ e \in new
      BY <2>6, <2>7, <3>2
    <3> QED
      BY <2>7, <3>1, <3>2
  <2> QED
    BY <2>4, <2>8 DEF LinkInv, Linked
<1>4. ASSUME NEW S, log' = log \cup S, \A e \in S : Linked(e, log \cup S),
             \A w \in Workers : out'[w] = out[w] \/ out'[w] = {},
             \A x \in lost' : x \in lost \/ (\E w \in Workers : x.entries \in {out[w], {}})
      PROVE  LinkInv'
  <2>1. \A e \in log' : Linked(e, log')
    BY <1>4, LinkedMore DEF LinkInv
  <2>2. \A w \in Workers : \A e \in out'[w] : Linked(e, log' \cup out'[w])
    <3> SUFFICES ASSUME NEW w \in Workers, NEW e \in out'[w] PROVE Linked(e, log' \cup out'[w])
      OBVIOUS
    <3>1. Linked(e, log \cup out[w]) /\ log \cup out[w] \subseteq log' \cup out'[w]
      BY <1>4 DEF LinkInv
    <3> QED
      BY <3>1, LinkedMore
  <2>3. \A x \in lost' : \A e \in x.entries : Linked(e, log' \cup x.entries)
    <3> SUFFICES ASSUME NEW x \in lost', NEW e \in x.entries PROVE Linked(e, log' \cup x.entries)
      OBVIOUS
    <3>1. Linked(e, log \cup x.entries) /\ log \cup x.entries \subseteq log' \cup x.entries
      BY <1>4 DEF LinkInv
    <3> QED
      BY <3>1, LinkedMore
  <2> QED
    BY <2>1, <2>2, <2>3 DEF LinkInv, Linked
<1>5. ASSUME NEW w \in Workers, EndDrain(w)
      PROVE  \A v \in Workers : out'[v] = out[v] \/ out'[v] = {}
  BY <1>0, <1>5 DEF EndDrain
<1>6. ASSUME NEW w \in Workers, Commit(w) PROVE LinkInv'
  BY <1>4, <1>5, <1>6 DEF Commit, LinkInv
<1>7. ASSUME NEW w \in Workers, DrainFault(w) PROVE LinkInv'
  <2>1. log' = log \cup {} /\ lost' = lost /\ \A v \in Workers : out'[v] = out[v] \/ out'[v] = {}
    BY <1>5, <1>7 DEF DrainFault
  <2> QED
    BY <1>4, <2>1
<1>8. ASSUME NEW w \in Workers, Disconnect(w) PROVE LinkInv'
  <2>1. log' = log \cup {} /\ \A v \in Workers : out'[v] = out[v] \/ out'[v] = {}
    BY <1>5, <1>8 DEF Disconnect
  <2>2. \A x \in lost' : x \in lost \/ x.entries \in {out[w], {}}
    BY <1>8 DEF Disconnect
  <2> QED
    BY <1>4, <2>1, <2>2
<1>9. ASSUME NEW x \in lost, Settle(x) PROVE LinkInv'
  <2>1. CASE log' = log
    <3>1. /\ log' = log \cup {}
          /\ \A w \in Workers : out'[w] = out[w] \/ out'[w] = {}
          /\ \A y \in lost' : y \in lost \/ (\E w \in Workers : y.entries \in {out[w], {}})
      BY <1>9, <2>1 DEF Settle
    <3> QED
      BY <1>4, <3>1
  <2>2. CASE log' = log \cup x.entries
    BY <1>4, <1>9, <2>2 DEF Settle, LinkInv
  <2> QED
    BY <1>9, <2>1, <2>2 DEF Settle
<1>10. CASE UNCHANGED vars
  BY <1>10 DEF vars, LinkInv, Linked
<1> QED
  BY <1>1, <1>2, <1>3, <1>6, <1>7, <1>8, <1>9, <1>10 DEF Next, Audit, Drain

\* Every prev_hash in audit_log is GenesisHash or the hash of another audited row of the
\* same tenant, however drains interleave, fail or commit unseen.
THEOREM AuditLinksAreSound == Spec => []LinksAreSound
<1>1. Init => IInv /\ TInv /\ LinkInv
  BY FS_EmptySet DEF Init, IInv, DrainInv, LockInv, SourceInv, RowsConserved, OncePerRow,
                     TInv, TypeOK, UniqueIds, LinkInv
<1>2. LinkInv => LinksAreSound
  BY DEF LinkInv, Linked, LinksAreSound
<1> QED
  BY <1>1, <1>2, NextIInv, NextTInv, NextLinkInv, PTL DEF Spec

-----------------------------------------------------------------------------
(* The order of a tenant's rows, and what it gives to the chain *)

\* A batch takes all of a tenant's rows that it inserts entries for.
CoverInv ==
    \A w \in Workers : \A e \in out[w] : \A r \in claimed[w] :
        r.tenant = e.row.tenant => \E d \in out[w] : d.row = r

\* occurred_at and id order the rows of t alike.
OneOrder(t) ==
    \A q, r \in enqueued : q.tenant = t /\ r.tenant = t => (Later(r, q) <=> r.id > q.id)

\* One open transaction at most has rows of t.
OneHolder(t) ==
    /\ \A v, w \in Workers : \A q \in claimed[v], r \in claimed[w] :
          q.tenant = t /\ r.tenant = t => v = w
    /\ \A w \in Workers, x \in lost : \A q \in claimed[w], r \in x.rows :
          ~(q.tenant = t /\ r.tenant = t)
    /\ \A x, y \in lost : \A q \in x.rows, r \in y.rows :
          q.tenant = t /\ r.tenant = t => x = y

\* Rows of t are taken, and audited, from the first to the last.
TakenFirst(t) ==
    /\ \A q \in Locked, r \in pending \ Locked : q.tenant = t /\ r.tenant = t => q.id < r.id
    /\ \A e \in log, r \in pending : e.row.tenant = t /\ r.tenant = t => e.row.id < r.id

\* e links to a row before it, and no row of its tenant in S lies between the two.
Follows(e, S) ==
    /\ e.prev \in Ids => e.prev < e.row.id
    /\ \A d \in S : d.row.tenant = e.row.tenant /\ d.row.id < e.row.id =>
          e.prev \in Ids /\ d.row.id <= e.prev

InSequence(t) ==
    /\ \A e \in log : e.row.tenant = t => Follows(e, log)
    /\ \A w \in Workers : \A e \in out[w] : e.row.tenant = t => Follows(e, log \cup out[w])
    /\ \A x \in lost : \A e \in x.entries : e.row.tenant = t => Follows(e, log \cup x.entries)

Orderly(t) == OneOrder(t) /\ OneHolder(t) /\ TakenFirst(t) /\ InSequence(t)

OrderInv == \A t \in Tenants \ disorder : Orderly(t)

LEMMA NextCoverInv == IInv /\ CoverInv /\ [Next]_vars => CoverInv'
<1> SUFFICES ASSUME IInv, CoverInv, [Next]_vars PROVE CoverInv'
  OBVIOUS
<1>0. /\ claimed = [w \in Workers |-> claimed[w]]
      /\ out = [w \in Workers |-> out[w]]
      /\ \A w \in Workers : pc[w] = "idle" => out[w] = {}
  BY DEF IInv, DrainInv
<1>1. ASSUME NEW w \in Workers, Claim(w) PROVE CoverInv'
  <2>1. out' = out /\ out[w] = {} /\ \A v \in Workers : v # w => claimed'[v] = claimed[v]
    BY <1>0, <1>1 DEF Claim
  <2> QED
    BY <2>1 DEF CoverInv
<1>2. ASSUME NEW w \in Workers, ChainTenantRun(w) PROVE CoverInv'
  <2>1. PICK t \in Tenants :
          out' = [out EXCEPT ![w] = @ \cup Chained({r \in Remaining(w) : r.tenant = t}, LatestAuditHash(t))]
    BY <1>2 DEF ChainTenantRun
  <2> DEFINE run == {r \in Remaining(w) : r.tenant = t}
             new == Chained(run, LatestAuditHash(t))
  <2>2. Covers(new, run)
    BY ChainedCovers
  <2>3. /\ \A r \in claimed[w] : r.tenant = t => r \in run \/ \E d \in out[w] : d.row = r
        /\ \A r \in run : r.tenant = t
    BY DEF Remaining
  <2>4. \A v \in Workers : out'[v] = IF v = w THEN out[w] \cup new ELSE out[v]
    BY <1>0, <2>1
  <2>5. claimed' = claimed
    BY <1>2 DEF ChainTenantRun
  <2> HIDE DEF run, new
  <2>6. \A e \in out[w] \cup new : \A r \in claimed[w] :
            r.tenant = e.row.tenant => \E d \in out[w] \cup new : d.row = r
    BY <2>2, <2>3 DEF Covers, CoverInv
  <2> QED
    BY <2>4, <2>5, <2>6 DEF CoverInv
<1>3. ASSUME NEW w \in Workers, EndDrain(w) PROVE CoverInv'
  <2>1. \A v \in Workers : \/ v = w /\ out'[v] = {}
                           \/ out'[v] = out[v] /\ claimed'[v] = claimed[v]
    BY <1>0, <1>3 DEF EndDrain
  <2> QED
    BY <2>1 DEF CoverInv
<1>4. CASE out' = out /\ claimed' = claimed
  BY <1>4 DEF CoverInv
<1> QED
  BY <1>1, <1>2, <1>3, <1>4
  DEF Next, Audit, Drain, Commit, DrainFault, Disconnect, Settle, EnqueueAudit, vars

\* A row that appears keeps its tenant orderly or brings it into disorder.
LEMMA EnqueueOrder ==
    ASSUME IInv, TInv, NEW t \in Tenants, Orderly(t),
           NEW r \in Rows, EnqueueAudit(r), t \notin disorder'
    PROVE  Orderly(t)'
<1>1. Locked' = Locked
  BY DEF EnqueueAudit, Locked
<1>2. /\ enqueued' = enqueued \cup {r} /\ pending' = pending \cup {r}
      /\ log' = log /\ claimed' = claimed /\ out' = out /\ lost' = lost
      /\ \A q \in enqueued : q.id # r.id
  BY DEF EnqueueAudit
<1>3. r.tenant = t => ~OutOfOrder(r)
  BY DEF EnqueueAudit
<1>4. enqueued \subseteq Rows
  BY DEF TInv, TypeOK
<1>5. OneOrder(t)'
  <2>1. ASSUME NEW q \in enqueued, q.tenant = t, r.tenant = t
        PROVE  (Later(r, q) <=> r.id > q.id) /\ (Later(q, r) <=> q.id > r.id)
    <3>1. Later(r, q) = (r.id > q.id)
      BY <1>3, <2>1 DEF OutOfOrder
    <3>2. q.id # r.id /\ q.id \in Nat /\ r.id \in Nat /\ q.occ \in Nat /\ r.occ \in Nat
      BY <1>2, <1>4, RowTypes
    <3> QED
      BY <3>1, <3>2 DEF Later
  <2>2. ~Later(r, r) /\ ~(r.id > r.id)
    BY RowTypes DEF Later
  <2> QED
    BY <1>2, <2>1, <2>2 DEF OneOrder, Orderly, Later
<1>6. OneHolder(t)'
  BY <1>2 DEF OneHolder, Orderly
<1>7. ASSUME NEW q \in enqueued, q \notin pending \ Locked, q.tenant = t, r.tenant = t
      PROVE  q.id < r.id
  <2>1. Later(r, q) /\ Later(r, q) = (r.id > q.id)
    BY <1>3, <1>7 DEF OutOfOrder
  <2>2. q.id \in Nat /\ r.id \in Nat
    BY <1>4, RowTypes
  <2> QED
    BY <2>1, <2>2
<1>8. TakenFirst(t)'
  <2>1. Locked \subseteq enqueued
    BY DEF IInv, LockInv, SourceInv, Locked
  <2>2. \A e \in log : e.row \in enqueued /\ e.row \notin pending
    BY DEF IInv, SourceInv, RowsConserved
  <2> QED
    BY <1>1, <1>2, <1>7, <2>1, <2>2 DEF TakenFirst, Orderly
<1>9. InSequence(t)'
  BY <1>2 DEF InSequence, Orderly, Follows
<1> QED
  BY <1>5, <1>6, <1>8, <1>9 DEF Orderly

\* claimPendingBatch takes the rows of a tenant from the first on.
LEMMA ClaimOrder ==
    ASSUME IInv, TInv, NEW t \in Tenants, Orderly(t),
           NEW w \in Workers, Claim(w), t \notin disorder'
    PROVE  Orderly(t)'
<1> DEFINE free == pending \ Locked
           before(r) == {q \in free : Before(q, r)}
           rows == {r \in free : Cardinality(before(r)) < BatchSize}
<1>1. /\ claimed' = [claimed EXCEPT ![w] = rows]
      /\ disorder' = disorder \cup ({r.tenant : r \in rows} \cap {q.tenant : q \in Locked})
      /\ enqueued' = enqueued /\ pending' = pending /\ log' = log /\ out' = out /\ lost' = lost
  BY DEF Claim
<1>2. \A q \in rows, r \in Locked : ~(q.tenant = t /\ r.tenant = t)
  BY <1>1
<1>3. claimed[w] = {} /\ claimed = [v \in Workers |-> claimed[v]]
  BY DEF IInv, DrainInv, Claim
<1>4. \A v \in Workers : claimed'[v] = IF v = w THEN rows ELSE claimed[v]
  BY <1>1, <1>3
<1>5. ASSUME NEW q \in rows, NEW r \in free \ rows, q.tenant = t, r.tenant = t
      PROVE  q.id < r.id
  <2>1. /\ free \subseteq enqueued /\ IsFiniteSet(free)
        /\ \A x \in free : x.id \in Nat /\ x.tenant \in Nat
        /\ UniqueIds(free)
    <3>1. free \subseteq enqueued /\ enqueued \subseteq Rows
      BY DEF IInv, SourceInv, TInv, TypeOK
    <3> QED
      BY <3>1, RowTypes, FS_Subset DEF TInv, UniqueIds
  <2>2. SUFFICES ASSUME r.id < q.id PROVE FALSE
    <3>1. q.id # r.id /\ q.id \in Nat /\ r.id \in Nat
      BY <2>1 DEF UniqueIds
    <3> QED
      BY <2>2, <3>1
  <2>3. before(r) \subseteq before(q)
    <3> SUFFICES ASSUME NEW x \in free, Before(x, r) PROVE Before(x, q)
      OBVIOUS
    <3>1. x.id \in Nat /\ x.tenant \in Nat /\ q.id \in Nat /\ r.id \in Nat /\ r.tenant = q.tenant
      BY <1>5, <2>1
    <3> QED
      BY <2>2, <3>1 DEF Before
  <2>4. IsFiniteSet(before(q)) /\ IsFiniteSet(before(r))
    BY <2>1, FS_Subset
  <2>5. Cardinality(before(r)) <= Cardinality(before(q))
    BY <2>3, <2>4, FS_Subset
  <2>6. Cardinality(before(q)) \in Nat /\ Cardinality(before(r)) \in Nat /\ BatchSize \in Nat
    BY <2>4, FS_CardinalityType, AuditAssumption
  <2>7. Cardinality(before(q)) < BatchSize /\ ~(Cardinality(before(r)) < BatchSize)
    BY <1>5
  <2> HIDE DEF before
  <2> QED
    BY <2>5, <2>6, <2>7
<1>6. rows \subseteq free
  OBVIOUS
<1> HIDE DEF rows
<1>7. Locked' = Locked \cup rows
  BY <1>1, <1>3, <1>4 DEF Locked
<1>8. TakenFirst(t)'
  BY <1>1, <1>2, <1>5, <1>6, <1>7 DEF TakenFirst, Orderly
<1>9. OneHolder(t)'
  <2>1. \A v \in Workers : claimed[v] \subseteq Locked
    BY DEF Locked
  <2>2. \A x \in lost : x.rows \subseteq Locked
    BY DEF Locked
  <2> QED
    BY <1>1, <1>2, <1>4, <2>1, <2>2 DEF OneHolder, Orderly
<1>10. OneOrder(t)' /\ InSequence(t)'
  BY <1>1 DEF OneOrder, InSequence, Orderly, Follows, Later
<1> QED
  BY <1>8, <1>9, <1>10 DEF Orderly

\* chainTenantRun appends the run to the chain: the tenant's rows in the log are all before
\* it, and the head it reads is the last of them.
LEMMA ChainOrder ==
    ASSUME IInv, TInv, CoverInv, NEW u \in Tenants, Orderly(u),
           NEW w \in Workers, ChainTenantRun(w)
    PROVE  Orderly(u)'
<1>1. PICK t \in Tenants :
          out' = [out EXCEPT ![w] = @ \cup Chained({r \in Remaining(w) : r.tenant = t}, LatestAuditHash(t))]
  BY DEF ChainTenantRun
<1> DEFINE run == {r \in Remaining(w) : r.tenant = t}
           new == Chained(run, LatestAuditHash(t))
<1>2. enqueued' = enqueued /\ pending' = pending /\ log' = log /\ claimed' = claimed /\ lost' = lost
  BY DEF ChainTenantRun
<1>3. /\ run \subseteq claimed[w]
      /\ \A r \in run : r.tenant = t /\ \A d \in out[w] : d.row # r
  BY DEF Remaining
<1>4. out = [v \in Workers |-> out[v]] /\ \A e \in out[w] : e.row \in claimed[w]
  BY DEF IInv, DrainInv
<1>5. \A v \in Workers : out'[v] = IF v = w THEN out[w] \cup new ELSE out[v]
  BY <1>1, <1>4
<1>6. OneOrder(u)' /\ OneHolder(u)' /\ TakenFirst(u)'
  BY <1>2 DEF OneOrder, OneHolder, TakenFirst, Orderly, Later, Locked
<1> HIDE DEF run
<1>7. ASSUME NEW e \in new, NEW d \in out[w], d.row.tenant = e.row.tenant PROVE FALSE
  <2>1. e.row \in run
    BY <1>3, ChainedLinks
  <2> QED
    BY <1>3, <1>7, <2>1 DEF CoverInv
<1>8. ASSUME NEW e \in new, e.row.tenant = u PROVE Follows(e, log \cup (out[w] \cup new))
  <2>0. u = t /\ e.row \in run /\ run \subseteq pending /\ run \subseteq Rows /\ log \subseteq Entries
    BY <1>3, <1>8, ChainedLinks, RunFacts DEF IInv, LockInv, TInv, TypeOK
  <2>1. ASSUME NEW d \in log, d.row.tenant = t
        PROVE  d.row \in LogRows(t) /\ d.row \in Rows /\ \A r \in run : d.row.id < r.id
    BY <1>3, <2>0, <2>1 DEF Orderly, TakenFirst, LogRows, Entries
  <2>2. \A r \in run : r.id \in Nat /\ r.id \in Ids
    BY <2>0, RowTypes
  <2>3. \A d \in new : d.row \in run
    BY <1>3, ChainedLinks
  <2>4. CASE e.prev = Genesis /\ LogRows(t) = {} /\ \A q \in run : ~(q.id < e.row.id)
    <3>1. e.prev \notin Ids
      BY <2>4, AuditAssumption
    <3>2. \A d \in log \cup (out[w] \cup new) :
              ~(d.row.tenant = e.row.tenant /\ d.row.id < e.row.id)
      BY <1>7, <1>8, <2>0, <2>1, <2>3, <2>4
    <3> QED
      BY <3>1, <3>2 DEF Follows
  <2>5. CASE /\ \E p \in LogRows(t) : e.prev = p.id /\ \A q \in LogRows(t) \ {p} : Later(p, q)
             /\ \A q \in run : ~(q.id < e.row.id)
    <3>1. PICK p \in LogRows(t) : e.prev = p.id /\ \A q \in LogRows(t) \ {p} : Later(p, q)
      BY <2>5
    <3>2. PICK x \in log : x.row = p /\ p.tenant = t
      BY DEF LogRows
    <3>3. p \in Rows /\ p.id \in Ids /\ p.id \in Nat /\ p.id < e.row.id
      BY <2>0, <2>1, <3>2, RowTypes
    <3>4. ASSUME NEW d \in log, d.row.tenant = t PROVE d.row.id <= p.id
      <4>1. d.row.id \in Nat
        BY <2>1, <3>4, RowTypes
      <4>2. CASE d.row = p
        BY <3>3, <4>2
      <4>3. CASE d.row # p
        <5>1. Later(p, d.row)
          BY <2>1, <3>1, <3>4, <4>3
        <5>2. p \in enqueued /\ d.row \in enqueued
          BY <3>2 DEF IInv, SourceInv
        <5>3. p.id > d.row.id
          BY <2>0, <3>2, <3>4, <5>1, <5>2 DEF Orderly, OneOrder
        <5> QED
          BY <3>3, <4>1, <5>3
      <4> QED
        BY <4>2, <4>3
    <3>5. \A d \in log \cup (out[w] \cup new) :
              d.row.tenant = e.row.tenant /\ d.row.id < e.row.id => d \in log
      BY <1>7, <2>3, <2>5
    <3> QED
      BY <1>8, <2>0, <3>1, <3>3, <3>4, <3>5 DEF Follows
  <2>6. CASE \E p \in run : /\ p.id < e.row.id
                            /\ e.prev = p.id
                            /\ \A q \in run : q.id < e.row.id => q.id <= p.id
    <3>1. PICK p \in run : /\ p.id < e.row.id
                           /\ e.prev = p.id
                           /\ \A q \in run : q.id < e.row.id => q.id <= p.id
      BY <2>6
    <3>2. \A d \in log : d.row.tenant = t => d.row.id <= p.id
      BY <2>1, <2>2, RowTypes
    <3>3. \A d \in new : d.row.id < e.row.id => d.row.id <= p.id
      BY <2>3, <3>1
    <3> QED
      BY <1>7, <1>8, <2>0, <2>2, <3>1, <3>2, <3>3 DEF Follows
  <2> HIDE DEF new
  <2>7. e \in Chained(run, LatestAuditHash(t))
    BY DEF new
  <2> QED
    BY <1>3, <2>4, <2>5, <2>6, <2>7, ChainedLinks
<1>9. ASSUME NEW e \in out[w], e.row.tenant = u PROVE Follows(e, log \cup (out[w] \cup new))
  <2>1. Follows(e, log \cup out[w])
    BY <1>9 DEF Orderly, InSequence
  <2>2. \A d \in new : d.row.tenant # e.row.tenant
    BY <1>7
  <2> HIDE DEF new
  <2> QED
    BY <2>1, <2>2 DEF Follows
<1> HIDE DEF new
<1>10. InSequence(u)'
  <2>1. \A v \in Workers : \A e \in out'[v] : e.row.tenant = u => Follows(e, log \cup out'[v])
    BY <1>5, <1>8, <1>9 DEF Orderly, InSequence
  <2> QED
    BY <1>2, <2>1 DEF Orderly, InSequence, Follows
<1> QED
  BY <1>6, <1>10 DEF Orderly

\* A transaction with the rows R and the entries E ends, committed or rolled back.
LEMMA EndOrder ==
    ASSUME IInv, TInv, NEW t \in Tenants, Orderly(t), NEW R, NEW E,
           Locked' = Locked \ R, R \subseteq Locked, enqueued' = enqueued,
           \/ pending' = pending /\ log' = log
           \/ Covers(E, R) /\ pending' = pending \ R /\ log' = log \cup E,
           \A q \in R, r \in Locked \ R : ~(q.tenant = t /\ r.tenant = t),
           \A w \in Workers :
              \/ claimed'[w] = {} /\ out'[w] = {}
              \/ claimed'[w] = claimed[w] /\ out'[w] = out[w] /\ claimed[w] \cap R = {},
           \A x \in lost' : x \in lost /\ x.rows \cap R = {},
           \A e \in E : e.row.tenant = t => Follows(e, log \cup E)
    PROVE  Orderly(t)'
<1>0. OneOrder(t) /\ OneHolder(t) /\ TakenFirst(t) /\ InSequence(t)
  BY DEF Orderly
<1>1. OneOrder(t)'
  BY <1>0 DEF OneOrder, Later
<1>2. OneHolder(t)'
  BY <1>0 DEF OneHolder
<1>3. R \subseteq pending
  BY DEF IInv, LockInv, Locked
<1>4. TakenFirst(t)'
  BY <1>0, <1>3 DEF TakenFirst, Covers
<1>5. CASE log' = log
  <2>1. InSequence(t)'
    BY <1>0, <1>5 DEF InSequence, Follows
  <2> QED
    BY <1>1, <1>2, <1>4, <2>1 DEF Orderly
<1>6. CASE Covers(E, R) /\ log' = log \cup E
  <2>1. \A d \in E : d.row \in R /\ d.row \in pending
    BY <1>3, <1>6 DEF Covers
  <2>2. ASSUME NEW e \in log, e.row.tenant = t PROVE Follows(e, log')
    <3>1. \A d \in E : d.row.tenant = t => ~(d.row.id < e.row.id)
      <4>1. \A d \in E : d.row \in Rows /\ e.row \in Rows
        BY <2>1 DEF TInv, TypeOK, Entries
      <4> QED
        BY <1>0, <2>1, <2>2, <4>1, RowTypes DEF TakenFirst
    <3> QED
      BY <1>0, <1>6, <2>2, <3>1 DEF InSequence, Follows
  <2>3. ASSUME NEW S, NEW e \in S, e.row.tenant = t, e.row \in Locked \ R, Follows(e, log \cup S)
        PROVE  Follows(e, log' \cup S)
    BY <1>6, <2>1, <2>3 DEF Follows
  <2>4. \A w \in Workers : \A e \in out'[w] : e.row.tenant = t => Follows(e, log' \cup out'[w])
    <3> SUFFICES ASSUME NEW w \in Workers, NEW e \in out'[w], e.row.tenant = t
                 PROVE  Follows(e, log' \cup out'[w])
      OBVIOUS
    <3>1. e \in out[w] /\ out'[w] = out[w] /\ claimed[w] \cap R = {}
      OBVIOUS
    <3>2. e.row \in claimed[w] /\ claimed[w] \subseteq Locked
      BY <3>1 DEF IInv, DrainInv, Locked
    <3> QED
      BY <1>0, <2>3, <3>1, <3>2 DEF InSequence
  <2>5. \A x \in lost' : \A e \in x.entries : e.row.tenant = t => Follows(e, log' \cup x.entries)
    <3> SUFFICES ASSUME NEW x \in lost', NEW e \in x.entries, e.row.tenant = t
                 PROVE  Follows(e, log' \cup x.entries)
      OBVIOUS
    <3>1. e.row \in x.rows /\ x.rows \subseteq Locked
      BY DEF IInv, DrainInv, Covers, Locked
    <3> QED
      BY <1>0, <2>3, <3>1 DEF InSequence
  <2>6. \A e \in log' : e.row.tenant = t => Follows(e, log')
    BY <1>6, <2>2
  <2>7. InSequence(t)'
    BY <2>4, <2>5, <2>6 DEF InSequence, Follows
  <2> QED
    BY <1>1, <1>2, <1>4, <2>7 DEF Orderly
<1> QED
  BY <1>5, <1>6

LEMMA NextOrderInv == IInv /\ TInv /\ CoverInv /\ OrderInv /\ [Next]_vars => OrderInv'
<1> SUFFICES ASSUME IInv, TInv, CoverInv, OrderInv, [Next]_vars, NEW t \in Tenants, t \notin disorder'
             PROVE  Orderly(t)'
  BY DEF OrderInv
<1>0. /\ claimed = [v \in Workers |-> claimed[v]] /\ out = [v \in Workers |-> out[v]]
      /\ \A v, w \in Workers : v # w => claimed[v] \cap claimed[w] = {}
      /\ \A w \in Workers, x \in lost : claimed[w] \cap x.rows = {}
      /\ \A x, y \in lost : x # y => x.rows \cap y.rows = {}
  BY DEF IInv, DrainInv, LockInv
<1>1. disorder \subseteq disorder'
  BY DEF Next, Audit, Drain, EnqueueAudit, Claim, ChainTenantRun, Commit, DrainFault, Disconnect, Settle, vars
<1>2. Orderly(t)
  BY <1>1 DEF OrderInv
<1>3. OneHolder(t) /\ InSequence(t)
  BY <1>2 DEF Orderly
<1>4. ASSUME NEW w \in Workers, EndDrain(w)
      PROVE  \A v \in Workers :
                \/ v = w /\ claimed'[v] = {} /\ out'[v] = {}
                \/ v # w /\ claimed'[v] = claimed[v] /\ out'[v] = out[v]
  BY <1>0, <1>4 DEF EndDrain
<1>5. ASSUME NEW w \in Workers, EndDrain(w), lost' = lost
      PROVE  /\ Locked' = Locked \ claimed[w] /\ claimed[w] \subseteq Locked
             /\ \A q \in claimed[w], r \in Locked \ claimed[w] : ~(q.tenant = t /\ r.tenant = t)
  <2>1. Locked' = Locked \ claimed[w] /\ claimed[w] \subseteq Locked
    BY <1>0, <1>4, <1>5 DEF Locked
  <2>2. \A q \in claimed[w], r \in Locked \ claimed[w] : ~(q.tenant = t /\ r.tenant = t)
    BY <1>3 DEF OneHolder, Locked
  <2> QED
    BY <2>1, <2>2
<1>6. ASSUME NEW w \in Workers, Commit(w) PROVE Orderly(t)'
  <2>1. EndDrain(w) /\ lost' = lost /\ enqueued' = enqueued
    BY <1>6 DEF Commit
  <2>2. Covers(out[w], claimed[w]) /\ pending' = pending \ claimed[w] /\ log' = log \cup out[w]
    BY <1>6 DEF Commit, IInv, DrainInv
  <2>3. \A e \in out[w] : e.row.tenant = t => Follows(e, log \cup out[w])
    BY <1>3 DEF InSequence
  <2>4. \A v \in Workers :
              \/ claimed'[v] = {} /\ out'[v] = {}
              \/ claimed'[v] = claimed[v] /\ out'[v] = out[v] /\ claimed[v] \cap claimed[w] = {}
    BY <1>0, <1>4, <2>1
  <2>5. \A x \in lost' : x \in lost /\ x.rows \cap claimed[w] = {}
    BY <1>0, <2>1
  <2> QED
    BY <1>2, <1>5, <2>1, <2>2, <2>3, <2>4, <2>5, EndOrder
<1>7. ASSUME NEW w \in Workers, DrainFault(w) PROVE Orderly(t)'
  <2>1. EndDrain(w) /\ lost' = lost /\ enqueued' = enqueued /\ pending' = pending /\ log' = log
    BY <1>7 DEF DrainFault
  <2>2. \A v \in Workers :
              \/ claimed'[v] = {} /\ out'[v] = {}
              \/ claimed'[v] = claimed[v] /\ out'[v] = out[v] /\ claimed[v] \cap claimed[w] = {}
    BY <1>0, <1>4, <2>1
  <2>3. \A x \in lost' : x \in lost /\ x.rows \cap claimed[w] = {}
    BY <1>0, <2>1
  <2>4. \A e \in {} : e.row.tenant = t => Follows(e, log \cup {})
    OBVIOUS
  <2> QED
    BY <1>2, <1>5, <2>1, <2>2, <2>3, <2>4, EndOrder
<1>8. ASSUME NEW x \in lost, Settle(x) PROVE Orderly(t)'
  <2>1. /\ lost' = lost \ {x} /\ claimed' = claimed /\ out' = out /\ enqueued' = enqueued
        /\ \A y \in lost' : y \in lost /\ y.rows \cap x.rows = {}
        /\ \A v \in Workers : claimed[v] \cap x.rows = {}
    BY <1>0, <1>8 DEF Settle
  <2>2. Locked' = Locked \ x.rows /\ x.rows \subseteq Locked
    BY <2>1 DEF Locked
  <2>3. \A q \in x.rows, r \in Locked \ x.rows : ~(q.tenant = t /\ r.tenant = t)
    BY <1>3 DEF OneHolder, Locked
  <2>4. \A e \in x.entries : e.row.tenant = t => Follows(e, log \cup x.entries)
    BY <1>3 DEF InSequence
  <2>5. \/ pending' = pending /\ log' = log
        \/ Covers(x.entries, x.rows) /\ pending' = pending \ x.rows /\ log' = log \cup x.entries
    BY <1>8 DEF Settle, IInv, DrainInv
  <2> QED
    BY <1>2, <2>1, <2>2, <2>3, <2>4, <2>5, EndOrder
<1>9. ASSUME NEW w \in Workers, Disconnect(w) PROVE Orderly(t)'
  <2> DEFINE gone == [rows |-> claimed[w],
                      entries |-> IF pc[w] = "commit" THEN out[w] ELSE {}]
  <2>1. gone.rows = claimed[w] /\ (gone.entries = out[w] \/ gone.entries = {})
    OBVIOUS
  <2>2. /\ lost' = lost \cup {gone} /\ EndDrain(w)
        /\ enqueued' = enqueued /\ pending' = pending /\ log' = log
    BY <1>9 DEF Disconnect
  <2> HIDE DEF gone
  <2>3. Locked' = Locked
    BY <1>0, <1>4, <2>1, <2>2 DEF Locked
  <2>4. OneOrder(t)' /\ TakenFirst(t)'
    BY <1>2, <2>2, <2>3 DEF Orderly, OneOrder, TakenFirst, Later
  <2>5. OneHolder(t)'
    BY <1>3, <1>4, <2>1, <2>2 DEF OneHolder
  <2>6. InSequence(t)'
    <3>1. \A v \in Workers : \A e \in out'[v] : e.row.tenant = t => Follows(e, log \cup out'[v])
      BY <1>3, <1>4, <2>2 DEF InSequence
    <3>2. \A x \in lost' : \A e \in x.entries : e.row.tenant = t => Follows(e, log \cup x.entries)
      BY <1>3, <2>1, <2>2 DEF InSequence
    <3> QED
      BY <1>3, <2>2, <3>1, <3>2 DEF InSequence, Follows
  <2> QED
    BY <2>4, <2>5, <2>6 DEF Orderly
<1>10. CASE UNCHANGED vars
  <2>1. Locked' = Locked
    BY <1>10 DEF vars, Locked
  <2> QED
    BY <1>2, <1>10, <2>1 DEF vars, Orderly, OneOrder, OneHolder, TakenFirst, InSequence, Follows, Later
<1> QED
  BY <1>2, <1>6, <1>7, <1>8, <1>9, <1>10, EnqueueOrder, ClaimOrder, ChainOrder DEF Next, Audit, Drain

\* A tenant's chain has a fork only if a row of the tenant appeared out of order or two
\* drains held rows of the tenant at once: batch limits, failed drains, lost COMMIT answers
\* and the drains of other tenants never make one.
THEOREM AuditForksHaveACause == Spec => []ForksHaveACause
<1>1. Init => IInv /\ TInv /\ CoverInv /\ OrderInv
  <2>1. Init => IInv /\ TInv /\ CoverInv
    BY FS_EmptySet DEF Init, IInv, DrainInv, LockInv, SourceInv, RowsConserved, OncePerRow,
                       TInv, TypeOK, UniqueIds, CoverInv
  <2>2. Init => OrderInv
    BY DEF Init, OrderInv, Orderly, OneOrder, OneHolder, TakenFirst, InSequence
  <2> QED
    BY <2>1, <2>2
<1>2. IInv /\ TInv /\ OrderInv => ForksHaveACause
  <2> SUFFICES ASSUME IInv, TInv, OrderInv, NEW d \in log, NEW e \in log,
                      d.row.tenant = e.row.tenant, d.prev = e.prev, d.row.tenant \notin disorder, d # e
               PROVE  FALSE
    BY DEF ForksHaveACause
  <2>1. /\ d.row \in Rows /\ e.row \in Rows /\ d.row.id \in Nat /\ e.row.id \in Nat
        /\ d.row.tenant \in Tenants
    BY RowTypes DEF TInv, TypeOK, Entries
  <2>2. d.row.id # e.row.id
    BY DEF IInv, RowsConserved, SourceInv, TInv, UniqueIds
  <2>3. Follows(d, log) /\ Follows(e, log)
    BY <2>1 DEF OrderInv, Orderly, InSequence
  <2>4. \A i \in Ids : i \in Nat
    BY AuditAssumption
  <2>5. CASE d.row.id < e.row.id
    BY <2>1, <2>3, <2>4, <2>5 DEF Follows
  <2>6. CASE e.row.id < d.row.id
    BY <2>1, <2>3, <2>4, <2>6 DEF Follows
  <2> QED
    BY <2>1, <2>2, <2>5, <2>6
<1> QED
  BY <1>1, <1>2, NextIInv, NextTInv, NextCoverInv, NextOrderInv, PTL DEF Spec
=============================================================================
