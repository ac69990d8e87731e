--------------------------- MODULE TransferProofs ---------------------------
(***************************************************************************)
(* Transfer keeps its invariants and implements IdempotentLedger, for any  *)
(* number of requests, tenants, keys, bodies and attempts.                 *)
(***************************************************************************)
EXTENDS Transfer, TLAPS

\* Locations at which a request has not got as far as its COMMIT's answer.
Working == {"idle", "setnx", "get", "allow", "insert", "commit", "backoff", "replay"}

\* A request has an input from the moment it leaves "idle", which a request with a
\* transaction in doubt has done.
InputInv ==
    /\ \A r \in Requests : pc[r] # "idle" <=> input[r] # NoInput
    /\ \A r \in indoubt : pc[r] # "idle"

\* A request that is still working has had no effect and no result.
WorkingInv ==
    \A r \in Requests : pc[r] \in Working =>
        /\ r \notin indoubt
        /\ \A row \in ledger : row.tx # r
        /\ result[r] = "none"
        /\ resultTx[r] = NoTx

\* An effect, or one still in doubt, is compatible with what its request reports; a
\* request that goes on to SetState has something to report.
EffectInv ==
    /\ \A r \in Requests : pc[r] = "setstate" => result[r] # "none"
    /\ \A r \in indoubt : result[r] \in {"none", "fault"}
    /\ \A row \in ledger : result[row.tx] \in {"none", "fault", "fresh"}
    /\ \A r \in Requests : result[r] \notin {"fresh", "replayed"} => resultTx[r] = NoTx

\* A committed row carries the input of the request that wrote it.
RowInv == \A row \in ledger : row.input = input[row.tx] /\ input[row.tx] # NoInput

\* The UNIQUE index: its entries belong to one committed row or to one open transaction.
IndexInv ==
    /\ \A a, b \in ledger : IndexKey(a.input) = IndexKey(b.input) => a = b
    /\ \A r \in Holders : \A row \in ledger : IndexKey(row.input) # IndexKey(input[r])
    /\ \A r, o \in Holders : IndexKey(input[r]) = IndexKey(input[o]) => r = o

\* Every Redis record was written by a request of that key, possibly by a SETNX the request
\* is still waiting for, and FAILED by one that ended in an error.
RecordInv ==
    \A k \in Slots : redis[k] # NoRecord =>
        \E o \in Requests :
            /\ pc[o] # "idle"
            /\ ScopedKey(input[o]) = k
            /\ Fingerprint(input[o]) = redis[k].fp
            /\ redis[k].state = "FAILED" => result[o] \in Errors

IInv ==
    /\ TypeOK
    /\ InputInv
    /\ WorkingInv
    /\ EffectInv
    /\ RowInv
    /\ IndexInv
    /\ RecordInv
    /\ SuccessIsCommitted
    /\ CompletedIsCommitted
    /\ RefusalIsJustified

-----------------------------------------------------------------------------
(* Type correctness.  TypeOK alone is not inductive: the record a request writes has a
   fingerprint only because a request past "idle" has an input. *)

TypeInv == TypeOK /\ InputInv

LEMMA FingerprintType ==
    ASSUME NEW i \in Inputs
    PROVE  Fingerprint(i) \in Fingerprints /\ ScopedKey(i) \in Slots
BY DEF Inputs, Fingerprint, Fingerprints, ScopedKey, Slots

LEMMA InitType == Init => TypeInv
BY TransferAssumption DEF Init, TypeInv, TypeOK, InputInv, Locations, Results

\* A request past "idle" has a proper input.
LEMMA ProperInput ==
    ASSUME TypeInv, NEW r \in Requests, pc[r] # "idle"
    PROVE  input[r] \in Inputs
BY DEF TypeInv, TypeOK, InputInv

LEMMA ExecuteType ==
    ASSUME TypeInv, NEW r \in Requests, NEW i \in Inputs, Execute(r, i)
    PROVE  TypeInv'
BY TransferAssumption DEF TypeInv, TypeOK, InputInv, Execute, Return, Goto, Locations,
     Results, DefiniteErrors

LEMMA ProgressType ==
    ASSUME TypeInv, NEW r \in Requests, Progress(r)
    PROVE  TypeInv'
<1> USE DEF TypeInv, TypeOK, InputInv, Goto, Finish, Return, Locations, Results,
            DefiniteErrors
<1>1. CASE SetNX(r)
  <2>1. input[r] \in Inputs
    BY <1>1, ProperInput DEF SetNX
  <2>2. Started(r) \in Records
    BY <2>1, FingerprintType DEF Started, Records, RecordStates
  <2> QED
    BY <1>1, <2>2, ZenonT(40) DEF SetNX
<1>2. CASE Get(r)
  BY <1>2 DEF Get
<1>3. CASE Allow(r)
  BY <1>3 DEF Allow
<1>4. CASE Insert(r)
  BY <1>4 DEF Insert
<1>5. CASE Backoff(r)
  BY <1>5 DEF Backoff
<1>6. CASE Commit(r)
  <2>1. RowOf(r) \in Rows
    BY <1>6, ProperInput DEF Commit, RowOf, Rows
  <2> QED
    BY <1>6, <2>1 DEF Commit
<1>7. CASE Replay(r)
  <2>1. \A row \in Committed(r) : row.tx \in Requests
    BY DEF Committed, Rows
  <2> QED
    BY <1>7, <2>1 DEF Replay
<1>8. CASE SetState(r)
  <2>1. input[r] \in Inputs
    BY <1>8, ProperInput DEF SetState
  <2>2. [state |-> FinalState(r), fp |-> Fingerprint(input[r])] \in Records
    BY <2>1, FingerprintType DEF FinalState, Records, RecordStates
  <2> QED
    BY <1>8, <2>2 DEF SetState, WriteState
<1> QED
  BY <1>1, <1>2, <1>3, <1>4, <1>5, <1>6, <1>7, <1>8 DEF Progress

LEMMA FaultType ==
    ASSUME TypeInv, NEW r \in Requests, Fault(r)
    PROVE  TypeInv'
<1> USE DEF TypeInv, TypeOK, InputInv, Goto, Finish, Return, Locations, Results,
            DefiniteErrors
<1>1. CASE SetNXFault(r)
  <2>1. input[r] \in Inputs
    BY <1>1, ProperInput DEF SetNXFault
  <2>2. Started(r) \in Records
    BY <2>1, FingerprintType DEF Started, Records, RecordStates
  <2> QED
    BY <1>1, <2>2 DEF SetNXFault
<1>2. CASE GetFault(r)
  BY <1>2 DEF GetFault
<1>3. CASE InsertFault(r)
  BY <1>3 DEF InsertFault
<1>4. CASE SerializationFailure(r)
  BY <1>4, TransferAssumption DEF SerializationFailure
<1>5. CASE CommitFault(r)
  BY <1>5 DEF CommitFault
<1>6. CASE ReplayFault(r)
  BY <1>6 DEF ReplayFault
<1>7. CASE SetStateFault(r)
  BY <1>7 DEF SetStateFault
<1>8. CASE Crash(r)
  BY <1>8 DEF Crash
<1>9. CASE SetNXResend(r)
  <2>1. input[r] \in Inputs
    BY <1>9, ProperInput DEF SetNXResend
  <2>2. Started(r) \in Records
    BY <2>1, FingerprintType DEF Started, Records, RecordStates
  <2> QED
    BY <1>9, <2>2 DEF SetNXResend
<1>10. CASE SetStateResend(r)
  <2>1. input[r] \in Inputs
    BY <1>10, ProperInput DEF SetStateResend
  <2>2. [state |-> FinalState(r), fp |-> Fingerprint(input[r])] \in Records
    BY <2>1, FingerprintType DEF FinalState, Records, RecordStates
  <2> QED
    BY <1>10, <2>2 DEF SetStateResend, WriteState
<1> QED
  BY <1>1, <1>2, <1>3, <1>4, <1>5, <1>6, <1>7, <1>8, <1>9, <1>10 DEF Fault

LEMMA NextType == TypeInv /\ [Next]_vars => TypeInv'
<1> SUFFICES ASSUME TypeInv, [Next]_vars
             PROVE  TypeInv'
  OBVIOUS
<1>1. ASSUME NEW r \in Requests, NEW i \in Inputs, Execute(r, i)
      PROVE  TypeInv'
  BY <1>1, ExecuteType
<1>2. ASSUME NEW r \in Requests, Progress(r)
      PROVE  TypeInv'
  BY <1>2, ProgressType
<1>3. ASSUME NEW r \in Requests, Fault(r)
      PROVE  TypeInv'
  BY <1>3, FaultType
<1>4. ASSUME NEW r \in Requests, Settle(r)
      PROVE  TypeInv'
  <2>1. input[r] \in Inputs
    BY <1>4, ProperInput DEF Settle, TypeInv, InputInv
  <2> QED
    BY <1>4, <2>1 DEF TypeInv, TypeOK, InputInv, Settle, RowOf, Rows
<1>5. ASSUME NEW k \in Slots, Expire(k)
      PROVE  TypeInv'
  BY <1>5 DEF TypeInv, TypeOK, InputInv, Expire
<1>6. CASE UNCHANGED vars
  BY <1>6 DEF TypeInv, TypeOK, InputInv, vars
<1> QED
  BY <1>1, <1>2, <1>3, <1>4, <1>5, <1>6 DEF Next

\* Every state of the use case, of Redis and of the ledger is well-typed.
THEOREM TypeCorrect == Spec => []TypeOK
<1>1. TypeInv => TypeOK
  BY DEF TypeInv
<1> QED
  BY <1>1, InitType, NextType, PTL DEF Spec

-----------------------------------------------------------------------------
(* The inductive invariant. *)

LEMMA KeysAgree ==
    ASSUME NEW i, NEW j
    PROVE  /\ ScopedKey(i) = IndexKey(i)
           /\ IndexKey(i) = IndexKey(j) <=> SameSlot(i, j)
BY DEF ScopedKey, IndexKey, SameSlot

LEMMA FingerprintInjective ==
    ASSUME NEW i \in Inputs, NEW j \in Inputs
    PROVE  Fingerprint(i) = Fingerprint(j) <=> i = j
BY DEF Fingerprint, Inputs

LEMMA InitIInv == Init => IInv
<1> SUFFICES ASSUME Init
             PROVE  IInv
  OBVIOUS
<1>1. TypeOK /\ InputInv
  BY InitType DEF TypeInv
<1> QED
  BY <1>1 DEF Init, IInv, WorkingInv, EffectInv, RowInv, IndexInv, Holders, RecordInv,
     SuccessIsCommitted, CompletedIsCommitted, RefusalIsJustified

(* One lemma per action; each shows the conjuncts the action touches one by one. *)

LEMMA GetFaultIInv ==
    ASSUME IInv, TypeInv', NEW r \in Requests, GetFault(r)
    PROVE  IInv'
BY DEF GetFault, IInv, TypeInv, TypeOK, InputInv, WorkingInv, EffectInv, RowInv, IndexInv, RecordInv,
     SuccessIsCommitted, CompletedIsCommitted, RefusalIsJustified, Holders, Working, Goto

LEMMA InsertFaultIInv ==
    ASSUME IInv, TypeInv', NEW r \in Requests, InsertFault(r)
    PROVE  IInv'
BY SMTT(30) DEF Errors, DefiniteErrors, InsertFault, Finish, IInv, TypeInv, TypeOK, InputInv, WorkingInv, EffectInv, RowInv, IndexInv, RecordInv,
     SuccessIsCommitted, CompletedIsCommitted, RefusalIsJustified, Holders, Working, Goto

LEMMA ReplayFaultIInv ==
    ASSUME IInv, TypeInv', NEW r \in Requests, ReplayFault(r)
    PROVE  IInv'
BY SMTT(30) DEF Errors, DefiniteErrors, ReplayFault, Finish, IInv, TypeInv, TypeOK, InputInv, WorkingInv, EffectInv, RowInv, IndexInv, RecordInv,
     SuccessIsCommitted, CompletedIsCommitted, RefusalIsJustified, Holders, Working, Goto

LEMMA SetStateFaultIInv ==
    ASSUME IInv, TypeInv', NEW r \in Requests, SetStateFault(r)
    PROVE  IInv'
BY DEF SetStateFault, IInv, TypeInv, TypeOK, InputInv, WorkingInv, EffectInv, RowInv, IndexInv, RecordInv,
     SuccessIsCommitted, CompletedIsCommitted, RefusalIsJustified, Holders, Working, Goto

LEMMA CrashIInv ==
    ASSUME IInv, TypeInv', NEW r \in Requests, Crash(r)
    PROVE  IInv'
BY DEF Crash, IInv, TypeInv, TypeOK, InputInv, WorkingInv, EffectInv, RowInv, IndexInv, RecordInv,
     SuccessIsCommitted, CompletedIsCommitted, RefusalIsJustified, Holders, Working, Goto

LEMMA CommitFaultIInv ==
    ASSUME IInv, TypeInv', NEW r \in Requests, CommitFault(r)
    PROVE  IInv'
BY SMTT(30) DEF Errors, DefiniteErrors, CommitFault, Finish, IInv, TypeInv, TypeOK, InputInv, WorkingInv, EffectInv, RowInv, IndexInv, RecordInv,
     SuccessIsCommitted, CompletedIsCommitted, RefusalIsJustified, Holders, Working, Goto

LEMMA SettleIInv ==
    ASSUME IInv, TypeInv', NEW r \in Requests, Settle(r)
    PROVE  IInv'
BY DEF Settle, RowOf, IInv, TypeInv, TypeOK, InputInv, WorkingInv, EffectInv, RowInv, IndexInv, RecordInv,
     SuccessIsCommitted, CompletedIsCommitted, RefusalIsJustified, Holders, Working, Goto

LEMMA SetNXIInv ==
    ASSUME IInv, TypeInv', NEW r \in Requests, SetNX(r)
    PROVE  IInv'
BY SMTT(30) DEF SetNX, Started, IInv, TypeInv, TypeOK, InputInv, WorkingInv, EffectInv, RowInv, IndexInv, RecordInv,
     SuccessIsCommitted, CompletedIsCommitted, RefusalIsJustified, Holders, Working, Goto

LEMMA SetNXFaultIInv ==
    ASSUME IInv, TypeInv', NEW r \in Requests, SetNXFault(r)
    PROVE  IInv'
BY DEF SetNXFault, Started, IInv, TypeInv, TypeOK, InputInv, WorkingInv, EffectInv, RowInv, IndexInv, RecordInv,
     SuccessIsCommitted, CompletedIsCommitted, RefusalIsJustified, Holders, Working, Goto

LEMMA SetNXResendIInv ==
    ASSUME IInv, TypeInv', NEW r \in Requests, SetNXResend(r)
    PROVE  IInv'
BY DEF SetNXResend, Started, IInv, TypeInv, TypeOK, InputInv, WorkingInv, EffectInv, RowInv, IndexInv, RecordInv,
     SuccessIsCommitted, CompletedIsCommitted, RefusalIsJustified, Holders, Working, Goto

LEMMA AllowIInv ==
    ASSUME IInv, TypeInv', NEW r \in Requests, Allow(r)
    PROVE  IInv'
<1> USE DEF IInv, TypeInv, TypeOK, InputInv, Allow, Finish, Goto, Working, DefiniteErrors
<1>0. WorkingInv'
  BY DEF WorkingInv
<1>1. EffectInv'
  BY DEF WorkingInv, EffectInv, Rows
<1>2. RowInv' /\ IndexInv'
  BY DEF WorkingInv, RowInv, IndexInv, Holders
<1>3. RecordInv'
  BY DEF RecordInv, WorkingInv, Errors, DefiniteErrors
<1>4. SuccessIsCommitted' /\ CompletedIsCommitted'
  BY DEF SuccessIsCommitted, CompletedIsCommitted
<1>5. RefusalIsJustified'
  BY DEF RefusalIsJustified, WorkingInv, Errors, DefiniteErrors
<1> QED
  BY <1>0, <1>1, <1>2, <1>3, <1>4, <1>5

LEMMA BackoffIInv ==
    ASSUME IInv, TypeInv', NEW r \in Requests, Backoff(r)
    PROVE  IInv'
<1> USE DEF IInv, TypeInv, TypeOK, InputInv, Backoff, Finish, Goto, Working
<1>0. WorkingInv'
  BY DEF WorkingInv
<1>1. EffectInv'
  BY DEF WorkingInv, EffectInv, Rows
<1>2. RowInv' /\ IndexInv'
  BY DEF WorkingInv, RowInv, IndexInv, Holders
<1>3. RecordInv'
  BY DEF RecordInv, WorkingInv, Errors, DefiniteErrors
<1>4. SuccessIsCommitted' /\ CompletedIsCommitted'
  BY DEF SuccessIsCommitted, CompletedIsCommitted
<1>5. RefusalIsJustified'
  BY DEF RefusalIsJustified, WorkingInv, Errors, DefiniteErrors
<1> QED
  BY <1>0, <1>1, <1>2, <1>3, <1>4, <1>5

LEMMA SerializationFailureIInv ==
    ASSUME IInv, TypeInv', NEW r \in Requests, SerializationFailure(r)
    PROVE  IInv'
<1> USE DEF IInv, TypeInv, TypeOK, InputInv, SerializationFailure, Finish, Goto, Working, DefiniteErrors
<1>0. WorkingInv'
  BY DEF WorkingInv
<1>1. EffectInv'
  BY DEF WorkingInv, EffectInv, Rows
<1>2. RowInv' /\ IndexInv'
  BY DEF WorkingInv, RowInv, IndexInv, Holders
<1>3. RecordInv'
  BY DEF RecordInv, WorkingInv, Errors, DefiniteErrors
<1>4. SuccessIsCommitted' /\ CompletedIsCommitted'
  BY DEF SuccessIsCommitted, CompletedIsCommitted
<1>5. RefusalIsJustified'
  BY DEF RefusalIsJustified, WorkingInv, Errors, DefiniteErrors
<1> QED
  BY <1>0, <1>1, <1>2, <1>3, <1>4, <1>5

LEMMA InsertIInv ==
    ASSUME IInv, TypeInv', NEW r \in Requests, Insert(r)
    PROVE  IInv'
<1> USE DEF IInv, TypeInv, TypeOK, InputInv, Insert, Finish, Goto, Working, Committed, DefiniteErrors
<1>0. WorkingInv'
  BY DEF WorkingInv
<1>1. EffectInv'
  BY DEF WorkingInv, EffectInv, Rows
<1>2. RowInv' /\ IndexInv'
  BY DEF WorkingInv, RowInv, IndexInv, Holders
<1>3. RecordInv'
  BY DEF RecordInv, WorkingInv, Errors, DefiniteErrors
<1>4. SuccessIsCommitted' /\ CompletedIsCommitted'
  BY DEF SuccessIsCommitted, CompletedIsCommitted
<1>5. RefusalIsJustified'
  BY DEF RefusalIsJustified, WorkingInv, Errors, DefiniteErrors
<1> QED
  BY <1>0, <1>1, <1>2, <1>3, <1>4, <1>5

LEMMA GetIInv ==
    ASSUME IInv, TypeInv', NEW r \in Requests, Get(r)
    PROVE  IInv'
<1> USE DEF IInv, TypeInv, TypeOK, InputInv, Get, Return, Goto, Working
<1>0. WorkingInv'
  BY DEF WorkingInv
<1>1. EffectInv'
  BY DEF WorkingInv, EffectInv, Rows
<1>2. RowInv' /\ IndexInv'
  BY DEF WorkingInv, RowInv, IndexInv, Holders
<1>3. RecordInv'
  BY DEF RecordInv, WorkingInv, Errors, DefiniteErrors
<1>4. SuccessIsCommitted' /\ CompletedIsCommitted'
  BY DEF SuccessIsCommitted, CompletedIsCommitted
<1>5. ASSUME redis[ScopedKey(input[r])] # NoRecord
      PROVE  \E o \in Requests :
                /\ input[o] \in Inputs
                /\ SameSlot(input[o], input[r])
                /\ Fingerprint(input[o]) = redis[ScopedKey(input[r])].fp
                /\ redis[ScopedKey(input[r])].state = "FAILED" => result[o] \in Errors
  <2>1. ScopedKey(input[r]) \in Slots
    BY FingerprintType
  <2>2. PICK o \in Requests :
              /\ pc[o] # "idle"
              /\ ScopedKey(input[o]) = ScopedKey(input[r])
              /\ Fingerprint(input[o]) = redis[ScopedKey(input[r])].fp
              /\ redis[ScopedKey(input[r])].state = "FAILED" => result[o] \in Errors
    BY <1>5, <2>1 DEF RecordInv
  <2>3. input[o] \in Inputs
    BY <2>2
  <2> QED
    BY <2>2, <2>3, KeysAgree
<1>6. RefusalIsJustified'
  <2>1. CASE result' = result
    BY <2>1 DEF RefusalIsJustified, WorkingInv
  <2>2. CASE result' # result
    <3>1. redis[ScopedKey(input[r])] # NoRecord
      BY <2>2
    <3>2. PICK o \in Requests :
              /\ input[o] \in Inputs
              /\ SameSlot(input[o], input[r])
              /\ Fingerprint(input[o]) = redis[ScopedKey(input[r])].fp
              /\ redis[ScopedKey(input[r])].state = "FAILED" => result[o] \in Errors
      BY <1>5, <3>1
    <3>3. input[r] \in Inputs /\ input' = input /\ result[r] = "none"
      BY DEF WorkingInv
    <3>4. result'[r] = "mismatch" => input[o].body # input[r].body /\ o # r
      <4>1. result'[r] = "mismatch" =>
                redis[ScopedKey(input[r])].fp # Fingerprint(input[r])
        BY <3>1, <2>2
      <4> QED
        BY <4>1, <3>2 DEF Fingerprint, SameSlot
    <3>5. result'[r] = "keyfailed" => input[o] = input[r] /\ result[o] \in Errors /\ o # r
      <4>1. result'[r] = "keyfailed" =>
                /\ redis[ScopedKey(input[r])].fp = Fingerprint(input[r])
                /\ redis[ScopedKey(input[r])].state = "FAILED"
        BY <3>1, <2>2
      <4>2. "none" \notin Errors
        BY DEF Errors, DefiniteErrors
      <4> QED
        BY <4>1, <4>2, <3>2, <3>3, FingerprintInjective
    <3>6. input[o] # NoInput
      BY <3>2, TransferAssumption
    <3>7. \A q \in Requests \ {r} : result'[q] = result[q]
      OBVIOUS
    <3>8. result[r] \notin Errors
      BY <3>3 DEF Errors, DefiniteErrors
    <3> QED
      BY <3>2, <3>3, <3>4, <3>5, <3>6, <3>7, <3>8 DEF RefusalIsJustified
  <2> QED
    BY <2>1, <2>2
<1> QED
  BY <1>0, <1>1, <1>2, <1>3, <1>4, <1>6

LEMMA CommitIInv ==
    ASSUME IInv, TypeInv', NEW r \in Requests, Commit(r)
    PROVE  IInv'
<1> USE DEF IInv, TypeInv, TypeOK, InputInv, Commit, Finish, Goto, Working
<1>0. WorkingInv'
  BY DEF WorkingInv, RowOf
<1>1. EffectInv'
  BY DEF WorkingInv, EffectInv, RowOf, Rows
<1>2. RowInv'
  BY DEF RowInv, RowOf
<1>7. IndexInv'
  BY DEF WorkingInv, IndexInv, Holders, RowOf
<1>3. RecordInv'
  BY DEF RecordInv, WorkingInv, Errors, DefiniteErrors
<1>4. SuccessIsCommitted'
  <2>1. RowOf(r) \in ledger' /\ RowOf(r).tx = r /\ RowOf(r).input = input'[r]
    BY DEF RowOf
  <2>2. resultTx'[r] = r
    OBVIOUS
  <2>3. \A q \in Requests \ {r} : result'[q] = result[q] /\ resultTx'[q] = resultTx[q]
    OBVIOUS
  <2>4. ledger \subseteq ledger' /\ input' = input
    OBVIOUS
  <2> QED
    BY <2>1, <2>2, <2>3, <2>4 DEF SuccessIsCommitted
<1>5. CompletedIsCommitted'
  BY DEF CompletedIsCommitted
<1>6. RefusalIsJustified'
  BY DEF RefusalIsJustified, WorkingInv, Errors, DefiniteErrors
<1> QED
  BY <1>0, <1>1, <1>2, <1>3, <1>4, <1>5, <1>6, <1>7

LEMMA ReplayIInv ==
    ASSUME IInv, TypeInv', NEW r \in Requests, Replay(r)
    PROVE  IInv'
<1> USE DEF IInv, TypeInv, TypeOK, InputInv, Replay, Finish, Goto, Working
<1>0. WorkingInv'
  BY DEF WorkingInv
<1>1. EffectInv'
  BY DEF WorkingInv, EffectInv, Rows
<1>2. RowInv' /\ IndexInv'
  BY DEF WorkingInv, RowInv, IndexInv, Holders
<1>3. RecordInv'
  BY DEF RecordInv, WorkingInv, Errors, DefiniteErrors
<1>4. CompletedIsCommitted'
  BY DEF CompletedIsCommitted
<1>5. input' = input /\ ledger' = ledger /\ input[r] \in Inputs
  OBVIOUS
<1>6. \A q \in Requests \ {r} : result'[q] = result[q] /\ resultTx'[q] = resultTx[q]
  OBVIOUS
<1>9. result[r] \notin Errors
  BY DEF WorkingInv, Errors, DefiniteErrors
<1>7. CASE result'[r] = "fault"
  <2>1. SuccessIsCommitted'
    BY <1>5, <1>6, <1>7 DEF SuccessIsCommitted
  <2>2. RefusalIsJustified'
    BY <1>5, <1>6, <1>7, <1>9 DEF RefusalIsJustified
  <2> QED
    BY <1>0, <1>1, <1>2, <1>3, <1>4, <2>1, <2>2
<1>8. CASE result'[r] # "fault"
  <2>1. PICK row \in Committed(r) :
            IF Fingerprint(row.input) = Fingerprint(input[r])
            THEN result'[r] = "replayed" /\ resultTx'[r] = row.tx
            ELSE result'[r] = "mismatch"
    BY <1>8
  <2>2. /\ row \in ledger
        /\ row.tx \in Requests \ {r}
        /\ row.input \in Inputs
        /\ row.input = input[row.tx]
        /\ SameSlot(row.input, input[r])
    BY KeysAgree DEF Committed, Rows, WorkingInv, RowInv
  <2>3. result'[r] = "replayed" => row.tx = resultTx'[r] /\ row.input = input[r]
    BY <2>1, <2>2, <1>5, FingerprintInjective
  <2>4. result'[r] = "mismatch" => input[row.tx].body # input[r].body
    BY <2>1, <2>2, <1>5 DEF Fingerprint, SameSlot
  <2>5. result'[r] \in {"replayed", "mismatch"}
    BY <2>1
  <2>6. SuccessIsCommitted'
    BY <1>5, <1>6, <2>2, <2>3, <2>5 DEF SuccessIsCommitted
  <2>7. input[row.tx] # NoInput
    BY <2>2, TransferAssumption
  <2>8. RefusalIsJustified'
    BY <1>5, <1>6, <1>9, <2>2, <2>4, <2>5, <2>7 DEF RefusalIsJustified
  <2> QED
    BY <1>0, <1>1, <1>2, <1>3, <1>4, <2>6, <2>8
<1> QED
  BY <1>7, <1>8

\* SetState's write keeps what the invariant says of the records.
LEMMA WriteStateRecords ==
    ASSUME IInv, NEW r \in Requests, pc[r] = "setstate", WriteState(r),
           UNCHANGED <<input, result, resultTx, ledger>>,
           \A q \in Requests : pc[q] # "idle" => pc'[q] # "idle"
    PROVE  RecordInv' /\ CompletedIsCommitted'
<1> USE DEF IInv, TypeOK, InputInv
<1> DEFINE k == ScopedKey(input[r])
<1>1. k \in Slots /\ IndexKey(input[r]) = k
  <2>1. input[r] \in Inputs
    OBVIOUS
  <2> QED
    BY <2>1, FingerprintType, KeysAgree
<1>2. redis'[k] = [state |-> FinalState(r), fp |-> Fingerprint(input[r])]
  BY <1>1 DEF WriteState
<1>3. FinalState(r) = "COMPLETED" => \E row \in ledger : row.input = input[r]
  BY DEF FinalState, SuccessIsCommitted
<1>4. \A j \in Slots \ {k} : redis'[j] = redis[j]
  BY DEF WriteState
<1>5. FinalState(r) = "FAILED" => result[r] \in Errors
  BY DEF FinalState, EffectInv, Errors, Results
<1> HIDE DEF k
<1>6. CompletedIsCommitted'
  BY <1>1, <1>2, <1>3, <1>4 DEF CompletedIsCommitted
<1>7. RecordInv'
  <2>1. pc'[r] # "idle" /\ ScopedKey(input[r]) = k
    BY DEF k
  <2> QED
    BY <1>2, <1>4, <1>5, <2>1 DEF RecordInv
<1> QED
  BY <1>6, <1>7

LEMMA SetStateIInv ==
    ASSUME IInv, TypeInv', NEW r \in Requests, SetState(r)
    PROVE  IInv'
<1> USE DEF IInv, TypeInv, TypeOK, InputInv, SetState, Goto, Working
<1>0. WorkingInv'
  BY DEF WorkingInv
<1>1. EffectInv'
  BY DEF WorkingInv, EffectInv, Rows
<1>2. RowInv' /\ IndexInv'
  BY DEF WorkingInv, RowInv, IndexInv, Holders
<1>3. RecordInv' /\ CompletedIsCommitted'
  BY WriteStateRecords
<1>4. SuccessIsCommitted' /\ RefusalIsJustified'
  BY DEF SuccessIsCommitted, RefusalIsJustified
<1> QED
  BY <1>0, <1>1, <1>2, <1>3, <1>4

LEMMA SetStateResendIInv ==
    ASSUME IInv, TypeInv', NEW r \in Requests, SetStateResend(r)
    PROVE  IInv'
<1> USE DEF IInv, TypeInv, SetStateResend
<1>1. WorkingInv' /\ EffectInv' /\ RowInv' /\ IndexInv'
  BY DEF WorkingInv, EffectInv, RowInv, IndexInv, Holders
<1>2. RecordInv' /\ CompletedIsCommitted'
  BY WriteStateRecords
<1>3. SuccessIsCommitted' /\ RefusalIsJustified'
  BY DEF SuccessIsCommitted, RefusalIsJustified
<1> QED
  BY <1>1, <1>2, <1>3

LEMMA ExecuteIInv ==
    ASSUME IInv, TypeInv', NEW r \in Requests, NEW i \in Inputs, Execute(r, i)
    PROVE  IInv'
<1> USE DEF IInv, TypeInv, TypeOK, InputInv, Execute, Return, Goto, Working
<1>0. WorkingInv'
  BY DEF WorkingInv
<1>1. EffectInv'
  BY DEF WorkingInv, EffectInv, Rows
<1>2. RowInv' /\ IndexInv'
  BY DEF WorkingInv, RowInv, IndexInv, Holders, Rows
<1>3. RecordInv'
  BY DEF RecordInv, WorkingInv, Errors, DefiniteErrors
<1>4. SuccessIsCommitted' /\ CompletedIsCommitted'
  BY DEF SuccessIsCommitted, CompletedIsCommitted, WorkingInv
<1>5. RefusalIsJustified'
  BY DEF RefusalIsJustified, WorkingInv, Errors, DefiniteErrors
<1> QED
  BY <1>0, <1>1, <1>2, <1>3, <1>4, <1>5

LEMMA NextIInv == IInv /\ [Next]_vars => IInv'
<1> SUFFICES ASSUME IInv, [Next]_vars
             PROVE  IInv'
  OBVIOUS
<1>0. TypeInv'
  BY NextType DEF IInv, TypeInv
<1>1. ASSUME NEW r \in Requests, NEW i \in Inputs, Execute(r, i)
      PROVE  IInv'
  BY <1>0, <1>1, ExecuteIInv
<1>2. ASSUME NEW r \in Requests, Progress(r)
      PROVE  IInv'
  BY <1>0, <1>2, SetNXIInv, GetIInv, AllowIInv, InsertIInv, BackoffIInv, CommitIInv,
     ReplayIInv, SetStateIInv DEF Progress
<1>3. ASSUME NEW r \in Requests, Fault(r)
      PROVE  IInv'
  BY <1>0, <1>3, SetNXFaultIInv, SetNXResendIInv, SetStateResendIInv, GetFaultIInv, InsertFaultIInv,
     SerializationFailureIInv, CommitFaultIInv, ReplayFaultIInv, SetStateFaultIInv,
     CrashIInv DEF Fault
<1>4. ASSUME NEW r \in Requests, Settle(r)
      PROVE  IInv'
  BY <1>0, <1>4, SettleIInv
<1>5. ASSUME NEW k \in Slots, Expire(k)
      PROVE  IInv'
  BY <1>0, <1>5 DEF Expire, IInv, TypeInv, TypeOK, InputInv, WorkingInv, EffectInv, RowInv, IndexInv, RecordInv,
     SuccessIsCommitted, CompletedIsCommitted, RefusalIsJustified, Holders, Working, Goto
<1>6. CASE UNCHANGED vars
  BY <1>0, <1>6 DEF vars, IInv, TypeInv, TypeOK, InputInv, WorkingInv, EffectInv, RowInv, IndexInv, RecordInv,
     SuccessIsCommitted, CompletedIsCommitted, RefusalIsJustified, Holders, Working, Goto
<1> QED
  BY <1>1, <1>2, <1>3, <1>4, <1>5, <1>6 DEF Next

LEMMA Inductive == Spec => []IInv
BY InitIInv, NextIInv, PTL DEF Spec

\* Whatever Redis forgets, however requests interleave, crash or lose their COMMIT's
\* answer, a tenant's idempotency key never gets two transactions.
THEOREM AtMostOnce == Spec => []OneTransactionPerKey
<1>1. IInv => OneTransactionPerKey
  BY KeysAgree DEF IInv, IndexInv, OneTransactionPerKey, SameSlot
<1> QED
  BY <1>1, Inductive, PTL

\* Every success hands back a committed transaction with the caller's own tenant, key
\* and body.
THEOREM HonestSuccess == Spec => []SuccessIsCommitted
<1>1. IInv => SuccessIsCommitted
  BY DEF IInv
<1> QED
  BY <1>1, Inductive, PTL

\* A COMPLETED record in Redis always has its transaction in Postgres.
THEOREM CompletedImpliesCommitted == Spec => []CompletedIsCommitted
<1>1. IInv => CompletedIsCommitted
  BY DEF IInv
<1> QED
  BY <1>1, Inductive, PTL

\* No request is refused because of a request that was never made, in particular not
\* because of another tenant's.
THEOREM NoSpuriousRefusal == Spec => []RefusalIsJustified
<1>1. IInv => RefusalIsJustified
  BY DEF IInv
<1> QED
  BY <1>1, Inductive, PTL

-----------------------------------------------------------------------------
(* Refinement. *)

\* A step that moves one request on, without writing the ledger, answers the call or
\* is invisible.
LEMMA RequestStep ==
    ASSUME IInv, IInv', NEW r \in Requests, NEW l,
           pc[r] \notin {"idle", "done"}, pc' = [pc EXCEPT ![r] = l],
           input' = input, ledger' = ledger,
           \A q \in Requests \ {r} : result'[q] = result[q] /\ resultTx'[q] = resultTx[q]
    PROVE  [Abstract!Next]_(Abstract!vars)
<1> USE DEF IInv, TypeOK, InputInv
<1>1. CASE l = "done"
  <2>1. PICK k \in {"success", "definite", "unknown"} : k = ReplyKind(r)'
    BY <1>1 DEF ReplyKind
  <2>2. input[r] # NoInput /\ ReplyKind(r) = "none" /\ pc'[r] = "done" /\ pc[r] # "done"
    BY <1>1 DEF ReplyKind
  <2>3. \A q \in Requests \ {r} : /\ ReplyKind(q)' = ReplyKind(q) /\ pc'[q] = pc[q]
                                   /\ resultTx'[q] = resultTx[q]
    BY DEF ReplyKind
  <2>4. [q \in Requests |-> ReplyKind(q)'] =
            [[q \in Requests |-> ReplyKind(q)] EXCEPT ![r] = k]
    BY <2>1, <2>3, ZenonT(40)
  <2>5. k = "success" => \E e \in ledger : e.input = input[r] /\ e.tx = resultTx'[r]
    BY <2>1 DEF ReplyKind, SuccessIsCommitted
  <2>6. [q \in Requests |-> IF pc'[q] = "done" THEN resultTx'[q] ELSE NoTx] =
            [[q \in Requests |-> IF pc[q] = "done" THEN resultTx[q] ELSE NoTx]
                EXCEPT ![r] = resultTx'[r]]
    BY <2>2, <2>3
  <2>7. k # "success" => [q \in Requests |-> IF pc'[q] = "done" THEN resultTx'[q] ELSE NoTx] =
                         [q \in Requests |-> IF pc[q] = "done" THEN resultTx[q] ELSE NoTx]
    <3>1. k # "success" => resultTx'[r] = NoTx
      BY <1>1, <2>1 DEF ReplyKind, EffectInv
    <3> QED
      BY <2>2, <2>3, <3>1
  <2>8. k = "definite" => \A e \in ledger : e.tx # r
    BY <2>1 DEF ReplyKind, EffectInv, DefiniteErrors
  <2>9. Abstract!Answer(r, k)
    <3>1. CASE k = "success"
      <4>1. PICK e \in ledger : e.input = input[r] /\ e.tx = resultTx'[r]
        BY <3>1, <2>5
      <4>2. [q \in Requests |-> IF pc'[q] = "done" THEN resultTx'[q] ELSE NoTx] =
                [[q \in Requests |-> IF pc[q] = "done" THEN resultTx[q] ELSE NoTx]
                    EXCEPT ![r] = e.tx]
        BY <2>6, <4>1
      <4> QED
        BY <3>1, <2>2, <2>4, <4>1, <4>2, ZenonT(40) DEF Abstract!Answer
    <3>2. CASE k = "definite"
      BY <3>2, <2>2, <2>4, <2>7, <2>8, ZenonT(40) DEF Abstract!Answer
    <3>3. CASE k = "unknown"
      BY <3>3, <2>2, <2>4, <2>7, ZenonT(40) DEF Abstract!Answer
    <3> QED
      BY <2>1, <3>1, <3>2, <3>3
  <2>10. k \in Abstract!Kinds
    BY <2>1 DEF Abstract!Kinds
  <2> QED
    BY <2>9, <2>10 DEF Abstract!Next
<1>2. CASE l # "done"
  <2>1. \A q \in Requests : ReplyKind(q)' = ReplyKind(q)
    BY <1>2 DEF ReplyKind
  <2> QED
    BY <1>2, <2>1 DEF Abstract!vars
<1> QED
  BY <1>1, <1>2

LEMMA CommitRefines ==
    ASSUME IInv, IInv', NEW r \in Requests, Commit(r)
    PROVE  Abstract!Next
<1> USE DEF IInv, TypeOK, InputInv, Commit, Finish, Goto
<1>1. /\ input[r] # NoInput
      /\ ReplyKind(r) = "none"
      /\ input' = input
      /\ ledger' = ledger \cup {Abstract!EntryOf(r)}
  BY DEF ReplyKind, RowOf, Abstract!EntryOf
<1>2. \A e \in ledger : Abstract!SlotOf(e.input) # Abstract!SlotOf(input[r])
  BY DEF IndexInv, Holders, IndexKey, Abstract!SlotOf
<1>3. \A q \in Requests \ {r} : /\ ReplyKind(q)' = ReplyKind(q)
                                 /\ pc'[q] = pc[q] /\ resultTx'[q] = resultTx[q]
  BY DEF ReplyKind
<1>4. CASE acquired[r]
  <2>1. ReplyKind(r)' = "none" /\ pc'[r] # "done"
    BY <1>4 DEF ReplyKind
  <2>2. Abstract!Commit(r)
    BY <1>1, <1>2, <1>3, <2>1 DEF Abstract!Commit
  <2> QED
    BY <2>2 DEF Abstract!Next
<1>5. CASE ~acquired[r]
  <2>1. ReplyKind(r)' = "success" /\ pc'[r] = "done" /\ resultTx'[r] = r
    BY <1>5 DEF ReplyKind
  <2>2. [q \in Requests |-> ReplyKind(q)'] =
            [[q \in Requests |-> ReplyKind(q)] EXCEPT ![r] = "success"]
    BY <1>3, <2>1, ZenonT(40)
  <2>3. [q \in Requests |-> IF pc'[q] = "done" THEN resultTx'[q] ELSE NoTx] =
            [[q \in Requests |-> IF pc[q] = "done" THEN resultTx[q] ELSE NoTx]
                EXCEPT ![r] = r]
    BY <1>3, <2>1
  <2>4. Abstract!CommitAndAnswer(r)
    BY <1>1, <1>2, <2>2, <2>3 DEF Abstract!CommitAndAnswer
  <2> QED
    BY <2>4 DEF Abstract!Next
<1> QED
  BY <1>4, <1>5

LEMMA SettleRefines ==
    ASSUME IInv, IInv', NEW r \in Requests, Settle(r)
    PROVE  [Abstract!Next]_(Abstract!vars)
<1> USE DEF IInv, TypeOK, InputInv, Settle
<1>1. \A q \in Requests : ReplyKind(q)' = ReplyKind(q)
  BY DEF ReplyKind
<1>2. CASE ledger' = ledger
  BY <1>1, <1>2 DEF Abstract!vars
<1>3. CASE ledger' = ledger \cup {RowOf(r)}
  <2>1. ReplyKind(r) \in {"none", "unknown"} /\ input[r] # NoInput
    BY DEF ReplyKind, EffectInv, DefiniteErrors
  <2>2. \A e \in ledger : Abstract!SlotOf(e.input) # Abstract!SlotOf(input[r])
    BY DEF IndexInv, Holders, IndexKey, Abstract!SlotOf
  <2>3. RowOf(r) = Abstract!EntryOf(r)
    BY DEF RowOf, Abstract!EntryOf
  <2>4. Abstract!Commit(r)
    BY <1>1, <1>3, <2>1, <2>2, <2>3 DEF Abstract!Commit
  <2> QED
    BY <2>4 DEF Abstract!Next
<1> QED
  BY <1>2, <1>3

LEMMA ExecuteRefines ==
    ASSUME IInv, IInv', NEW r \in Requests, NEW i \in Inputs, Execute(r, i)
    PROVE  Abstract!Next
<1> USE DEF IInv, TypeOK, InputInv, Execute, Return, Goto
<1>1. /\ input[r] = NoInput
      /\ input' = [input EXCEPT ![r] = i]
      /\ ledger' = ledger
      /\ ReplyKind(r) = "none"
      /\ resultTx'[r] = NoTx
  BY DEF ReplyKind, WorkingInv, Working
<1>2. \A q \in Requests \ {r} : /\ ReplyKind(q)' = ReplyKind(q)
                                 /\ pc'[q] = pc[q] /\ resultTx'[q] = resultTx[q]
  BY DEF ReplyKind
<1>3. CASE i.body \in Malformed
  <2>1. ReplyKind(r)' = "definite"
    BY <1>3 DEF ReplyKind, DefiniteErrors
  <2>2. [q \in Requests |-> ReplyKind(q)'] =
            [[q \in Requests |-> ReplyKind(q)] EXCEPT ![r] = "definite"]
    BY <1>2, <2>1, ZenonT(40)
  <2>3. \A q \in Requests : (IF pc'[q] = "done" THEN resultTx'[q] ELSE NoTx) =
                            (IF pc[q] = "done" THEN resultTx[q] ELSE NoTx)
    BY <1>1, <1>2
  <2>4. Abstract!CallAndReject(r, i)
    BY <1>1, <2>2, <2>3 DEF Abstract!CallAndReject
  <2> QED
    BY <2>4 DEF Abstract!Next
<1>4. CASE i.body \notin Malformed
  <2>1. ReplyKind(r)' = "none"
    BY <1>4 DEF ReplyKind
  <2>2. Abstract!Call(r, i)
    BY <1>1, <1>2, <2>1 DEF Abstract!Call
  <2> QED
    BY <2>2 DEF Abstract!Next
<1> QED
  BY <1>3, <1>4

LEMMA ProgressRefines ==
    ASSUME IInv, IInv', NEW r \in Requests, Progress(r)
    PROVE  [Abstract!Next]_(Abstract!vars)
<1> USE DEF IInv, TypeOK, Goto, Finish, Return
<1>1. CASE SetNX(r)
  BY <1>1, RequestStep DEF SetNX
<1>2. CASE Get(r)
  BY <1>2, RequestStep DEF Get
<1>3. CASE Allow(r)
  BY <1>3, RequestStep DEF Allow
<1>4. CASE Insert(r)
  BY <1>4, RequestStep DEF Insert
<1>5. CASE Backoff(r)
  BY <1>5, RequestStep DEF Backoff
<1>6. CASE Commit(r)
  BY <1>6, CommitRefines
<1>7. CASE Replay(r)
  BY <1>7, RequestStep DEF Replay
<1>8. CASE SetState(r)
  BY <1>8, RequestStep DEF SetState
<1> QED
  BY <1>1, <1>2, <1>3, <1>4, <1>5, <1>6, <1>7, <1>8 DEF Progress

LEMMA FaultRefines ==
    ASSUME IInv, IInv', NEW r \in Requests, Fault(r)
    PROVE  [Abstract!Next]_(Abstract!vars)
<1> USE DEF IInv, TypeOK, Goto, Finish
<1>1. CASE SetNXFault(r)
  BY <1>1, RequestStep DEF SetNXFault
<1>2. CASE GetFault(r)
  BY <1>2, RequestStep DEF GetFault
<1>3. CASE InsertFault(r)
  BY <1>3, RequestStep DEF InsertFault
<1>4. CASE SerializationFailure(r)
  BY <1>4, RequestStep DEF SerializationFailure
<1>5. CASE CommitFault(r)
  BY <1>5, RequestStep DEF CommitFault
<1>6. CASE ReplayFault(r)
  BY <1>6, RequestStep DEF ReplayFault
<1>7. CASE SetStateFault(r)
  BY <1>7, RequestStep DEF SetStateFault
<1>8. CASE Crash(r)
  BY <1>8, RequestStep DEF Crash
<1>9. CASE SetNXResend(r) \/ SetStateResend(r)
  BY <1>9 DEF SetNXResend, SetStateResend, Abstract!vars, ReplyKind
<1> QED
  BY <1>1, <1>2, <1>3, <1>4, <1>5, <1>6, <1>7, <1>8, <1>9 DEF Fault

\* The Transfer RPC, over Redis and Postgres with all their faults, implements the
\* idempotent ledger: one effect per key, successes that name it, definite errors
\* only for requests without effect.
THEOREM Refinement == Spec => ImplementsIdempotentLedger
<1>1. Init => Abstract!Init
  BY DEF Init, Abstract!Init, ReplyKind
<1>2. IInv /\ IInv' /\ [Next]_vars => [Abstract!Next]_(Abstract!vars)
  <2> SUFFICES ASSUME IInv, IInv', [Next]_vars
               PROVE  [Abstract!Next]_(Abstract!vars)
    OBVIOUS
  <2>1. ASSUME NEW r \in Requests, NEW i \in Inputs, Execute(r, i)
        PROVE  Abstract!Next
    BY <2>1, ExecuteRefines
  <2>2. ASSUME NEW k \in Slots, Expire(k)
        PROVE  UNCHANGED Abstract!vars
    BY <2>2 DEF Expire, Abstract!vars, ReplyKind
  <2>3. CASE UNCHANGED vars
    BY <2>3 DEF vars, Abstract!vars, ReplyKind
  <2> QED
    BY <2>1, <2>2, <2>3, ProgressRefines, FaultRefines, SettleRefines DEF Next
<1> QED
  BY <1>1, <1>2, Inductive, PTL DEF Spec, ImplementsIdempotentLedger, Abstract!Spec
=============================================================================
