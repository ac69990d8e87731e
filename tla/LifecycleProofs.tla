--------------------------- MODULE LifecycleProofs ---------------------------
(***************************************************************************)
(* The boot and the shutdown of Lifecycle, for any number of workers and   *)
(* calls and whatever steps of run() fail: nothing leaks, and an orderly   *)
(* shutdown closes nothing that is still used.  The transactions of the    *)
(* process are the ones of Pool, so its slots are conserved as well.       *)
(***************************************************************************)
EXTENDS Lifecycle, PoolProofs, SequenceTheorems

\* A step of a process is a step of Pool, or leaves the pools alone.
LEMMA ProcessStepPools == [Next]_vars => [PoolNext]_poolVars
<1> SUFFICES ASSUME [Next]_vars PROVE PoolNext \/ UNCHANGED poolVars
  OBVIOUS
<1>1. CASE Signal \/ ServeFails \/ Ended \/ UNCHANGED vars
  BY <1>1 DEF Signal, ServeFails, Ended, vars
<1>2. CASE Main
  BY <1>2 DEF Main, Boot, BootFails, Select, SetNotServing, GracefulStop, Deadline, Drained,
     StopWorker, WaitOutbox, WaitAudit, RunDeferred, Exit
<1>3. CASE \E w \in Workers : WorkerExits(w)
  BY <1>3 DEF WorkerExits
<1>4. CASE \E c \in Handlers : Accept(c) \/ EndCall(c)
  BY <1>4 DEF Accept, EndCall
<1>5. CASE \E u \in Users : Transact(u)
  BY <1>5 DEF Transact, PoolNext
<1> QED
  BY <1>1, <1>2, <1>3, <1>4, <1>5 DEF Next

\* The composition implements Pool: whatever boot, the signal and the shutdown do, InTx and
\* drain use the pools as Pool says.
THEOREM LifecycleImplementsPool == Spec => PoolSpec
<1>1. Init => PoolInit
  BY DEF Init
<1> QED
  BY <1>1, ProcessStepPools, PTL DEF Spec, PoolSpec

\* In every state of a process each slot is free, held once or lost to a panic.
THEOREM LifecycleSlotsConserved == Spec => []SlotsConserved
BY LifecycleImplementsPool, SlotsAreConserved, PTL

-----------------------------------------------------------------------------

\* The names of the steps.
LEMMA Steps ==
    /\ Len(BootSteps) = 10
    /\ BootSteps[1] = "otel" /\ BootSteps[2] = "metrics" /\ BootSteps[3] = "requestPool"
    /\ BootSteps[4] = "reqStats" /\ BootSteps[5] = "workerPool" /\ BootSteps[6] = "redis"
    /\ BootSteps[7] = "ping" /\ BootSteps[8] = "producer" /\ BootSteps[9] = "workers"
    /\ BootSteps[10] = "listen"
BY DEF BootSteps

\* What is deferred.
Deferred == {defers[i] : i \in DOMAIN defers}

\* Whatever is open has its release deferred; the process exits with nothing deferred.
LeakInv == open \subseteq Deferred /\ (main = "exited" => defers = <<>>)

\* Defer pushes what it opens.
LEMMA DeferKeeps ==
    ASSUME defers \in Seq(Resources), open \subseteq Deferred, NEW s, Defer(s)
    PROVE  defers' \in Seq(Resources) /\ open' \subseteq Deferred'
<1>1. CASE s \in Resources
  <2>1. defers' = Append(defers, s) /\ open' = open \cup {s}
    BY <1>1 DEF Defer
  <2>2. defers' \in Seq(Resources)
    BY <1>1, <2>1
  <2>3. /\ DOMAIN defers' = 1 .. Len(defers) + 1 /\ Len(defers) \in Nat
        /\ defers'[Len(defers) + 1] = s
        /\ \A i \in 1 .. Len(defers) : defers'[i] = defers[i]
    BY <1>1, <2>1
  <2>4. DOMAIN defers = 1 .. Len(defers)
    OBVIOUS
  <2> QED
    BY <2>1, <2>2, <2>3, <2>4 DEF Deferred
<1>2. CASE s \notin Resources
  BY <1>2 DEF Defer, Deferred
<1> QED
  BY <1>1, <1>2

\* RunDeferred pops what it closes.
LEMMA ReleaseKeeps ==
    ASSUME defers \in Seq(Resources), open \subseteq Deferred, RunDeferred
    PROVE  defers' \in Seq(Resources) /\ open' \subseteq Deferred'
<1>1. /\ defers # <<>> /\ defers' = SubSeq(defers, 1, Len(defers) - 1)
      /\ open' = open \ {defers[Len(defers)]}
  BY DEF RunDeferred, Top
<1>2. Len(defers) \in Nat \ {0} /\ DOMAIN defers = 1 .. Len(defers)
  BY <1>1, EmptySeq
<1>3. /\ defers' \in Seq(Resources) /\ DOMAIN defers' = 1 .. Len(defers) - 1
      /\ \A i \in 1 .. Len(defers) - 1 : defers'[i] = defers[i]
  <2>1. \A i \in 1 .. Len(defers) - 1 : defers[i] \in Resources
    BY <1>2
  <2>2. Len(defers) - 1 \in Nat /\ 1 \in Int
    BY <1>2
  <2> QED
    BY <1>1, <1>2, <2>1, <2>2, SubSeqProperties
<1>4. ASSUME NEW r \in open'
      PROVE  r \in Deferred'
  <2>1. PICK i \in 1 .. Len(defers) : r = defers[i]
    BY <1>1, <1>2, <1>4 DEF Deferred
  <2>2. i \in 1 .. Len(defers) - 1
    BY <1>1, <1>2, <1>4, <2>1
  <2> QED
    BY <1>3, <2>1, <2>2 DEF Deferred
<1> QED
  BY <1>3, <1>4

-----------------------------------------------------------------------------

\* Types and LeakInv, kept together.
TypeInv == LifeTypeOK /\ LeakInv

\* A step of run().
LEMMA MainType == ASSUME TypeInv, Main PROVE TypeInv'
<1> USE DEF TypeInv, LeakInv
<1>1. CASE Boot
  <2> DEFINE s == BootSteps[step]
  <2>1. defers' \in Seq(Resources) /\ open' \subseteq Deferred'
    BY <1>1, DeferKeeps DEF Boot, LifeTypeOK
  <2>2. open' \subseteq Resources
    BY <1>1 DEF Boot, Defer, LifeTypeOK
  <2>3. step' \in 1 .. Len(BootSteps)
    <3>1. step \in 1 .. 10 /\ (s = "listen" <=> step = 10)
      BY Steps DEF LifeTypeOK
    <3> QED
      BY <1>1, <3>1, Steps DEF Boot
  <2>4. main' \in {"boot", "serving"}
    BY <1>1 DEF Boot
  <2>5. worker' \in [Workers -> {"none", "looping", "exited"}]
    BY <1>1 DEF Boot, LifeTypeOK
  <2> QED
    BY <1>1, <2>1, <2>2, <2>3, <2>4, <2>5 DEF Boot, LifeTypeOK
<1>2. CASE RunDeferred
  BY <1>2, ReleaseKeeps DEF RunDeferred, LifeTypeOK
<1>3. CASE Exit
  BY <1>3 DEF Exit, LifeTypeOK, Deferred
<1>4. CASE BootFails \/ Select \/ SetNotServing \/ GracefulStop
  BY <1>4, ZenonT(40) DEF BootFails, Select, SetNotServing, GracefulStop, LifeTypeOK, Deferred
<1>5. CASE Deadline \/ Drained \/ StopWorker \/ WaitOutbox \/ WaitAudit
  BY <1>5, ZenonT(40) DEF Deadline, Drained, StopWorker, WaitOutbox, WaitAudit, LifeTypeOK, Deferred
<1> QED
  BY <1>1, <1>2, <1>3, <1>4, <1>5 DEF Main

\* TypeInv is inductive.
LEMMA NextType == TypeInv /\ [Next]_vars => TypeInv'
<1> SUFFICES ASSUME TypeInv, [Next]_vars PROVE TypeInv'
  OBVIOUS
<1> USE DEF TypeInv, LeakInv, Deferred
<1>1. CASE Signal \/ ServeFails
  BY <1>1, ZenonT(60) DEF Signal, ServeFails, LifeTypeOK
<1>2. ASSUME NEW w \in Workers, WorkerExits(w)
      PROVE  TypeInv'
  BY <1>2 DEF WorkerExits, LifeTypeOK
<1>3. ASSUME NEW c \in Handlers, Accept(c) \/ EndCall(c)
      PROVE  TypeInv'
  BY <1>3 DEF Accept, EndCall, LifeTypeOK
<1>4. CASE Ended \/ (\E u \in Users : Transact(u)) \/ UNCHANGED vars
  <2>1. UNCHANGED lifeVars
    BY <1>4 DEF Ended, Transact, vars
  <2> QED
    BY <2>1, ZenonT(60) DEF lifeVars, LifeTypeOK
<1> QED
  BY <1>1, <1>2, <1>3, <1>4, MainType DEF Next

\* Types and LeakInv hold in every state.
LEMMA TypeInvariant == Spec => []TypeInv
<1>1. Init => TypeInv
  <2> SUFFICES ASSUME Init PROVE TypeInv
    OBVIOUS
  <2>1. step \in 1 .. Len(BootSteps)
    BY Steps DEF Init
  <2>2. defers \in Seq(Resources) /\ LeakInv
    BY DEF Init, LeakInv
  <2>3. worker \in [Workers -> {"none", "looping", "exited"}]
    BY DEF Init
  <2>4. call \in [Handlers -> {"none", "running"}]
    BY DEF Init
  <2> QED
    BY <2>1, <2>2, <2>3, <2>4 DEF Init, TypeInv, LifeTypeOK
<1> QED
  BY <1>1, NextType, PTL DEF Spec

\* Every state of a process is well-typed.
THEOREM LifecycleTypeCorrect == Spec => []TypeOK
BY TypeInvariant, LifecycleImplementsPool, PoolTypeCorrect, PTL DEF TypeInv, TypeOK

\* Whatever fails, and whenever the signal comes, the process exits with every resource it
\* acquired released: what is open always has its release deferred.
THEOREM LifecycleNothingLeaks == Spec => []NothingLeaks
<1>1. TypeInv => NothingLeaks
  <2> SUFFICES ASSUME TypeInv, main = "exited" PROVE open = {}
    BY DEF NothingLeaks
  <2>1. defers = <<>> /\ open \subseteq Deferred
    BY DEF TypeInv, LeakInv
  <2> QED
    BY <2>1 DEF Deferred
<1> QED
  BY <1>1, TypeInvariant, PTL

-----------------------------------------------------------------------------

NoCalls == \A c \in Handlers : call[c] = "none"

Idle(w) == worker[w] \in {"none", "exited"}

\* Only a goroutine that runs is in a transaction.
RunningInv == \A u \in Users : pc[u] # "idle" => Running(u)

\* A transaction moves its own goroutine, and starts only in one that runs.
LEMMA TransactOfOne ==
    ASSUME PoolTypeOK, RunningInv, NEW u \in Users, Transact(u)
    PROVE  RunningInv'
<1>1. Running(u)
  <2>1. pc[u] # "idle" \/ Running(u)
    BY DEF Transact, TxStep, At, Acquire, AcquireFails, BeginTx, BeginTxFails, BodySucceeds,
       BodyFails, RollbackEmptySuccess, Panic, Commit, Rollback, Retry, GiveUp
  <2> QED
    BY <2>1 DEF RunningInv
<1>2. \A v \in Users \ {u} : pc'[v] = pc[v]
  BY DEF PoolTypeOK, Transact, TxStep, Goto, Finish, Start, Acquire, AcquireFails, BeginTx,
     BeginTxFails, BodySucceeds, BodyFails, RollbackEmptySuccess, Panic, Commit, Rollback,
     Retry, GiveUp
<1>3. UNCHANGED <<worker, call>>
  BY DEF Transact, lifeVars
<1> QED
  BY <1>1, <1>2, <1>3 DEF RunningInv, Running

\* While run() boots, what its earlier steps acquire is open and nobody uses it, but the
\* workers once they are started.
BootInv ==
    main = "boot" =>
        /\ server = "none" /\ NoCalls
        /\ \A i \in 1 .. step - 1 : BootSteps[i] \in Resources => BootSteps[i] \in open
        /\ step <= 9 => \A w \in Workers : worker[w] = "none"

\* From serving to the last Wait everything is open.
ServingInv ==
    main \in {"serving", "setNotServing", "gracefulStop", "stopWorker", "waitOutbox", "waitAudit"}
        => Resources \subseteq open

\* Once GracefulStop is over nobody calls; once the Waits are over nobody drains.
ShutdownInv ==
    /\ main \in {"stopWorker", "waitOutbox", "waitAudit"} => server = "stopped" /\ NoCalls
    /\ main = "waitAudit" => \A w \in OutboxWorkers : worker[w] = "exited"
    /\ main \in {"return", "exited"} /\ ~err =>
          server = "stopped" /\ NoCalls /\ \A w \in Workers : Idle(w)

UseInv == BootInv /\ ServingInv /\ ShutdownInv /\ RunningInv

\* A step of run().
LEMMA MainUse == ASSUME TypeInv, UseInv, Main PROVE BootInv' /\ ServingInv' /\ ShutdownInv'
<1> USE DEF UseInv, BootInv, ServingInv, ShutdownInv, NoCalls, Idle
<1>0. LifeTypeOK
  BY DEF TypeInv
<1>1. CASE Boot
  <2> DEFINE s == BootSteps[step]
  <2>1. /\ main = "boot" /\ open' = open \cup ({s} \cap Resources)
        /\ UNCHANGED <<err, signal, stopped, call>>
        /\ worker' = IF s = "workers" THEN [w \in Workers |-> "looping"] ELSE worker
        /\ step \in 1 .. 10
    BY <1>0, <1>1, Steps DEF Boot, Defer, LifeTypeOK
  <2>2. CASE s = "listen"
    <3>1. step = 10 /\ main' = "serving"
      BY <1>1, <2>1, <2>2, Steps DEF Boot
    <3>2. ASSUME NEW r \in Resources
          PROVE  r \in open
      <4>1. PICK i \in 1 .. 9 : r = BootSteps[i]
        BY Steps DEF Resources
      <4> QED
        BY <2>1, <3>1, <4>1
    <3> QED
      BY <2>1, <3>1, <3>2
  <2>3. CASE s # "listen"
    <3>1. step \in 1 .. 9 /\ step' = step + 1 /\ main' = "boot" /\ server' = "none"
      BY <1>1, <2>1, <2>3, Steps DEF Boot
    <3>2. \A i \in 1 .. step' - 1 : BootSteps[i] \in Resources => BootSteps[i] \in open'
      BY <2>1, <3>1
    <3>3. step' <= 9 => s # "workers"
      BY <3>1, Steps
    <3> QED
      BY <2>1, <3>1, <3>2, <3>3
  <2> QED
    BY <2>2, <2>3
<1>2. CASE BootFails \/ Select
  BY <1>2 DEF BootFails, Select
<1>3. CASE SetNotServing \/ GracefulStop \/ Deadline
  BY <1>3 DEF SetNotServing, GracefulStop, Deadline
<1>4. CASE Drained \/ StopWorker \/ WaitOutbox
  BY <1>4 DEF Drained, StopWorker, WaitOutbox
<1>5. CASE WaitAudit
  BY <1>5, LifecycleAssumption DEF WaitAudit
<1>6. CASE RunDeferred
  BY <1>6 DEF RunDeferred
<1>7. CASE Exit
  BY <1>7 DEF Exit
<1> QED
  BY <1>1, <1>2, <1>3, <1>4, <1>5, <1>6, <1>7 DEF Main

\* The steps of run() let every transaction go on.
LEMMA MainRunning == ASSUME TypeInv, UseInv, Main PROVE RunningInv'
<1>1. CASE Boot
  <2>1. pc' = pc /\ call' = call
    BY <1>1 DEF Boot, poolVars
  <2>2. worker' = worker \/ worker' = [w \in Workers |-> "looping"]
    BY <1>1 DEF Boot
  <2> QED
    BY <2>1, <2>2 DEF UseInv, RunningInv, Running
<1>2. CASE ~Boot
  <2>1. UNCHANGED <<worker, call, pc>>
    BY <1>2 DEF Main, BootFails, Select, SetNotServing, GracefulStop, Deadline, Drained,
       StopWorker, WaitOutbox, WaitAudit, RunDeferred, Exit, poolVars
  <2> QED
    BY <2>1 DEF UseInv, RunningInv, Running
<1> QED
  BY <1>1, <1>2

\* UseInv is kept by every step.
LEMMA NextUse == TypeInv /\ PoolTypeOK /\ UseInv /\ [Next]_vars => UseInv'
<1> SUFFICES ASSUME TypeInv, PoolTypeOK, UseInv, [Next]_vars PROVE UseInv'
  OBVIOUS
<1>0. LifeTypeOK
  BY DEF TypeInv
<1> USE DEF UseInv, BootInv, ServingInv, ShutdownInv, NoCalls, Idle
<1>1. CASE Signal \/ ServeFails \/ Ended \/ UNCHANGED vars
  BY <1>1 DEF Signal, ServeFails, Ended, vars, lifeVars, poolVars, RunningInv, Running
<1>2. ASSUME NEW w \in Workers, WorkerExits(w)
      PROVE  UseInv'
  <2>1. BootInv' /\ ServingInv' /\ ShutdownInv'
    BY <1>0, <1>2, LifecycleAssumption DEF WorkerExits, LifeTypeOK
  <2>2. RunningInv'
    BY <1>0, <1>2 DEF WorkerExits, LifeTypeOK, RunningInv, Running, poolVars
  <2> QED
    BY <2>1, <2>2
<1>3. ASSUME NEW c \in Handlers, Accept(c) \/ EndCall(c)
      PROVE  UseInv'
  <2>1. BootInv' /\ ServingInv' /\ ShutdownInv'
    BY <1>0, <1>3 DEF Accept, EndCall, LifeTypeOK
  <2>2. RunningInv'
    <3>1. c \notin Workers
      BY PoolAssumption
    <3> QED
      BY <1>0, <1>3, <3>1 DEF Accept, EndCall, LifeTypeOK, RunningInv, Running, poolVars, Users
  <2> QED
    BY <2>1, <2>2
<1>4. ASSUME NEW u \in Users, Transact(u)
      PROVE  UseInv'
  <2>1. UNCHANGED lifeVars
    BY <1>4 DEF Transact
  <2> QED
    BY <1>4, <2>1, TransactOfOne DEF lifeVars
<1>5. CASE Main
  BY <1>5, MainUse, MainRunning
<1> QED
  BY <1>1, <1>2, <1>3, <1>4, <1>5 DEF Next

\* UseInv has what the users of an orderly process need.
LEMMA UseImplies == TypeInv /\ UseInv => ResourcesOutliveUsers
<1>0. UseInv => \A w \in Workers : Idle(w) => pc[w] = "idle"
  BY DEF UseInv, RunningInv, Running, Idle, Users
<1> SUFFICES ASSUME TypeInv, UseInv, ~err PROVE
      /\ NoCalls \/ {"requestPool", "redis"} \subseteq open
      /\ (\A w \in Workers : Idle(w)) \/ {"workerPool", "producer"} \subseteq open
  BY <1>0, LifecycleAssumption DEF ResourcesOutliveUsers, NoCalls
<1> USE DEF UseInv, Idle
<1>1. CASE main = "boot"
  <2>1. NoCalls /\ step \in 1 .. 10
    BY <1>1, Steps DEF BootInv, TypeInv, LifeTypeOK
  <2>2. CASE step <= 9
    BY <1>1, <2>1, <2>2 DEF BootInv
  <2>3. CASE step = 10
    <3>1. BootSteps[5] \in open /\ BootSteps[8] \in open
      BY <1>1, <2>3, Steps DEF BootInv, Resources
    <3> QED
      BY <2>1, <3>1, Steps
  <2> QED
    BY <2>1, <2>2, <2>3
<1>2. CASE main \in {"return", "exited"}
  BY <1>2 DEF ShutdownInv
<1>3. CASE main \notin {"boot", "return", "exited"}
  BY <1>3 DEF ServingInv, TypeInv, LifeTypeOK, Resources
<1> QED
  BY <1>1, <1>2, <1>3

\* Unless run() returns an error, the pools, Redis and the producer are closed after the last
\* handler has returned and the last drain has ended.
THEOREM LifecycleResourcesOutliveUsers == Spec => []ResourcesOutliveUsers
<1>1. Init => UseInv
  <2>1. Init => /\ main = "boot" /\ server = "none" /\ step = 1 /\ NoCalls
                /\ \A w \in Workers : worker[w] = "none"
                /\ RunningInv
    BY DEF Init, PoolInit, NoCalls, RunningInv
  <2> QED
    BY <2>1 DEF UseInv, BootInv, ServingInv, ShutdownInv
<1> QED
  BY <1>1, NextUse, UseImplies, TypeInvariant, LifecycleImplementsPool, PoolTypeCorrect, PTL
     DEF Spec
=============================================================================
