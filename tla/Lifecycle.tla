------------------------------ MODULE Lifecycle ------------------------------
(***************************************************************************)
(* The life of a ledger-svc process: run() of cmd/server/main.go from boot *)
(* through serving to shutdown, beside the outbox and audit workers and    *)
(* the handlers of the calls in flight, composed with the transactions     *)
(* that these run on the connection pools (Pool).                          *)
(*                                                                         *)
(* run() opens its resources in the order of BootSteps, defers the release *)
(* of each, and returns either at the first error or at the end of the     *)
(* shutdown sequence; returning runs the deferred releases, last one       *)
(* first.  A handler may run several transactions; the process that exits  *)
(* takes its goroutines along, wherever they are.                          *)
(***************************************************************************)
EXTENDS Pool, Sequences

CONSTANTS OutboxWorkers,  \* goroutines of OutboxWorker.Run
          AuditWorker,    \* the goroutine of AuditWorker.Run
          Failures        \* the steps of run() that may return an error

\* The steps of run() that can return before it serves, and "serve" itself.
FallibleSteps == {"otel", "metrics", "requestPool", "workerPool", "redis", "ping", "producer",
                  "listen", "serve"}

ASSUME LifecycleAssumption ==
    /\ AuditWorker \notin OutboxWorkers /\ Workers = OutboxWorkers \cup {AuditWorker}
    /\ Failures \subseteq FallibleSteps

VARIABLES
    main,     \* where run() is
    step,     \* the boot step run() is at
    err,      \* run() returns an error
    defers,   \* the stack of deferred releases
    open,     \* the resources acquired and not released
    signal,   \* SIGINT or SIGTERM has arrived: ctx is done
    stopped,  \* stopWorker() has been called
    healthy,  \* the health service answers SERVING
    server,   \* the gRPC server
    worker,   \* worker[w]: whether the goroutine is started and loops
    call      \* call[c]: whether the goroutine handles a call

lifeVars == <<main, step, err, defers, open, signal, stopped, healthy, server, worker, call>>
vars == <<lifeVars, poolVars>>

BootSteps == <<"otel", "metrics", "requestPool", "reqStats", "workerPool", "redis", "ping",
               "producer", "workers", "listen">>

\* The boot steps that acquire something and defer its release.  For "workers" that is
\* defer stopWorker(); the listener is released by the shutdown sequence alone.
Resources == {"otel", "metrics", "requestPool", "reqStats", "workerPool", "redis",
              "producer", "workers"}

\* The boot steps that fail once ctx is done: they ping the database or Redis with it.
PingSteps == {"requestPool", "workerPool", "ping"}

LifeTypeOK ==
    /\ main \in {"boot", "serving", "setNotServing", "gracefulStop", "stopWorker",
                 "waitOutbox", "waitAudit", "return", "exited"}
    /\ step \in 1 .. Len(BootSteps)
    /\ err \in BOOLEAN
    /\ defers \in Seq(Resources)
    /\ open \subseteq Resources
    /\ signal \in BOOLEAN /\ stopped \in BOOLEAN /\ healthy \in BOOLEAN
    /\ server \in {"none", "serving", "failed", "draining", "killed", "stopped"}
    /\ worker \in [Workers -> {"none", "looping", "exited"}]
    /\ call \in [Handlers -> {"none", "running"}]

TypeOK == LifeTypeOK /\ PoolTypeOK

Init ==
    /\ main = "boot"
    /\ step = 1
    /\ err = FALSE
    /\ defers = <<>>
    /\ open = {}
    /\ signal = FALSE /\ stopped = FALSE /\ healthy = FALSE
    /\ server = "none"
    /\ worker = [w \in Workers |-> "none"]
    /\ call = [c \in Handlers |-> "none"]
    /\ PoolInit

\* workerCtx is a child of the signal context.
WorkerCtxDone == signal \/ stopped

\* The context of u's goroutine: Stop cancels the ones of the calls in flight.
CtxDone(u) == IF u \in Workers THEN WorkerCtxDone ELSE server = "killed"

\* The deferred release that runs next.
Top == defers[Len(defers)]

\* The pool that u's connections come from.  pool.Close refuses new acquisitions while it
\* waits for the connections in use.
ResourceOf(p) == IF p = "request" THEN "requestPool" ELSE "workerPool"
Closing(r) == main = "return" /\ defers # <<>> /\ Top = r
Usable(p) == ResourceOf(p) \in open /\ ~Closing(ResourceOf(p))

\* The process receives SIGINT or SIGTERM.
Signal ==
    /\ ~signal /\ main # "exited"
    /\ signal' = TRUE
    /\ UNCHANGED <<main, step, err, defers, open, stopped, healthy, server, worker, call, poolVars>>

-----------------------------------------------------------------------------
(* Boot *)

DeferEveryStep(s) ==
    /\ open' = open \cup ({s} \cap Resources)
    /\ defers' = Append(defers, s)

DeferUnlessPool(s) ==
    /\ open' = open \cup ({s} \cap Resources)
    /\ defers' = IF s \in Resources \ {"workerPool"} THEN Append(defers, s) ELSE defers

\* What a step acquires it defers the release of.
Defer(s) ==
    /\ open' = open \cup ({s} \cap Resources)
    /\ defers' = IF s \in Resources THEN Append(defers, s) ELSE defers

\* The current boot step succeeds; the last one goes on to serve.
Boot ==
    LET s == BootSteps[step] IN
    /\ main = "boot"
    /\ ~(signal /\ s \in PingSteps)
    /\ Defer(s)
    /\ worker' = IF s = "workers" THEN [w \in Workers |-> "looping"] ELSE worker
    /\ IF s = "listen" THEN main' = "serving" /\ server' = "serving" /\ healthy' = TRUE
                            /\ UNCHANGED step
                       ELSE step' = step + 1 /\ UNCHANGED <<main, server, healthy>>
    /\ UNCHANGED <<err, signal, stopped, call, poolVars>>

\* The current boot step fails and run() returns its error.
BootFails ==
    LET s == BootSteps[step] IN
    /\ main = "boot"
    /\ s \in Failures \/ (signal /\ s \in PingSteps)
    /\ main' = "return" /\ err' = TRUE
    /\ UNCHANGED <<step, defers, open, signal, stopped, healthy, server, worker, call, poolVars>>

-----------------------------------------------------------------------------
(* Serving *)

\* srv.Serve gives up: the listener is gone, the connections are still served.
ServeFails ==
    /\ main = "serving" /\ server = "serving" /\ "serve" \in Failures
    /\ server' = "failed"
    /\ UNCHANGED <<main, step, err, defers, open, signal, stopped, healthy, worker, call, poolVars>>

\* select: the error of Serve returns from run(), the signal starts the shutdown.
Select ==
    /\ main = "serving"
    /\ \/ server = "failed" /\ main' = "return" /\ err' = TRUE
       \/ signal /\ main' = "setNotServing" /\ UNCHANGED err
    /\ UNCHANGED <<step, defers, open, signal, stopped, healthy, server, worker, call, poolVars>>

-----------------------------------------------------------------------------
(* Shutdown *)

\* srv.SetNotServing(): calls are still accepted.
SetNotServing ==
    /\ main = "setNotServing"
    /\ healthy' = FALSE
    /\ main' = "gracefulStop"
    /\ UNCHANGED <<step, err, defers, open, signal, stopped, server, worker, call, poolVars>>

\* srv.GracefulStop begins: no call is accepted any more.
GracefulStop ==
    /\ main = "gracefulStop" /\ server \in {"serving", "failed"}
    /\ server' = "draining"
    /\ UNCHANGED <<main, step, err, defers, open, signal, stopped, healthy, worker, call, poolVars>>

DeadlineIgnored ==
    /\ FALSE
    /\ UNCHANGED vars

\* ShutdownTimeout passes during GracefulStop: Stop cancels the calls in flight.
Deadline ==
    /\ main = "gracefulStop" /\ server = "draining"
    /\ server' = "killed"
    /\ UNCHANGED <<main, step, err, defers, open, signal, stopped, healthy, worker, call, poolVars>>

\* The drain is over: no call is in flight.
Drained ==
    /\ main = "gracefulStop" /\ server \in {"draining", "killed"}
    /\ \A c \in Handlers : call[c] = "none"
    /\ server' = "stopped"
    /\ main' = "stopWorker"
    /\ UNCHANGED <<step, err, defers, open, signal, stopped, healthy, worker, call, poolVars>>

\* stopWorker()
StopWorker ==
    /\ main = "stopWorker"
    /\ stopped' = TRUE
    /\ main' = "waitOutbox"
    /\ UNCHANGED <<step, err, defers, open, signal, healthy, server, worker, call, poolVars>>

WaitOutboxForgotten ==
    /\ main = "waitOutbox"
    /\ main' = "waitAudit"
    /\ UNCHANGED <<step, err, defers, open, signal, stopped, healthy, server, worker, call, poolVars>>

\* worker.Wait()
WaitOutbox ==
    /\ main = "waitOutbox"
    /\ \A w \in OutboxWorkers : worker[w] = "exited"
    /\ main' = "waitAudit"
    /\ UNCHANGED <<step, err, defers, open, signal, stopped, healthy, server, worker, call, poolVars>>

\* auditWorker.Wait()
WaitAudit ==
    /\ main = "waitAudit"
    /\ worker[AuditWorker] = "exited"
    /\ main' = "return"
    /\ UNCHANGED <<step, err, defers, open, signal, stopped, healthy, server, worker, call, poolVars>>

\* run() returns: the deferred releases run, the latest first.  Closing a pool waits until
\* all its connections have come back; closing the producer or the Redis client waits for
\* nobody.
RunDeferred ==
    /\ main = "return" /\ defers # <<>>
    /\ \A p \in Pools : Top = ResourceOf(p) => free[p] = MaxConns[p]
    /\ open' = open \ {Top}
    /\ defers' = SubSeq(defers, 1, Len(defers) - 1)
    /\ stopped' = (stopped \/ Top = "workers")
    /\ UNCHANGED <<main, step, err, signal, healthy, server, worker, call, poolVars>>

\* Nothing is left to release: the process exits.
Exit ==
    /\ main = "return" /\ defers = <<>>
    /\ main' = "exited"
    /\ UNCHANGED <<step, err, defers, open, signal, stopped, healthy, server, worker, call, poolVars>>

-----------------------------------------------------------------------------
(* The workers and the calls *)

\* The loop of runOne (outbox) or runLoop (audit), or the sleep between two drains, sees its
\* context done.
WorkerExits(w) ==
    /\ main # "exited"
    /\ worker[w] = "looping" /\ pc[w] = "idle" /\ WorkerCtxDone
    /\ worker' = [worker EXCEPT ![w] = "exited"]
    /\ UNCHANGED <<main, step, err, defers, open, signal, stopped, healthy, server, call, poolVars>>

\* A call is accepted, over a connection that exists when the listener is gone.
Accept(c) ==
    /\ main # "exited"
    /\ call[c] = "none" /\ server \in {"serving", "failed"}
    /\ call' = [call EXCEPT ![c] = "running"]
    /\ UNCHANGED <<main, step, err, defers, open, signal, stopped, healthy, server, worker, poolVars>>

\* The handler returns, after a panic too (Recovery).
EndCall(c) ==
    /\ main # "exited"
    /\ call[c] = "running" /\ pc[c] = "idle"
    /\ call' = [call EXCEPT ![c] = "none"]
    /\ UNCHANGED <<main, step, err, defers, open, signal, stopped, healthy, server, worker, poolVars>>

Running(u) == IF u \in Workers THEN worker[u] = "looping" ELSE call[u] = "running"

\* A step of u's transaction.  A loop checks its context before a drain; an acquisition fails
\* once the context is done or the pool is closed.
Transact(u) ==
    /\ main # "exited"
    /\ \/ Running(u) /\ ~CtxDone(u) /\ Start(u)
       \/ ~CtxDone(u) /\ Usable(PoolOf(u)) /\ Acquire(u)
       \/ TxStep(u) \/ Panic(u)
    /\ UNCHANGED lifeVars

-----------------------------------------------------------------------------

Main ==
    \/ Boot \/ BootFails
    \/ Select
    \/ SetNotServing \/ GracefulStop \/ Deadline \/ Drained
    \/ StopWorker \/ WaitOutbox \/ WaitAudit
    \/ RunDeferred \/ Exit

\* requestPool.Close() waits for the connection of a handler that has panicked in InTx.
CloseBlocked == Closing("requestPool") /\ panics["request"] > 0

\* The process has exited, or is never going to.
Ended == (main = "exited" \/ CloseBlocked) /\ UNCHANGED vars

Next ==
    \/ Signal \/ ServeFails \/ Main \/ Ended
    \/ \E w \in Workers : WorkerExits(w)
    \/ \E c \in Handlers : Accept(c) \/ EndCall(c)
    \/ \E u \in Users : Transact(u)

Spec == Init /\ [][Next]_vars

\* run() and the runtime keep going, a timer fires, and what a done context interrupts ends:
\* a drain of a worker, a call after Stop.  A call that nobody cancels may never end.
Fairness ==
    /\ WF_vars(Main)
    /\ \A u \in Users : WF_vars(CtxDone(u) /\ Transact(u))
    /\ \A w \in Workers : WF_vars(WorkerExits(w))
    /\ \A c \in Handlers : WF_vars(server = "killed" /\ EndCall(c))

LiveSpec == Spec /\ Fairness

-----------------------------------------------------------------------------
(* Properties *)

\* Whatever step of boot or of serving fails, and whenever the signal comes, the process
\* exits with every resource it acquired released (the defers of run()).
NothingLeaks == main = "exited" => open = {}

\* Unless run() returns an error, everything is closed after its users are done: a handler
\* in flight has Redis and the request pool, a drain has the worker pool, and an outbox
\* drain the producer (main.go: GracefulStop and the two Waits come before the defers).
ResourcesOutliveUsers ==
    ~err =>
        /\ \A c \in Handlers : call[c] # "none" => {"requestPool", "redis"} \subseteq open
        /\ \A w \in Workers : pc[w] # "idle" => "workerPool" \in open
        /\ \A w \in OutboxWorkers : pc[w] # "idle" => "producer" \in open

\* The signal ends the process, at whatever point of boot or serving it comes and although
\* a handler may never return by itself: the deadline of GracefulStop falls through to Stop
\* (server.go).  Two things exempt it.  After a failure of Serve run() skips the shutdown
\* sequence, and the deferred close of the request pool waits for handlers that nobody
\* cancels.  After a panic of a handler inside InTx (tx.go) it waits for a connection that
\* nobody gives back.
SignalEndsProcess ==
    signal ~> (main = "exited" \/ server = "failed" \/ panics["request"] > 0)
=============================================================================
