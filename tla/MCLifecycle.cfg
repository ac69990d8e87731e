SPECIFICATION LiveSpec
CONSTANTS
    Handlers = {h1, h2}
    OutboxWorkers = {w1}
    AuditWorker = audit
    Workers = {w1, audit}
    RequestConns = 1
    WorkerConns = 1
    MaxConns <- MCMaxConns
    MaxAttempts = 2
    Failures = {"otel", "metrics", "requestPool", "workerPool", "redis", "ping", "producer", "listen", "serve"}
INVARIANTS
    TypeOK
    SlotsConserved
    NothingLeaks
    ResourcesOutliveUsers
PROPERTY
    SignalEndsProcess
