----------------------------- MODULE MCLifecycle -----------------------------
(* Instance of Lifecycle and of Pool for TLC. *)
EXTENDS Lifecycle

CONSTANTS RequestConns, WorkerConns

MCMaxConns == [p \in Pools |-> IF p = "request" THEN RequestConns ELSE WorkerConns]
=============================================================================
