------------------------------ MODULE MCOutbox ------------------------------
(* Instances of Outbox for TLC. *)
EXTENDS Outbox, TLC

CONSTANTS w1, w2, rec

\* The worker goroutines are interchangeable.
Symmetric == Permutations(Drainers \ Reconcilers)
=============================================================================
