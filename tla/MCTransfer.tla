----------------------------- MODULE MCTransfer -----------------------------
(* Instances of Transfer for TLC. *)
EXTENDS Transfer, TLC

CONSTANTS r1, r2, r3, t1, t2, b1, b2, bad

\* Every body names accounts of t1: under t2 it fails the composite foreign key.
MCOwner == [b \in Bodies |-> t1]

\* The scope of the instance.  Requests differ in name only and are numbered in the order in
\* which they start.  Two of them meet any fault, the first one of tenant t1 and with retries.
\* The third one comes once the first has ended, in a run of well-formed requests of t1
\* without retries, and meets no fault itself; b1 and b2 differ in name only, so that it asks
\* for b1.  No step with a fairness condition is taken away.
Scope ==
    /\ pc'[r2] # "idle" => pc'[r1] # "idle"
    /\ pc'[r1] # "idle" => input'[r1].tenant = t1
    /\ attempt'[r2] = 0
    /\ pc'[r3] # "idle" =>
          /\ pc'[r1] \in {"done", "crashed"} /\ pc'[r2] # "idle"
          /\ input'[r3].body = b1
          /\ \A r \in Requests : /\ input'[r].tenant = t1
                                 /\ input'[r].body # bad
                                 /\ attempt'[r] = 0
    /\ Fault(r3) => Progress(r3)

Symmetric == Permutations(Requests)
=============================================================================
