------------------------------- MODULE Breaker -------------------------------
(***************************************************************************)
(* The per-(tenant, method) circuit breaker of repository/breaker.go, one  *)
(* atomic operation at a time, under any number of goroutines that call    *)
(* Allow, run the transfer when admitted, and call RecordOutcome           *)
(* (repository/ledger_repo.go).  One key is modelled: keys share nothing.  *)
(* The two error returns between Allow and InTx cannot be taken: the       *)
(* use case has refused an incomplete envelope, and the marshalling of     *)
(* strings does not fail.                                                  *)
(*                                                                         *)
(* Time is one bit: whether OpenDuration has passed since openedAtNanos.   *)
(* The updates of the two counters are one step; their races change only   *)
(* the samples the ratio is taken over.                                    *)
(***************************************************************************)
EXTENDS Naturals

CONSTANTS Goroutines,
          MinSamples,
          RatioNum, RatioDen,  \* FailureRatio as a fraction
          MaxSamples           \* bound on the samples of a window

ASSUME BreakerAssumption ==
    /\ MinSamples \in Nat /\ RatioNum \in Nat /\ RatioDen \in Nat \ {0}
    /\ MaxSamples \in Nat \ {0}

VARIABLES
    state,     \* entry.state
    issued,    \* entry.trialIssued
    cooled,    \* OpenDuration has passed since entry.openedAtNanos
    total,     \* entry.total
    failures,  \* entry.failures
    pc,        \* pc[g]: the atomic operation g is about to do
    trial,     \* trial[g]: g was admitted by tryHalfOpenTrial
    capped,    \* capped[g]: g's transfer ended in ErrRetryCapReached
    panicked   \* a trial has panicked

vars == <<state, issued, cooled, total, failures, pc, trial, capped, panicked>>

\* idle and work are outside the breaker; the others name an atomic operation of Allow
\* (load to trial) or of RecordOutcome (record to tripState).
Locations == {"idle", "load", "check", "flip", "clear", "trial", "work", "record",
              "reopen", "reopenState", "close", "closeState", "release",
              "count", "countStale", "trip", "tripState"}

TypeOK ==
    /\ state \in {"Closed", "HalfOpen", "Open"}
    /\ issued \in BOOLEAN
    /\ cooled \in BOOLEAN
    /\ total \in 0 .. MaxSamples
    /\ failures \in 0 .. MaxSamples
    /\ pc \in [Goroutines -> Locations]
    /\ trial \in [Goroutines -> BOOLEAN]
    /\ capped \in [Goroutines -> BOOLEAN]
    /\ panicked \in BOOLEAN

Init ==
    /\ state = "Closed"
    /\ issued = FALSE
    /\ cooled = TRUE
    /\ total = 0 /\ failures = 0
    /\ pc = [g \in Goroutines |-> "idle"]
    /\ trial = [g \in Goroutines |-> FALSE]
    /\ capped = [g \in Goroutines |-> FALSE]
    /\ panicked = FALSE

At(g, l) == pc[g] = l
Goto(g, l) == pc' = [pc EXCEPT ![g] = l]

\* OpenDuration passes.
Cool ==
    /\ ~cooled
    /\ cooled' = TRUE
    /\ UNCHANGED <<state, issued, total, failures, pc, trial, capped, panicked>>

\* A request arrives: ExecuteTransfer calls Allow.
Arrive(g) ==
    /\ At(g, "idle")
    /\ Goto(g, "load")
    /\ UNCHANGED <<state, issued, cooled, total, failures, trial, capped, panicked>>

-----------------------------------------------------------------------------
(* Allow *)

\* The state is loaded: Closed admits the request.
Load(g) ==
    /\ At(g, "load")
    /\ Goto(g, CASE state = "Closed" -> "work" [] state = "Open" -> "check"
                 [] state = "HalfOpen" -> "trial")
    /\ UNCHANGED <<state, issued, cooled, total, failures, trial, capped, panicked>>

\* Open: the request is refused until OpenDuration has passed.
Check(g) ==
    /\ At(g, "check")
    /\ Goto(g, IF cooled THEN "flip" ELSE "idle")
    /\ UNCHANGED <<state, issued, cooled, total, failures, trial, capped, panicked>>

\* CompareAndSwap(Open, HalfOpen); the loser goes straight to the trial slot.
Flip(g) ==
    /\ At(g, "flip")
    /\ IF state = "Open" THEN state' = "HalfOpen" /\ Goto(g, "clear")
                         ELSE Goto(g, "trial") /\ UNCHANGED state
    /\ UNCHANGED <<issued, cooled, total, failures, trial, capped, panicked>>

\* The winner of the flip empties the trial slot.
Clear(g) ==
    /\ At(g, "clear")
    /\ issued' = FALSE
    /\ Goto(g, "trial")
    /\ UNCHANGED <<state, cooled, total, failures, trial, capped, panicked>>

\* tryHalfOpenTrial: CompareAndSwap(false, true) admits the request.
TryHalfOpenTrial(g) ==
    /\ At(g, "trial")
    /\ IF issued
       THEN Goto(g, "idle") /\ UNCHANGED <<issued, trial>>
       ELSE issued' = TRUE /\ trial' = [trial EXCEPT ![g] = TRUE] /\ Goto(g, "work")
    /\ UNCHANGED <<state, cooled, total, failures, capped, panicked>>

\* The admitted transfer runs and ends.
Work(g, capReached) ==
    /\ At(g, "work")
    /\ capped' = [capped EXCEPT ![g] = capReached]
    /\ Goto(g, "record")
    /\ UNCHANGED <<state, issued, cooled, total, failures, trial, panicked>>

-----------------------------------------------------------------------------
(* RecordOutcome *)

\* RecordOutcome returns.
Return(g) == Goto(g, "idle") /\ trial' = [trial EXCEPT ![g] = FALSE]

\* The transfer panics: ExecuteTransfer is left without RecordOutcome, which is not
\* deferred, and the Recovery interceptor keeps the server running.
Panic(g) ==
    /\ At(g, "work")
    /\ Return(g)
    /\ panicked' = (panicked \/ trial[g])
    /\ UNCHANGED <<state, issued, cooled, total, failures, capped>>

RecordClosesOnly(g) ==
    /\ At(g, "record")
    /\ IF capped[g] /\ state = "HalfOpen"
       THEN Return(g)
       ELSE /\ Goto(g, CASE state = "HalfOpen" -> "close"
                         [] state = "Closed" -> "count"
                         [] state = "Open" -> "countStale")
            /\ UNCHANGED trial
    /\ UNCHANGED <<state, issued, cooled, total, failures, capped, panicked>>

\* The state is loaded.
Record(g) ==
    /\ At(g, "record")
    /\ Goto(g, CASE state = "HalfOpen" -> (IF capped[g] THEN "reopen" ELSE "close")
                 [] state = "Closed" -> "count"
                 [] state = "Open" -> "countStale")
    /\ UNCHANGED <<state, issued, cooled, total, failures, trial, capped, panicked>>

\* HalfOpen and the cap reached: openedAtNanos, state and trialIssued are stored.
Reopen(g) ==
    /\ At(g, "reopen")
    /\ cooled' = FALSE
    /\ Goto(g, "reopenState")
    /\ UNCHANGED <<state, issued, total, failures, trial, capped, panicked>>

ReopenState(g) ==
    /\ At(g, "reopenState")
    /\ state' = "Open"
    /\ Goto(g, "release")
    /\ UNCHANGED <<issued, cooled, total, failures, trial, capped, panicked>>

CloseKeepingFailures(g) ==
    /\ At(g, "close")
    /\ total' = 0
    /\ Goto(g, "closeState")
    /\ UNCHANGED <<state, issued, cooled, failures, trial, capped, panicked>>

\* HalfOpen and the cap not reached: the counters are reset, then the state and
\* trialIssued are stored.
Close(g) ==
    /\ At(g, "close")
    /\ total' = 0 /\ failures' = 0
    /\ Goto(g, "closeState")
    /\ UNCHANGED <<state, issued, cooled, trial, capped, panicked>>

CloseState(g) ==
    /\ At(g, "closeState")
    /\ state' = "Closed"
    /\ Goto(g, "release")
    /\ UNCHANGED <<issued, cooled, total, failures, trial, capped, panicked>>

Release(g) ==
    /\ At(g, "release")
    /\ issued' = FALSE
    /\ Return(g)
    /\ UNCHANGED <<state, cooled, total, failures, capped, panicked>>

\* maybeReset and the two counters.  A window that has expired is emptied first.
AddSample(g) ==
    \/ /\ total < MaxSamples
       /\ total' = total + 1
       /\ failures' = failures + (IF capped[g] THEN 1 ELSE 0)
    \/ /\ total' = 1
       /\ failures' = (IF capped[g] THEN 1 ELSE 0)

OverThreshold(n, f) == n >= MinSamples /\ f * RatioDen >= RatioNum * n

\* Closed: count the sample and compare the ratio.
Count(g) ==
    /\ At(g, "count")
    /\ AddSample(g)
    /\ IF OverThreshold(total', failures')
       THEN Goto(g, "trip") /\ UNCHANGED trial
       ELSE Return(g)
    /\ UNCHANGED <<state, issued, cooled, capped, panicked>>

\* Open, a straggler: the sample is counted and nothing else.
CountStale(g) ==
    /\ At(g, "countStale")
    /\ AddSample(g)
    /\ Return(g)
    /\ UNCHANGED <<state, issued, cooled, capped, panicked>>

\* Trip: openedAtNanos is stored, then CompareAndSwap(Closed, Open).
Trip(g) ==
    /\ At(g, "trip")
    /\ cooled' = FALSE
    /\ Goto(g, "tripState")
    /\ UNCHANGED <<state, issued, total, failures, trial, capped, panicked>>

TripState(g) ==
    /\ At(g, "tripState")
    /\ state' = IF state = "Closed" THEN "Open" ELSE state
    /\ Return(g)
    /\ UNCHANGED <<issued, cooled, total, failures, capped, panicked>>

Allow(g) == Load(g) \/ Check(g) \/ Flip(g) \/ Clear(g) \/ TryHalfOpenTrial(g)

RecordOutcome(g) ==
    \/ Record(g) \/ Reopen(g) \/ ReopenState(g) \/ Close(g) \/ CloseState(g) \/ Release(g)
    \/ Count(g) \/ CountStale(g) \/ Trip(g) \/ TripState(g)

Next ==
    \/ Cool
    \/ \E g \in Goroutines :
          \/ Arrive(g) \/ Allow(g) \/ RecordOutcome(g) \/ Panic(g)
          \/ \E capReached \in BOOLEAN : Work(g, capReached)

Spec == Init /\ [][Next]_vars

\* Requests keep coming, goroutines run, transfers end and time passes; the contention
\* that makes transfers reach the retry cap stops at some time, and so do panics.
Fairness ==
    /\ WF_vars(Cool)
    /\ \A g \in Goroutines :
          WF_vars(Arrive(g) \/ Allow(g) \/ RecordOutcome(g)
                  \/ \E capReached \in BOOLEAN : Work(g, capReached))
    /\ <>[][~ \E g \in Goroutines : Work(g, TRUE) \/ Panic(g)]_vars

FairSpec == Spec /\ Fairness

-----------------------------------------------------------------------------
(* Properties *)

Quiet == \A g \in Goroutines : pc[g] = "idle"

\* The trial slot is never taken by nobody: once every request has left, a half-open
\* circuit has its slot free, whatever the races were (Allow, tryHalfOpenTrial and
\* RecordOutcome of breaker.go), unless a trial has panicked.  A slot taken by nobody
\* refuses the tenant for ever.
TrialSlotIsNotLeaked == Quiet /\ state = "HalfOpen" /\ issued => panicked

\* The circuit closes again once transfers stop hitting the retry cap and panicking, unless
\* a trial has panicked and taken the slot along.
CircuitCloses == state # "Closed" ~> (state = "Closed" \/ panicked)

\* h runs the half-open trial.
InTrial(h) == trial[h] /\ pc[h] = "work"

\* "The half-open trial then admits exactly one request": "the FIRST allow returns true";
\* "subsequent calls return false until the trial reports outcome via RecordOutcome"
\* (breaker.go).  The code does not keep it: the slot of a running trial is emptied by the
\* winner of the flip, who stores false after others can see HalfOpen, by a straggler of the
\* closed circuit whose outcome is taken for the trial's, or by an earlier trial between its
\* stores of the state and of the slot.
TrialIsAlone == \A g, h \in Goroutines : InTrial(g) /\ InTrial(h) => g = h
=============================================================================
