-------------------------- MODULE IdempotentLedger --------------------------
(***************************************************************************)
(* What a caller of the Transfer RPC may rely on, with Redis, Postgres,    *)
(* retries and crashes left out.  A call names a slot (tenant and          *)
(* idempotency key) and a body.  The ledger holds at most one transaction  *)
(* per slot.  A success hands back the slot's transaction and only to a    *)
(* caller with the same body; a definite error is a promise that the call  *)
(* has had no effect and never will; an "unknown" error promises nothing,  *)
(* so the call may still take effect after it has been answered.           *)
(***************************************************************************)
CONSTANTS Requests,   \* the calls of the Transfer RPC
          Inputs,     \* what a call may ask for: [tenant, key, body] records
          NoInput,    \* stands for "not called yet"
          NoTx        \* stands for "no transaction"

VARIABLES called,     \* called[r]: the input of call r
          entries,    \* the committed transactions: [tx, input] records
          reply,      \* reply[r]: "none", "success", "definite" or "unknown"
          replyTx     \* replyTx[r]: the transaction a success handed back

vars == <<called, entries, reply, replyTx>>

Kinds == {"none", "success", "definite", "unknown"}

SlotOf(i) == <<i.tenant, i.key>>

\* The transaction call r commits if it takes effect.
EntryOf(r) == [tx |-> r, input |-> called[r]]

Init ==
    /\ called = [r \in Requests |-> NoInput]
    /\ entries = {}
    /\ reply = [r \in Requests |-> "none"]
    /\ replyTx = [r \in Requests |-> NoTx]

\* The client calls.
Call(r, i) ==
    /\ called[r] = NoInput
    /\ called' = [called EXCEPT ![r] = i]
    /\ UNCHANGED <<entries, reply, replyTx>>

\* The client calls with an input the service refuses at once.
CallAndReject(r, i) ==
    /\ called[r] = NoInput
    /\ called' = [called EXCEPT ![r] = i]
    /\ reply' = [reply EXCEPT ![r] = "definite"]
    /\ UNCHANGED <<entries, replyTx>>

\* The call takes effect: its slot was free, and it has not been answered in a
\* way that rules an effect out.
Commit(r) ==
    /\ called[r] # NoInput
    /\ reply[r] \in {"none", "unknown"}
    /\ \A e \in entries : SlotOf(e.input) # SlotOf(called[r])
    /\ entries' = entries \cup {EntryOf(r)}
    /\ UNCHANGED <<called, reply, replyTx>>

\* The call takes effect and is told so at once.
CommitAndAnswer(r) ==
    /\ called[r] # NoInput
    /\ reply[r] = "none"
    /\ \A e \in entries : SlotOf(e.input) # SlotOf(called[r])
    /\ entries' = entries \cup {EntryOf(r)}
    /\ reply' = [reply EXCEPT ![r] = "success"]
    /\ replyTx' = [replyTx EXCEPT ![r] = r]
    /\ UNCHANGED called

\* The call is answered.  A success names the transaction of the slot, which was
\* made for the same input; a definite error is only given to a call without effect.
Answer(r, k) ==
    /\ called[r] # NoInput
    /\ reply[r] = "none"
    /\ reply' = [reply EXCEPT ![r] = k]
    /\ \/ /\ k = "success"
          /\ \E e \in entries : /\ e.input = called[r]
                                /\ replyTx' = [replyTx EXCEPT ![r] = e.tx]
       \/ /\ k = "definite"
          /\ \A e \in entries : e.tx # r
          /\ UNCHANGED replyTx
       \/ k = "unknown" /\ UNCHANGED replyTx
    /\ UNCHANGED <<called, entries>>

Next ==
    \E r \in Requests :
        \/ \E i \in Inputs : Call(r, i) \/ CallAndReject(r, i)
        \/ Commit(r) \/ CommitAndAnswer(r)
        \/ \E k \in Kinds : Answer(r, k)

Spec == Init /\ [][Next]_vars
=============================================================================
