------------------------------- MODULE Gateway -------------------------------
(***************************************************************************)
(* The payment workflows of gateway-svc: the state machines and request    *)
(* checks of internal/domain, driven through the PaymentWorkflow port.     *)
(*                                                                         *)
(* The domain is code; the adapter behind the port is not in the           *)
(* repository.  Start, Signal and Cancel are therefore the least an        *)
(* adapter may do that calls the domain's predicates as they ask to be     *)
(* called: Validate before anything is stored, CanTransitionTo before      *)
(* every change, Cancellable before a cancellation.  A workflow is named   *)
(* by its (tenant, idempotency key).  An event is named by what it reports *)
(* and may be delivered at any time, again and in any order: one that was  *)
(* applied or does not apply to the current state changes nothing.         *)
(***************************************************************************)
EXTENDS Naturals, Sequences, FiniteSets

CONSTANTS Keys,      \* (tenant, idempotency key) pairs
          Requests,  \* [kind, amount, missing], missing the fields that are absent or malformed
          None       \* no workflow

VARIABLES
    request,   \* request[k]: what k was started with
    history,   \* history[k]: the states of k so far, Snapshot.History
    applied,   \* applied[k]: the events of k applied so far
    paged      \* paged[k]: the states in which Cancel met ErrInvalidTransition

workflowVars == <<request, history, applied, paged>>

CardStates == {"INITIATED", "AUTHORIZING", "AUTHORIZED", "CAPTURED", "SETTLED", "FAILED",
               "VOIDED", "REFUNDED", "CHARGEBACK", "ABANDONED"}

OutboundStates == {"REQUESTED", "IN_FLIGHT", "SETTLED", "REVERSED", "FAILED", "CANCELLED"}

ValidCardChargeRecapture(s) ==
    CASE s = "INITIATED"   -> {"AUTHORIZING"}
      [] s = "AUTHORIZING" -> {"AUTHORIZED", "FAILED"}
      [] s = "AUTHORIZED"  -> {"CAPTURED", "VOIDED", "ABANDONED"}
      [] s = "CAPTURED"    -> {"AUTHORIZED"}
      [] s = "SETTLED"     -> {"CHARGEBACK"}
      [] OTHER             -> {}

ValidCardChargeRefundable(s) ==
    CASE s = "INITIATED"   -> {"AUTHORIZING"}
      [] s = "AUTHORIZING" -> {"AUTHORIZED", "FAILED"}
      [] s = "AUTHORIZED"  -> {"CAPTURED", "VOIDED", "ABANDONED"}
      [] s = "CAPTURED"    -> {"SETTLED", "REFUNDED"}
      [] s = "SETTLED"     -> {"CHARGEBACK", "REFUNDED"}
      [] s = "REFUNDED"    -> {"CHARGEBACK"}
      [] OTHER             -> {}

\* validCardChargeTransitions.
ValidCardChargeTransitions(s) ==
    CASE s = "INITIATED"   -> {"AUTHORIZING"}
      [] s = "AUTHORIZING" -> {"AUTHORIZED", "FAILED"}
      [] s = "AUTHORIZED"  -> {"CAPTURED", "VOIDED", "ABANDONED"}
      [] s = "CAPTURED"    -> {"SETTLED", "REFUNDED"}
      [] s = "SETTLED"     -> {"CHARGEBACK"}
      [] OTHER             -> {}

ValidOutboundStoppable(s) ==
    CASE s = "REQUESTED" -> {"IN_FLIGHT", "CANCELLED", "FAILED"}
      [] s = "IN_FLIGHT" -> {"SETTLED", "FAILED", "CANCELLED"}
      [] s = "SETTLED"   -> {"REVERSED"}
      [] OTHER           -> {}

\* validOutboundTransitions.
ValidOutboundTransitions(s) ==
    CASE s = "REQUESTED" -> {"IN_FLIGHT", "CANCELLED", "FAILED"}
      [] s = "IN_FLIGHT" -> {"SETTLED", "FAILED"}
      [] s = "SETTLED"   -> {"REVERSED"}
      [] OTHER           -> {}

Transitions(kind, s) ==
    IF kind = "card_charge" THEN ValidCardChargeTransitions(s) ELSE ValidOutboundTransitions(s)

CanLeave(kind, s, next) == Transitions(kind, s) # {}

\* CanTransitionTo, of both state types.
CanTransitionTo(kind, s, next) == next \in Transitions(kind, s)

\* Terminal, of both state types: what a sweeper skips.
Terminal(kind, s) == Transitions(kind, s) = {}

\* CardChargeState.Cancellable.
CardChargeCancellable(s) == s \in {"INITIATED", "AUTHORIZING", "AUTHORIZED"}

\* OutboundBankTransferState.Cancellable.
OutboundCancellable(s) == s = "REQUESTED"

Cancellable(kind, s) ==
    IF kind = "card_charge" THEN CardChargeCancellable(s) ELSE OutboundCancellable(s)

\* The state a cancelled workflow ends in.
CancelState(kind) == IF kind = "card_charge" THEN "VOIDED" ELSE "CANCELLED"

\* Amount.IsZero knows the empty string and the spellings of zero of up to four decimals; a
\* longer zero and a negative amount are not zero to it.
IsZero(amount) == amount \in {"", "0", "0.0", "0.00", "0.000", "0.0000"}

\* CardChargeRequest.Validate: the ledger transfer is optional.
ValidateCardCharge(r) ==
    /\ r.missing \cap {"tenant", "key", "account", "currency", "paymentMethod"} = {}
    /\ ~IsZero(r.amount)

\* OutboundBankTransferRequest.Validate.
ValidateOutbound(r) ==
    /\ r.missing \cap {"tenant", "key", "account", "ledgerTransfer", "currency", "country",
                       "destination"} = {}
    /\ ~IsZero(r.amount)

Validate(r) == IF r.kind = "card_charge" THEN ValidateCardCharge(r) ELSE ValidateOutbound(r)

-----------------------------------------------------------------------------

Started(k) == history[k] # <<>>
State(k) == history[k][Len(history[k])]
Kind(k) == request[k].kind
StatesOf(kind) == IF kind = "card_charge" THEN CardStates ELSE OutboundStates

WorkflowTypeOK ==
    /\ request \in [Keys -> Requests \cup {None}]
    /\ DOMAIN history = Keys /\ DOMAIN applied = Keys /\ DOMAIN paged = Keys
    /\ \A k \in Keys :
          LET states == IF Started(k) THEN StatesOf(Kind(k)) ELSE {}
          IN  /\ history[k] \in Seq(states)
              /\ applied[k] \subseteq states
              /\ paged[k] \subseteq states
              /\ Started(k) => request[k] \in Requests

WorkflowInit ==
    /\ request = [k \in Keys |-> None]
    /\ history = [k \in Keys |-> <<>>]
    /\ applied = [k \in Keys |-> {}]
    /\ paged = [k \in Keys |-> {}]

\* k moves on to state s.
Move(k, s) == history' = [history EXCEPT ![k] = Append(@, s)]

\* Start: the request is checked and the workflow gets its first state.  Under a key that is
\* taken Start returns the workflow there is, or ErrIdempotencyConflict, and changes nothing.
Start(k, r) ==
    /\ ~Started(k)
    /\ Validate(r)
    /\ request' = [request EXCEPT ![k] = r]
    /\ Move(k, IF r.kind = "card_charge" THEN "INITIATED" ELSE "REQUESTED")
    /\ UNCHANGED <<applied, paged>>

\* Signal: a webhook, a timeout of the reconciler or a manual operation reports that the
\* payment has come to s.
Signal(k, s) ==
    /\ Started(k)
    /\ s \notin applied[k]
    /\ CanTransitionTo(Kind(k), State(k), s)
    /\ Move(k, s)
    /\ applied' = [applied EXCEPT ![k] = @ \cup {s}]
    /\ UNCHANGED <<request, paged>>

\* Cancel: ErrCannotCancel unless Cancellable; then the transition is checked like any other.
Cancel(k) ==
    /\ Started(k)
    /\ Cancellable(Kind(k), State(k))
    /\ IF CanTransitionTo(Kind(k), State(k), CancelState(Kind(k)))
       THEN /\ Move(k, CancelState(Kind(k)))
            /\ UNCHANGED paged
       ELSE /\ paged' = [paged EXCEPT ![k] = @ \cup {State(k)}]
            /\ UNCHANGED history
    /\ UNCHANGED <<request, applied>>

WorkflowNext ==
    \E k \in Keys :
        \/ \E r \in Requests : Start(k, r)
        \/ \E s \in CardStates \cup OutboundStates : Signal(k, s)
        \/ Cancel(k)

WorkflowSpec == WorkflowInit /\ [][WorkflowNext]_workflowVars

\* The provider reports on every payment that is still open, and redelivers until it is heard.
FairWorkflowSpec ==
    /\ WorkflowSpec
    /\ \A k \in Keys : WF_workflowVars(\E s \in CardStates \cup OutboundStates : Signal(k, s))

-----------------------------------------------------------------------------
(* Properties *)

\* States in which money has moved, and in which it has gone back.
Moved == {"CAPTURED", "IN_FLIGHT"}
GivenBack == {"REFUNDED", "CHARGEBACK", "REVERSED", "FAILED", "VOIDED", "CANCELLED", "ABANDONED"}

Times(k, states) == Cardinality({i \in DOMAIN history[k] : history[k][i] \in states})

\* However the events, their copies and the cancellations interleave, a payment is undone at
\* most once, and Terminal holds exactly when it is: no workflow of card_charge.go or
\* outbound_bank_transfer.go passes two states after each of which the amount is booked back,
\* and none is skipped by the sweepers while its money may still come back.
UndoneOnce ==
    \A k \in Keys :
        Started(k) => /\ Times(k, GivenBack) = (IF Terminal(Kind(k), State(k)) THEN 1 ELSE 0)
                      /\ Times(k, Moved) <= 1

\* A payment that was cancelled has not moved and never will: the card is not captured and the
\* transfer is not on the rail, whatever event arrives late ("Only legal pre-IN_FLIGHT",
\* outbound_bank_transfer.go; "we void the auth", card_charge.go).
CancelledNeverMoves ==
    \A k \in Keys :
        Times(k, {"VOIDED", "CANCELLED"}) > 0 => Times(k, Moved \cup {"SETTLED"}) = 0

\* ErrInvalidTransition "Should be unreachable in correct code", and ErrCannotCancel is the
\* answer for a state that "has no transition to a cancelled / voided terminal" (errors.go): a
\* cancellation that Cancellable lets through never meets a forbidden transition.  The code
\* does not keep it: Cancellable holds of INITIATED and AUTHORIZING (card_charge.go), from
\* which validCardChargeTransitions has no way to VOIDED.
CancelNeverPages == \A k \in Keys : paged[k] = {}

\* Once the provider reports, every workflow comes to an end that a sweeper may leave alone:
\* no sequence of legal transitions strands a payment half way.
EveryWorkflowEnds ==
    \A k \in Keys : Started(k) ~> (Started(k) /\ State(k) \in GivenBack \cup {"SETTLED"})
=============================================================================
