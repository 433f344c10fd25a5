--------------------------- MODULE PaymentSettlement ---------------------------
(***************************************************************************)
(* How one order is paid.  Three kinds of request handlers work on the     *)
(* payment attempts of an order at the same time, with no lock between     *)
(* their database statements except where the code takes one:              *)
(*                                                                         *)
(*   initialisers  POST /api/payments/paystack/initialize                  *)
(*   webhooks      POST /api/payments/paystack/webhook                     *)
(*   verifiers     POST /api/payments/paystack/verify                      *)
(*                                                                         *)
(* Each action is one database statement or transaction, or one call to    *)
(* Paystack, of a handler; a handler remembers in h[p] where it is and     *)
(* what it has read.  The buyer may cancel the order at any time.          *)
(*                                                                         *)
(* Nothing two orders share takes part: the advisory lock, the sibling     *)
(* check and every WHERE clause name one order, so one order is modelled.  *)
(***************************************************************************)
EXTENDS LifecycleRules, Naturals, FiniteSets

CONSTANTS
    MaxAttempts,    \* bound: payment rows the order can ever get
    Initialisers,   \* bound: concurrent initialize requests
    Webhooks,       \* bound: concurrent webhook deliveries
    Verifiers,      \* bound: concurrent verify requests
    MaxFaults,      \* bound: faults in a behaviour
    FaultKinds      \* the faults a run allows, a subset of AllFaultKinds

\* A handler dies between two of its statements (process killed, function
\* timed out, database error answered with a 500), or the creation of the
\* supplier tasks fails.
AllFaultKinds == {"initialise", "webhook", "verify", "fanout"}

Settlers == Webhooks \cup Verifiers
Handlers == Initialisers \cup Settlers

ASSUME SettlementAssumption ==
    /\ MaxAttempts \in Nat
    /\ MaxFaults \in Nat
    /\ FaultKinds \subseteq AllFaultKinds
    /\ Initialisers \cap Settlers = {}
    /\ Webhooks \cap Verifiers = {}

\* A payment row is known by its rank in creation order (createdAt).
Attempts == 1 .. MaxAttempts

VARIABLES
    order,        \* Order.status
    payment,      \* Payment.status of each attempt, "ABSENT" before its INSERT
    paystack,     \* what Paystack knows of the attempt's transaction
    event,        \* PaymentEvent.processingStatus of its charge.success event
    acked,        \* a delivery of that event was answered 200
    audited,      \* number of payment.success audits of the attempt
    flags,        \* payment.anomaly audits of the attempt
    tasks,        \* the order's supplier fulfilment tasks exist
    h,            \* what each handler is doing
    faultsLeft

vars == <<order, payment, paystack, event, acked, audited, flags, tasks, h,
          faultsLeft>>

dbVars    == <<order, payment, event>>
trailVars == <<audited, flags, tasks>>

-------------------------------------------------------------------------------
(***************************************************************************)
(* Handlers.                                                               *)
(***************************************************************************)

\* pc      the next statement of the handler
\* att     the attempt it works on, 0 for none
\* mode    how it reached the order transition: it "claimed" the payment, it
\*         saw another's claim and settles again ("replay"), or it only runs
\*         the order transition ("heal")
\* anomaly what the order transition reported
Modes     == {"none", "claimed", "replay", "heal"}
Anomalies == {"none", "order_cancelled", "invalid_transition",
              "superseded_success"}
Pcs == {"idle",
        "lookup", "create", "call", "persist",                 \* initialisers
        "corroborate", "refuse", "claim", "recover",           \* webhooks
        "load", "ask", "fail",                                 \* verifiers
        "superseded", "pay_read", "pay_claim", "breadcrumbs", "fanout"}

HandlerState ==
    [pc : Pcs, att : Attempts \cup {0}, mode : Modes, anomaly : Anomalies]

Idle == [pc |-> "idle", att |-> 0, mode |-> "none", anomaly |-> "none"]
At(pc, a) == [Idle EXCEPT !.pc = pc, !.att = a]
Paying(a, mode) == [At("pay_read", a) EXCEPT !.mode = mode]

Become(p, state) == h' = [h EXCEPT ![p] = state]

\* The handler returns; a webhook delivery that returns has been answered 200.
Return(p) ==
    /\ Become(p, Idle)
    /\ acked' = IF p \in Webhooks THEN [acked EXCEPT ![h[p].att] = TRUE] ELSE acked

Created == {a \in Attempts : payment[a] # "ABSENT"}
Active  == {a \in Attempts : payment[a] \in CLAIMABLE_PAYMENT_STATUSES}
Settled == {a \in Attempts : payment[a] = "SUCCESS"}

-------------------------------------------------------------------------------
Init ==
    /\ order = "PENDING"
    /\ payment = [a \in Attempts |-> "ABSENT"]
    /\ paystack = [a \in Attempts |-> "unknown"]
    /\ event = [a \in Attempts |-> "NONE"]
    /\ acked = [a \in Attempts |-> FALSE]
    /\ audited = [a \in Attempts |-> 0]
    /\ flags = [a \in Attempts |-> {}]
    /\ tasks = FALSE
    /\ h = [p \in Handlers |-> Idle]
    /\ faultsLeft = MaxFaults

(***************************************************************************)
(* Paystack, as the code uses it.                                          *)
(***************************************************************************)

\* The buyer completes the hosted checkout: the money is collected, in the
\* amount and currency asked for or (mispaid) in another one.
Collect(a) ==
    /\ paystack[a] = "open"
    /\ \E result \in {"collected", "mispaid"} :
            paystack' = [paystack EXCEPT ![a] = result]
    /\ UNCHANGED <<dbVars, acked, trailVars, h, faultsLeft>>

\* The buyer's bank or operator declines the charge.
Decline(a) ==
    /\ paystack[a] = "open"
    /\ paystack' = [paystack EXCEPT ![a] = "declined"]
    /\ UNCHANGED <<dbVars, acked, trailVars, h, faultsLeft>>

\* The answers GET /transaction/verify/{reference} can give.  The API may be
\* unreachable; it may lag behind the event it just sent; and a checkout the
\* buyer left open is reported "abandoned" although it can still be completed.
VerifyAnswers(a) ==
    {"error"} \cup
    CASE paystack[a] = "open"      -> {"pending", "abandoned"}
      [] paystack[a] = "collected" -> {"success", "pending"}
      [] paystack[a] = "mispaid"   -> {"mismatch", "pending"}
      [] paystack[a] = "declined"  -> {"failed"}
      [] OTHER                     -> {}

(***************************************************************************)
(* POST /api/payments/paystack/initialize.                                 *)
(***************************************************************************)

\* The order must be PENDING when it is read.
InitialiseReadOrder(p) ==
    /\ h[p].pc = "idle"
    /\ order = "PENDING"
    /\ Become(p, At("lookup", 0))
    /\ UNCHANGED <<dbVars, paystack, acked, trailVars, faultsLeft>>

\* An attempt in flight ends the request: its access code is handed out again,
\* or, when none is stored yet, the request is refused.
InitialiseLookup(p) ==
    /\ h[p].pc = "lookup"
    /\ Become(p, IF Active # {} THEN Idle ELSE At("create", 0))
    /\ UNCHANGED <<dbVars, paystack, acked, trailVars, faultsLeft>>

InitialiseCreate(p) ==
    /\ h[p].pc = "create"
    /\ \E a \in Attempts \ Created :
        /\ \A b \in Attempts \ Created : a <= b
        /\ payment' = [payment EXCEPT ![a] = "PENDING"]
        /\ Become(p, At("call", a))
    /\ UNCHANGED <<order, event, paystack, acked, trailVars, faultsLeft>>

\* The call to Paystack: accepted and answered, accepted with the answer lost
\* (a timeout), or not accepted.  The row stays PENDING in the last two.
InitialiseCall(p) ==
    LET a == h[p].att IN
    /\ h[p].pc = "call"
    /\ \/ /\ paystack' = [paystack EXCEPT ![a] = "open"]
          /\ \/ Become(p, At("persist", a))
             \/ Become(p, Idle)
       \/ /\ Become(p, Idle)
          /\ UNCHANGED paystack
    /\ UNCHANGED <<dbVars, acked, trailVars, faultsLeft>>

\* updateMany WHERE status = PENDING: an attempt that settled meanwhile stays.
InitialisePersist(p) ==
    LET a == h[p].att IN
    /\ h[p].pc = "persist"
    /\ payment' = IF payment[a] = "PENDING"
                  THEN [payment EXCEPT ![a] = "PROCESSING"] ELSE payment
    /\ Become(p, Idle)
    /\ UNCHANGED <<order, event, paystack, acked, trailVars, faultsLeft>>

\* Bound: no row is left in the model.
InitialiseOutOfAttempts(p) ==
    /\ h[p].pc = "create"
    /\ Created = Attempts
    /\ Become(p, Idle)
    /\ UNCHANGED <<dbVars, paystack, acked, trailVars, faultsLeft>>

(***************************************************************************)
(* The success claim, one transaction under the order's advisory lock.     *)
(***************************************************************************)

\* Mutant of SuccessClaim: the sibling check is forgotten.
SuccessClaimWithoutSiblings(a) ==
    CASE payment[a] = "SUCCESS"                   -> "already_success"
      [] payment[a] \in CLAIMABLE_PAYMENT_STATUSES -> "claimed"
      [] OTHER                                    -> "already_terminal_other"

SuccessClaim(a) ==
    CASE payment[a] = "SUCCESS"                          -> "already_success"
      [] payment[a] \notin {"SUCCESS"} \cup CLAIMABLE_PAYMENT_STATUSES
                                                         -> "already_terminal_other"
      [] payment[a] \in CLAIMABLE_PAYMENT_STATUSES
         /\ \E b \in Attempts \ {a} : payment[b] = "SUCCESS"
                                                         -> "superseded"
      [] OTHER                                           -> "claimed"

ApplySuccessClaim(a) ==
    payment' = IF SuccessClaim(a) = "claimed"
               THEN [payment EXCEPT ![a] = "SUCCESS"] ELSE payment

(***************************************************************************)
(* POST /api/payments/paystack/webhook, for a signed charge.success.       *)
(***************************************************************************)

\* Paystack delivers the event, and delivers it again until it is answered
\* 200; duplicates of an answered delivery may still be on their way.  The row
\* is located by reference; another amount or currency refuses the event.
WebhookArrive(p, a) ==
    /\ h[p].pc = "idle"
    /\ paystack[a] \in {"collected", "mispaid"}
    /\ Become(p, At(IF paystack[a] = "mispaid" THEN "refuse" ELSE "corroborate", a))
    /\ UNCHANGED <<dbVars, paystack, acked, trailVars, faultsLeft>>

\* Paystack's API decides, not the callback.
WebhookCorroborate(p) ==
    /\ h[p].pc = "corroborate"
    /\ \E answer \in VerifyAnswers(h[p].att) :
            Become(p, At(IF answer = "success" THEN "claim" ELSE "refuse", h[p].att))
    /\ UNCHANGED <<dbVars, paystack, acked, trailVars, faultsLeft>>

\* Mutant of WebhookRefuse: a refused event is answered 200 without a record.
WebhookRefuseUnrecorded(p) ==
    /\ h[p].pc = "refuse"
    /\ Return(p)
    /\ UNCHANGED <<dbVars, paystack, trailVars, faultsLeft>>

\* recordEvent: the event is stored as FAILED and answered 200, unless its id
\* is already taken.
WebhookRefuse(p) ==
    LET a == h[p].att IN
    /\ h[p].pc = "refuse"
    /\ IF event[a] = "NONE"
       THEN /\ event' = [event EXCEPT ![a] = "FAILED"]
            /\ Return(p)
       ELSE /\ Become(p, At("recover", a))
            /\ UNCHANGED <<event, acked>>
    /\ UNCHANGED <<order, payment, paystack, trailVars, faultsLeft>>

\* ONE transaction: the event row and the claim.  A taken event id (P2002)
\* rolls it back; a claim that does not win leaves the event IGNORED.
WebhookClaim(p) ==
    LET a == h[p].att IN
    /\ h[p].pc = "claim"
    /\ IF event[a] # "NONE"
       THEN /\ Become(p, At("recover", a))
            /\ UNCHANGED <<payment, event, acked>>
       ELSE /\ ApplySuccessClaim(a)
            /\ event' = [event EXCEPT ![a] =
                            IF SuccessClaim(a) = "claimed" THEN "PROCESSED" ELSE "IGNORED"]
            /\ CASE SuccessClaim(a) = "claimed" ->
                        Become(p, Paying(a, "claimed")) /\ UNCHANGED acked
                 [] SuccessClaim(a) = "superseded" ->
                        Become(p, At("superseded", a)) /\ UNCHANGED acked
                 [] OTHER -> Return(p)
    /\ UNCHANGED <<order, paystack, trailVars, faultsLeft>>

\* Mutant of WebhookRecover: a duplicate delivery is only answered.
WebhookRecoverNothing(p) ==
    /\ h[p].pc = "recover"
    /\ Return(p)
    /\ UNCHANGED <<dbVars, paystack, trailVars, faultsLeft>>

\* recoveredDuplicate: the payment is read again; a SUCCESS heals the order.
WebhookRecover(p) ==
    LET a == h[p].att IN
    /\ h[p].pc = "recover"
    /\ IF payment[a] = "SUCCESS"
       THEN Become(p, Paying(a, "heal")) /\ UNCHANGED acked
       ELSE Return(p)
    /\ UNCHANGED <<dbVars, paystack, trailVars, faultsLeft>>

(***************************************************************************)
(* POST /api/payments/paystack/verify.                                     *)
(***************************************************************************)

\* readBuyerPaymentSnapshot: only the LATEST attempt is verified, and only
\* while it is waiting.
VerifyReadSnapshot(p) ==
    /\ h[p].pc = "idle"
    /\ \E a \in Active :
        /\ \A b \in Created : b <= a
        /\ Become(p, At("load", a))
    /\ UNCHANGED <<dbVars, paystack, acked, trailVars, faultsLeft>>

\* verifyPaystackPaymentStatus reads the row again.
VerifyLoad(p) ==
    LET a == h[p].att IN
    /\ h[p].pc = "load"
    /\ Become(p, CASE payment[a] = "SUCCESS" -> Paying(a, "heal")
                   [] payment[a] \in CLAIMABLE_PAYMENT_STATUSES -> At("ask", a)
                   [] OTHER -> Idle)
    /\ UNCHANGED <<dbVars, paystack, acked, trailVars, faultsLeft>>

\* Mutant of VerifyAsk: the collected amount and currency are not compared.
VerifyAskAnyAmount(p) ==
    LET a == h[p].att IN
    /\ h[p].pc = "ask"
    /\ \E answer \in VerifyAnswers(a) :
            Become(p, IF answer \in {"success", "mismatch"} THEN At("claim", a) ELSE Idle)
    /\ UNCHANGED <<dbVars, paystack, acked, trailVars, faultsLeft>>

\* No answer, an unknown reference, a pending checkout or a mismatch changes
\* nothing; any other non-success is a terminal failure.
VerifyAsk(p) ==
    LET a == h[p].att IN
    /\ h[p].pc = "ask"
    /\ \E answer \in VerifyAnswers(a) :
            Become(p, CASE answer = "success" -> At("claim", a)
                        [] answer \in {"failed", "abandoned"} -> At("fail", a)
                        [] OTHER -> Idle)
    /\ UNCHANGED <<dbVars, paystack, acked, trailVars, faultsLeft>>

\* Mutants of VerifyFail: the failure is written unconditionally; an abandoned
\* checkout is written as the buyer's cancellation.
VerifyFailUnconditional(p) ==
    /\ h[p].pc = "fail"
    /\ payment' = [payment EXCEPT ![h[p].att] = "FAILED"]
    /\ Become(p, Idle)
    /\ UNCHANGED <<order, event, paystack, acked, trailVars, faultsLeft>>

VerifyFailAsCancelled(p) ==
    /\ h[p].pc = "fail"
    /\ payment' = [payment EXCEPT ![h[p].att] = "CANCELLED"]
    /\ Become(p, Idle)
    /\ UNCHANGED <<order, event, paystack, acked, trailVars, faultsLeft>>

\* claimPaymentFailure: conditional on the attempt still being claimable.
VerifyFail(p) ==
    LET a == h[p].att IN
    /\ h[p].pc = "fail"
    /\ payment' = IF payment[a] \in CLAIMABLE_PAYMENT_STATUSES
                  THEN [payment EXCEPT ![a] = "FAILED"] ELSE payment
    /\ Become(p, Idle)
    /\ UNCHANGED <<order, event, paystack, acked, trailVars, faultsLeft>>

VerifyClaim(p) ==
    LET a == h[p].att IN
    /\ h[p].pc = "claim"
    /\ ApplySuccessClaim(a)
    /\ Become(p, CASE SuccessClaim(a) = "claimed"         -> Paying(a, "claimed")
                   [] SuccessClaim(a) = "already_success" -> Paying(a, "replay")
                   [] SuccessClaim(a) = "superseded"      -> At("superseded", a)
                   [] OTHER                               -> Idle)
    /\ UNCHANGED <<order, event, paystack, acked, trailVars, faultsLeft>>

(***************************************************************************)
(* Step two of the settlement, shared by webhooks and verifiers.           *)
(***************************************************************************)

\* The audit of a second collection for an order a sibling has settled.
AuditSuperseded(p) ==
    /\ h[p].pc = "superseded"
    /\ flags' = [flags EXCEPT ![h[p].att] = @ \cup {"superseded_success"}]
    /\ Return(p)
    /\ UNCHANGED <<dbVars, paystack, audited, tasks, faultsLeft>>

\* Mutant of OrderTransitionDone: what the order transition reports is dropped.
OrderTransitionDoneSilently(p, anomaly) ==
    IF h[p].mode = "heal" THEN Return(p)
    ELSE /\ Become(p, [h[p] EXCEPT !.pc = "breadcrumbs"])
         /\ UNCHANGED acked

\* markOrderPaidForPayment is done: a healer is finished, a settler goes on.
OrderTransitionDone(p, anomaly) ==
    IF h[p].mode = "heal" THEN Return(p)
    ELSE /\ Become(p, [h[p] EXCEPT !.pc = "breadcrumbs", !.anomaly = anomaly])
         /\ UNCHANGED acked

\* markOrderPaid reads the order.  PAID is a no-op, a status that cannot become
\* PAID is an anomaly.  The amounts agree: the attempt copied the total of the
\* order, which never changes.
PayReadOrder(p) ==
    /\ h[p].pc = "pay_read"
    /\ CASE order = "PAID"                    -> OrderTransitionDone(p, "none")
         [] CanTransitionOrder(order, "PAID") ->
                Become(p, [h[p] EXCEPT !.pc = "pay_claim"]) /\ UNCHANGED acked
         [] OTHER                             -> OrderTransitionDone(p, "order_cancelled")
    /\ UNCHANGED <<dbVars, paystack, trailVars, faultsLeft>>

\* Mutant of PayClaimOrder: the order is updated without its WHERE clause.
PayClaimOrderUnconditional(p) ==
    /\ h[p].pc = "pay_claim"
    /\ order' = "PAID"
    /\ OrderTransitionDone(p, "none")
    /\ UNCHANGED <<payment, event, paystack, trailVars, faultsLeft>>

\* updateMany WHERE status = PENDING.  A lost race is reported with the status
\* that was READ, so it comes out as "invalid_transition" whatever won it.
PayClaimOrder(p) ==
    /\ h[p].pc = "pay_claim"
    /\ IF order = "PENDING"
       THEN order' = "PAID" /\ OrderTransitionDone(p, "none")
       ELSE UNCHANGED order /\ OrderTransitionDone(p, "invalid_transition")
    /\ UNCHANGED <<payment, event, paystack, trailVars, faultsLeft>>

\* Mutants of SettleBreadcrumbs: a replay audits again; the fan-out runs although
\* the order could not be paid.
SettleBreadcrumbsReplayed(p) ==
    LET a == h[p].att IN
    /\ h[p].pc = "breadcrumbs"
    /\ audited' = [audited EXCEPT ![a] = @ + 1]
    /\ Return(p)
    /\ UNCHANGED <<dbVars, paystack, tasks, flags, faultsLeft>>

SettleBreadcrumbsAlwaysFanOut(p) ==
    /\ h[p].pc = "breadcrumbs"
    /\ Become(p, [h[p] EXCEPT !.pc = "fanout"])
    /\ UNCHANGED <<dbVars, paystack, acked, trailVars, faultsLeft>>

\* The audits: payment.success by the one handler that claimed, and the anomaly.
\* The supplier fan-out follows only for a PAID order without an anomaly.
SettleBreadcrumbs(p) ==
    LET a == h[p].att IN
    /\ h[p].pc = "breadcrumbs"
    /\ audited' = IF h[p].mode = "claimed" THEN [audited EXCEPT ![a] = @ + 1] ELSE audited
    /\ IF h[p].anomaly = "none"
       THEN /\ Become(p, [h[p] EXCEPT !.pc = "fanout"])
            /\ UNCHANGED <<flags, acked>>
       ELSE /\ flags' = [flags EXCEPT ![a] = @ \cup {h[p].anomaly}]
            /\ Return(p)
    /\ UNCHANGED <<dbVars, paystack, tasks, faultsLeft>>

\* ensureSupplierFulfilmentsForPaidOrder: one task per supplier-sourced item,
\* keyed by the item, so that a second run creates none.  Best effort: a failed
\* creation is swallowed.
SettleFanout(p) ==
    /\ h[p].pc = "fanout"
    /\ \/ tasks' = TRUE /\ UNCHANGED faultsLeft
       \/ /\ "fanout" \in FaultKinds /\ faultsLeft > 0
          /\ faultsLeft' = faultsLeft - 1
          /\ UNCHANGED tasks
    /\ Return(p)
    /\ UNCHANGED <<dbVars, paystack, audited, flags>>

(***************************************************************************)
(* The buyer, the administrator, and faults.                               *)
(***************************************************************************)

\* cancelOrder's conditional claim (its inventory half is CheckoutInventory).
CancelOrder ==
    /\ CanTransitionOrder(order, "CANCELLED")
    /\ order' = "CANCELLED"
    /\ UNCHANGED <<payment, event, paystack, acked, trailVars, h, faultsLeft>>

\* The administrator re-runs the fan-out of a paid order.
EnsureFulfilments ==
    /\ order = "PAID"
    /\ tasks' = TRUE
    /\ UNCHANGED <<dbVars, paystack, acked, audited, flags, h, faultsLeft>>

KindOf(p) == IF p \in Initialisers THEN "initialise"
             ELSE IF p \in Webhooks THEN "webhook" ELSE "verify"

\* The handler is lost between two statements.  A webhook delivery that is lost
\* is not answered 200.
Crash(p) ==
    /\ h[p].pc # "idle"
    /\ KindOf(p) \in FaultKinds
    /\ faultsLeft > 0
    /\ faultsLeft' = faultsLeft - 1
    /\ Become(p, Idle)
    /\ UNCHANGED <<dbVars, paystack, acked, trailVars>>

-------------------------------------------------------------------------------
InitialiseStep(p) ==
    \/ InitialiseReadOrder(p) \/ InitialiseLookup(p) \/ InitialiseCreate(p)
    \/ InitialiseCall(p) \/ InitialisePersist(p) \/ InitialiseOutOfAttempts(p)

SettleStep(p) ==
    \/ AuditSuperseded(p) \/ PayReadOrder(p) \/ PayClaimOrder(p)
    \/ SettleBreadcrumbs(p) \/ SettleFanout(p)

\* A delivery that has arrived goes on; a verification that has started goes on.
WebhookStep(p) ==
    \/ WebhookCorroborate(p) \/ WebhookRefuse(p) \/ WebhookClaim(p)
    \/ WebhookRecover(p) \/ SettleStep(p)

VerifyStep(p) ==
    \/ VerifyLoad(p) \/ VerifyAsk(p) \/ VerifyFail(p) \/ VerifyClaim(p)
    \/ SettleStep(p)

Next ==
    \/ \E a \in Attempts : Collect(a) \/ Decline(a)
    \/ \E p \in Initialisers : InitialiseStep(p)
    \/ \E p \in Webhooks : WebhookStep(p) \/ \E a \in Attempts : WebhookArrive(p, a)
    \/ \E p \in Verifiers : VerifyReadSnapshot(p) \/ VerifyStep(p)
    \/ CancelOrder
    \/ EnsureFulfilments
    \/ \E p \in Handlers : Crash(p)

Spec == Init /\ [][Next]_vars

\* A handler that runs takes its next step unless it crashes, and Paystack
\* delivers an event again until a delivery is answered 200.  Nothing makes the
\* buyer pay, ask for a verification or retry, and no fault has to happen.
Redeliver(a) == ~acked[a] /\ \E p \in Webhooks : WebhookArrive(p, a)

Fairness ==
    /\ \A p \in Webhooks : WF_vars(WebhookStep(p))
    /\ \A p \in Verifiers : WF_vars(VerifyStep(p))
    /\ \A a \in Attempts : SF_vars(Redeliver(a))

FairSpec == Spec /\ Fairness

-------------------------------------------------------------------------------
(***************************************************************************)
(* Properties.                                                             *)
(***************************************************************************)

\* Every variable has its type: statuses are of their enums, and a handler's
\* statement, attempt, mode and anomaly are of the handler's kind.
TypeOK ==
    /\ order \in {"PENDING", "PAID", "CANCELLED"}
    /\ payment \in [Attempts -> {"ABSENT", "PENDING", "PROCESSING", "SUCCESS", "FAILED"}]
    /\ paystack \in [Attempts -> {"unknown", "open", "collected", "mispaid", "declined"}]
    /\ event \in [Attempts -> {"NONE", "FAILED", "PROCESSED", "IGNORED"}]
    /\ acked \in [Attempts -> BOOLEAN]
    /\ audited \in [Attempts -> Nat]
    /\ flags \in [Attempts -> SUBSET Anomalies]
    /\ tasks \in BOOLEAN
    /\ h \in [Handlers -> HandlerState]
    /\ faultsLeft \in 0 .. MaxFaults

\* One effective successful payment per order: whatever two attempts, their
\* webhooks and their status checks do at the same time, the order is never
\* settled by two payments (payment-service.ts:61-70).
OneEffectiveSuccess == \A a, b \in Settled : a = b

\* A PAID order is backed by money: one of its payments is SUCCESS, and Paystack
\* has collected exactly the amount asked for, whichever channel reported it
\* (payment-webhook-service.ts:48-63 and payment-verify-service.ts:255-278).
PaidIsBacked ==
    order = "PAID" => \E a \in Settled : paystack[a] = "collected"

\* The payment.success audit is written at most once for an attempt, and only
\* for one that settled, over all replays and recoveries (payment-service.ts:
\* 409-413).
SuccessAuditedOnce ==
    \A a \in Attempts : audited[a] <= 1 /\ (audited[a] = 1 => a \in Settled)

\* A delivery is answered 200 only after its event is on record, so Paystack
\* never stops retrying an event the shop has lost.
AckedIsRecorded == \A a \in Attempts : acked[a] => event[a] # "NONE"

\* Supplier tasks exist only for an order that was paid.
TasksOnlyForPaidOrder == tasks => order = "PAID"

Quiescent == \A p \in Handlers : h[p].pc = "idle"
NoFaults  == faultsLeft = MaxFaults

\* The event row and the claim commit together: an event marked PROCESSED
\* belongs to a settled payment.
ProcessedIsSettled == \A a \in Attempts : event[a] = "PROCESSED" => a \in Settled

\* What is recorded is carried through: a processed event has settled its payment
\* and, when no handler is left half-way and none was lost, a settled payment has
\* moved its order, or the order was cancelled first and the money collected for
\* it is flagged for reconciliation.
NothingLeftHalfway ==
    /\ ProcessedIsSettled
    /\ Quiescent /\ NoFaults =>
        \A a \in Settled :
            order = "PAID" \/ (order = "CANCELLED" /\ flags[a] # {})

\* A status moves only along the tables of LifecycleRules, whatever handlers have
\* read before they write: above all, terminal first wins, the first terminal
\* outcome recorded for an attempt or for the order is never rewritten
\* (payment-state-machine.ts:44-52, order-state-machine.ts:80-102).
OnlyLegalMoves ==
    [][/\ \A a \in Attempts :
            payment'[a] # payment[a] =>
                \/ payment[a] = "ABSENT" /\ payment'[a] = "PENDING"
                \/ CanPaymentTransition(payment[a], payment'[a])
       /\ order' # order => CanTransitionOrder(order, order')]_<<payment, order>>

Promise == INSTANCE OrderPayment WITH settled <- Settled

\* The handlers implement the promise of module OrderPayment.
ImplementsPromise == Promise!PromiseSpec

\* A settlement that a webhook recorded is carried to the order, whatever handlers
\* die in between: Paystack sends the event again until it is answered, and the
\* redelivery finds the event recorded and re-runs the order transition
\* (payment-webhook-service.ts:613-633).
RecordedSettlementMoves ==
    (\E a \in Attempts : event[a] = "PROCESSED") ~> (order # "PENDING")

-------------------------------------------------------------------------------
(***************************************************************************)
(* What comments of the code say, and the code does not do.                *)
(***************************************************************************)

\* initialize/route.ts:37-39: an in-flight attempt is reused, "so a double-click
\* cannot fork into two charges".
OneAttemptInFlight == \A a, b \in Active : a = b

\* payment-service.ts:79-88: the crash window between the claim and the order
\* transition "is closed by RECOVERY, not by hope: every path that observes a
\* SUCCESS payment re-runs the idempotent order transition".
SettledOrderMoves == (Settled # {}) ~> (order # "PENDING")

\* payment-webhook-service.ts:614: "a duplicate delivery must be both effect-free
\* AND recovery-capable": with nothing lost, a paid order gets its tasks.
PaidOrderGetsTasks == Quiescent /\ NoFaults /\ order = "PAID" => tasks
===============================================================================
