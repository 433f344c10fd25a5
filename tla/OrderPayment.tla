------------------------------ MODULE OrderPayment ------------------------------
(***************************************************************************)
(* What the payment surface promises of one order, whatever the handlers,  *)
(* their races and their crashes: at most one attempt ever settles it, an  *)
(* order becomes PAID only once an attempt has settled it, and an order    *)
(* that left PENDING stays where it went (payment-service.ts:61-70 and     *)
(* order-transition-service.ts:32-47).  PaymentSettlement implements it.   *)
(***************************************************************************)
CONSTANT Attempts

VARIABLES
    order,      \* Order.status, restricted to the statuses of the payment phase
    settled     \* the attempts whose payment row is SUCCESS

PromiseInit == order = "PENDING" /\ settled = {}

\* The success claim: the first attempt wins, in any status of the order.
Settle(a) == settled = {} /\ settled' = {a} /\ UNCHANGED order

MarkPaid == order = "PENDING" /\ settled # {} /\ order' = "PAID" /\ UNCHANGED settled

Cancel == order = "PENDING" /\ order' = "CANCELLED" /\ UNCHANGED settled

PromiseNext == (\E a \in Attempts : Settle(a)) \/ MarkPaid \/ Cancel

PromiseSpec == PromiseInit /\ [][PromiseNext]_<<order, settled>>
===============================================================================
