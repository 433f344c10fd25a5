---------------------------- MODULE LifecycleRules ----------------------------
(***************************************************************************)
(* The two pure state machines of the shop: which moves of Order.status    *)
(* and of Payment.status are legal.  The services ask these tables before  *)
(* every status write; the conditional UPDATE that follows is in the       *)
(* modules that model the services.                                        *)
(***************************************************************************)

\* The Prisma enum OrderStatus.
OrderStatus ==
    {"PENDING", "CONFIRMED", "PAID", "SHIPPED", "DELIVERED", "COMPLETED",
     "CANCELLED", "REFUNDED"}

\* The allowlist: a status that is absent from it has no successor.  CONFIRMED
\* is reserved: never a source and never a destination.
ORDER_TRANSITIONS ==
    [from \in OrderStatus |->
        CASE from = "PENDING"   -> {"PAID", "CANCELLED"}
          [] from = "PAID"      -> {"SHIPPED"}
          [] from = "SHIPPED"   -> {"DELIVERED"}
          [] from = "DELIVERED" -> {"COMPLETED"}
          [] OTHER              -> {}]

\* canTransitionOrder / assertOrderTransition: a same-status move is not legal.
CanTransitionOrder(from, to) == to \in ORDER_TRANSITIONS[from]

\* The Prisma enum PaymentStatus.
PaymentStatus ==
    {"PENDING", "PROCESSING", "SUCCESS", "FAILED", "CANCELLED", "REFUNDED"}

PAYMENT_TRANSITIONS ==
    [from \in PaymentStatus |->
        CASE from = "PENDING"    -> {"PROCESSING", "SUCCESS", "FAILED", "CANCELLED"}
          [] from = "PROCESSING" -> {"SUCCESS", "FAILED", "CANCELLED"}
          [] OTHER               -> {}]

CanPaymentTransition(from, to) == to \in PAYMENT_TRANSITIONS[from]

\* The statuses a claim may still move: the WHERE clause of every claim.
CLAIMABLE_PAYMENT_STATUSES == {"PENDING", "PROCESSING"}

TERMINAL_PAYMENT_STATUSES == {"SUCCESS", "FAILED", "CANCELLED", "REFUNDED"}
===============================================================================
