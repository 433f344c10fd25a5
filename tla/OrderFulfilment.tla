---------------------------- MODULE OrderFulfilment ----------------------------
(***************************************************************************)
(* A paid order on its way to the buyer: the seller records shipping and   *)
(* delivery, the buyer completes it, each in a transaction that reads the  *)
(* order and then claims its status; the audit entry and the notifications *)
(* follow the commit.                                                      *)
(*                                                                         *)
(* Requests of both sides, and of strangers, run at once; each may die     *)
(* between any two steps.                                                  *)
(***************************************************************************)
EXTENDS LifecycleRules, Naturals, Sequences

CONSTANTS
    Handlers,      \* bound: requests at once
    MaxAnnounced   \* bound: announcements of one step that are counted

ASSUME HandoverAssumption == MaxAnnounced \in Nat \ {0, 1}

VARIABLES
    orderStatus,   \* Order.status
    handler,       \* each request: its step, who asks, the status it has read
    journey,       \* the committed moves, each with the one who made it
    announced      \* how often each step was audited and told

handoverVars == <<orderStatus, handler, journey, announced>>

FulfillmentStep == {"SHIPPED", "DELIVERED", "COMPLETED"}

FULFILLMENT_AUTHORITY ==
    [SHIPPED |-> "seller", DELIVERED |-> "seller", COMPLETED |-> "buyer"]

Leg(to, by) == [to |-> to, by |-> by]

Callers == {"seller", "buyer", "other seller", "stranger"}
NoRequest == [pc |-> "idle", step |-> "SHIPPED", who |-> "stranger", from |-> "PENDING"]

HandoverInit ==
    /\ orderStatus = "PENDING"
    /\ handler = [h \in Handlers |-> NoRequest]
    /\ journey = <<>>
    /\ announced = [s \in FulfillmentStep |-> 0]

Becomes(h, state) == handler' = [handler EXCEPT ![h] = state]

Asks(h) ==
    /\ handler[h].pc \in {"idle", "refused", "done"}
    /\ \E step \in FulfillmentStep, who \in Callers :
          Becomes(h, [pc |-> "read", step |-> step, who |-> who, from |-> "PENDING"])
    /\ UNCHANGED <<orderStatus, journey, announced>>

\* The one row the step belongs to: the order's own seller, or its buyer.
Owns(who, step) == who = FULFILLMENT_AUTHORITY[step]

\* A repeat is answered as done; what the rules forbid is refused.
ReadOrder(h) ==
    /\ handler[h].pc = "read"
    /\ LET step == handler[h].step IN
       \/ /\ Owns(handler[h].who, step) /\ orderStatus = step
          /\ Becomes(h, [handler[h] EXCEPT !.pc = "done"])
       \/ /\ Owns(handler[h].who, step) /\ CanTransitionOrder(orderStatus, step)
          /\ Becomes(h,[handler[h] EXCEPT !.pc = "claim", !.from = orderStatus])
       \/ /\ ~Owns(handler[h].who, step) \/ (orderStatus # step /\ ~CanTransitionOrder(orderStatus, step))
          /\ Becomes(h, [handler[h] EXCEPT !.pc = "refused"])
    /\ UNCHANGED <<orderStatus, journey, announced>>

\* Mutant of Claimable: the update does not ask for the status read.
ClaimableAlways(h) == TRUE

\* The claim: the row still has the status that was checked.
Claimable(h) == orderStatus = handler[h].from

ClaimStep(h) ==
    /\ handler[h].pc = "claim"
    /\ IF Claimable(h)
       THEN /\ orderStatus' = handler[h].step
            /\ journey' = Append(journey, Leg(handler[h].step, handler[h].who))
            /\ Becomes(h, [handler[h] EXCEPT !.pc = "announce"])
       ELSE /\ Becomes(h, [handler[h] EXCEPT !.pc = "refused"])
            /\ UNCHANGED <<orderStatus, journey>>
    /\ UNCHANGED announced

\* Audit and notifications; what fails among them is let go.
Announce(h) ==
    /\ handler[h].pc = "announce"
    /\ announced[handler[h].step] < MaxAnnounced
    /\ announced' = [announced EXCEPT ![handler[h].step] = @ + 1]
    /\ Becomes(h, [handler[h] EXCEPT !.pc = "done"])
    /\ UNCHANGED <<orderStatus, journey>>

\* The process dies, or the database refuses.
HandlerDies(h) ==
    /\ handler[h].pc \in {"read", "claim", "announce"}
    /\ Becomes(h, NoRequest)
    /\ UNCHANGED <<orderStatus, journey, announced>>

\* markOrderPaid and the cancellation claim the same row.
Elsewhere ==
    /\ \E to \in {"PAID", "CANCELLED"} :
         /\ CanTransitionOrder(orderStatus, to)
         /\ orderStatus' = to
         /\ journey' = Append(journey, Leg(to, "checkout"))
    /\ UNCHANGED <<handler, announced>>

HandoverNext ==
    \/ \E h \in Handlers : Asks(h) \/ ReadOrder(h) \/ ClaimStep(h) \/ Announce(h) \/ HandlerDies(h)
    \/ Elsewhere

HandoverSpec == HandoverInit /\ [][HandoverNext]_handoverVars

HandoverTypeOK ==
    /\ orderStatus \in OrderStatus
    /\ handler \in [Handlers -> [pc : {"idle", "read", "claim", "announce", "done", "refused"},
                               step : FulfillmentStep, who : Callers, from : OrderStatus]]
    /\ announced \in [FulfillmentStep -> 0 .. MaxAnnounced]
    /\ journey \in Seq([to : OrderStatus, by : Callers \cup {"checkout"}])

\* The one journey that may lead to each status.
JourneyTo ==
    LET paid      == Leg("PAID", "checkout")
        shipped   == Leg("SHIPPED", "seller")
        delivered == Leg("DELIVERED", "seller")
    IN  [PENDING   |-> <<>>,
         CANCELLED |-> <<Leg("CANCELLED", "checkout")>>,
         PAID      |-> <<paid>>,
         SHIPPED   |-> <<paid, shipped>>,
         DELIVERED |-> <<paid, shipped, delivered>>,
         COMPLETED |-> <<paid, shipped, delivered, Leg("COMPLETED", "buyer")>>]

(***************************************************************************)
(* However the requests of seller, buyer and strangers interleave, the     *)
(* order takes each step of its way once and in order, never leaves        *)
(* CANCELLED, and each step is the work of the one side it belongs to      *)
(* (order-transition-service.ts, FULFILLMENT_AUTHORITY).                   *)
(***************************************************************************)
StepsInOrder ==
    orderStatus \in DOMAIN JourneyTo /\ journey = JourneyTo[orderStatus]

Taken(step) == \E i \in DOMAIN journey : journey[i].to = step

(***************************************************************************)
(* A step is audited and told at most once, only after it was committed,   *)
(* and whoever is answered "done" finds the order at that step or beyond.  *)
(***************************************************************************)
AnnouncedWhenTaken ==
    /\ \A step \in FulfillmentStep : announced[step] <= IF Taken(step) THEN 1 ELSE 0
    /\ \A h \in Handlers : handler[h].pc = "done" => Taken(handler[h].step)

HandoverSound == StepsInOrder /\ AnnouncedWhenTaken
===============================================================================
