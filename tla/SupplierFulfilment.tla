-------------------------- MODULE SupplierFulfilment --------------------------
(***************************************************************************)
(* The supplier fulfilment tasks of one paid order and their purchases.    *)
(*                                                                         *)
(* A task is created per supplier-sourced item by whoever settles the      *)
(* payment, and by administrators who repair it.  The seller and the       *)
(* administrators then move it, and confirm, fail and reconcile its        *)
(* purchase, each in a transaction of its own that reads the rows first    *)
(* and writes them under a condition on the status it has read.            *)
(***************************************************************************)
EXTENDS Naturals, Sequences, FiniteSets

CONSTANTS
    Tasks,       \* the supplier-sourced items of the order
    Unlinked,    \* those whose supplier product is gone
    Ensurers,    \* bound: settlers and administrators who create tasks at once
    Movers,      \* bound: transition requests at once
    Buyers,      \* bound: purchase requests at once
    Costs,       \* final costs a seller may enter
    Keyless,     \* bound: the actions that clients also send without a key
    MaxRetries   \* bound: retries of a task

ASSUME FulfilmentAssumption ==
    /\ Unlinked \subseteq Tasks
    /\ Costs \subseteq Nat \ {0}
    /\ Keyless \subseteq {"CONFIRM_AVAILABILITY", "RECORD_PURCHASE",
                          "RECORD_DISPATCH", "RECORD_IN_TRANSIT", "RECORD_DELIVERY",
                          "REPORT_FAILURE", "CANCEL", "RETRY"}
    /\ MaxRetries \in Nat

VARIABLES
    task,       \* SupplierFulfilment.status, "NONE" before the row exists
    opened,     \* the tasks whose creation event is on record
    exceptions, \* the items audited as creation_failed
    finalCost,  \* the cost confirmed with the supplier, 0 while estimated
    retried,    \* the retry events of each task
    used,       \* the default event keys on record
    purchase,   \* SupplierPurchase: status, amount, and whether it was confirmed
    shipment,   \* OrderShipment.status of the order, shared by its tasks
    ensure,     \* the creators: what they do next, and for which item
    move,       \* the transition requests
    buy         \* the purchase requests

fulfilmentVars ==
    <<task, opened, exceptions, finalCost, retried, used, purchase, shipment,
      ensure, move, buy>>
eventVars    == <<retried, used>>
taskVars     == <<task, finalCost, eventVars, shipment>>
creationVars == <<opened, exceptions, ensure>>

-------------------------------------------------------------------------------
FulfilmentStatus ==
    {"AWAITING_PAYMENT", "AWAITING_SUPPLIER_CONFIRMATION", "CONFIRMED", "ORDERED",
     "DISPATCHED", "IN_TRANSIT", "DELIVERED", "FAILED", "CANCELLED"}

SUPPLIER_FULFILMENT_TRANSITIONS ==
    [s \in FulfilmentStatus |->
        CASE s = "AWAITING_PAYMENT" ->
                {"AWAITING_SUPPLIER_CONFIRMATION", "CANCELLED", "FAILED"}
          [] s = "AWAITING_SUPPLIER_CONFIRMATION" -> {"CONFIRMED", "FAILED", "CANCELLED"}
          [] s = "CONFIRMED"  -> {"ORDERED", "FAILED", "CANCELLED"}
          [] s = "ORDERED"    -> {"DISPATCHED", "IN_TRANSIT", "FAILED", "CANCELLED"}
          [] s = "DISPATCHED" -> {"IN_TRANSIT", "FAILED", "CANCELLED"}
          [] s = "IN_TRANSIT" -> {"DELIVERED", "FAILED", "CANCELLED"}
          [] s = "FAILED"     -> {"AWAITING_SUPPLIER_CONFIRMATION", "CANCELLED"}
          [] OTHER -> {}]

ACTION_TARGET ==
    [CONFIRM_AVAILABILITY |-> "CONFIRMED",  RECORD_PURCHASE   |-> "ORDERED",
     RECORD_DISPATCH      |-> "DISPATCHED", RECORD_IN_TRANSIT |-> "IN_TRANSIT",
     RECORD_DELIVERY      |-> "DELIVERED",  REPORT_FAILURE    |-> "FAILED",
     CANCEL               |-> "CANCELLED",
     RETRY                |-> "AWAITING_SUPPLIER_CONFIRMATION"]

FulfilmentActions == DOMAIN ACTION_TARGET
ShippingActions   == {"RECORD_DISPATCH", "RECORD_IN_TRANSIT", "RECORD_DELIVERY"}

\* Reviewed deliveries, cancellations and retries are an administrator's.
TransitionAllowed(from, to, role) ==
    /\ to \in SUPPLIER_FULFILMENT_TRANSITIONS[from]
    /\ role = "SELLER" => /\ from # "FAILED" \/ to # "AWAITING_SUPPLIER_CONFIRMATION"
                          /\ to \notin {"DELIVERED", "CANCELLED"}

PurchaseStatus == {"PENDING_CONFIRMATION", "CONFIRMED", "FAILED", "CANCELLED", "REFUNDED"}
LivePurchase   == {"PENDING_CONFIRMATION", "CONFIRMED"}
NoPurchase     == [status |-> "NONE", amount |-> 0, confirmed |-> FALSE]

IdleEnsure == [pc |-> "idle", items |-> {}]
DoneEnsure == [pc |-> "ended", items |-> {}]
IdleMove   == [pc |-> "idle"]
IdleBuy    == [pc |-> "idle"]

FulfilmentInit ==
    /\ task = [t \in Tasks |-> "NONE"]
    /\ opened = {}
    /\ exceptions = {}
    /\ finalCost = [t \in Tasks |-> 0]
    /\ retried = [t \in Tasks |-> 0]
    /\ used = {}
    /\ purchase = [t \in Tasks |-> NoPurchase]
    /\ shipment = "NONE"
    /\ ensure = [e \in Ensurers |-> IdleEnsure]
    /\ move = [q \in Movers |-> IdleMove]
    /\ buy = [b \in Buyers |-> IdleBuy]

-------------------------------------------------------------------------------
(***************************************************************************)
(* Creation.  A creator goes through the items one after the other; the    *)
(* row and its event are two statements, in no transaction.                *)
(***************************************************************************)

EnsureStart(e) ==
    /\ ensure[e].pc = "idle"
    /\ ensure' = [ensure EXCEPT ![e] = [pc |-> "item", items |-> Tasks]]
    /\ UNCHANGED <<taskVars, opened, exceptions, purchase, move, buy>>

\* An item without a supplier product is audited, one that has its task is
\* skipped.
EnsureLookup(e) ==
    /\ ensure[e].pc = "item"
    /\ \E t \in ensure[e].items :
        /\ exceptions' = IF t \in Unlinked THEN exceptions \cup {t} ELSE exceptions
        /\ ensure' = [ensure EXCEPT ![e] =
               IF t \in Unlinked \/ task[t] # "NONE"
               THEN [pc |-> "item", items |-> @.items \ {t}]
               ELSE [pc |-> "create", items |-> @.items, at |-> t]]
    /\ UNCHANGED <<taskVars, opened, purchase, move, buy>>

\* The order item is unique: of two creators the second is turned away.
EnsureCreate(e) ==
    /\ ensure[e].pc = "create"
    /\ LET t == ensure[e].at IN
        IF task[t] = "NONE"
        THEN /\ task' = [task EXCEPT ![t] = "AWAITING_SUPPLIER_CONFIRMATION"]
             /\ ensure' = [ensure EXCEPT ![e].pc = "event"]
        ELSE /\ ensure' = [ensure EXCEPT ![e] =
                    [pc |-> "item", items |-> @.items \ {t}]]
             /\ UNCHANGED task
    /\ UNCHANGED <<opened, exceptions, finalCost, eventVars, purchase, shipment,
                   move, buy>>

EnsureRecord(e) ==
    /\ ensure[e].pc = "event"
    /\ opened' = opened \cup {ensure[e].at}
    /\ ensure' = [ensure EXCEPT ![e] =
           [pc |-> "item", items |-> @.items \ {ensure[e].at}]]
    /\ UNCHANGED <<taskVars, exceptions, purchase, move, buy>>

\* Mutant of EnsureFail: the failure is logged, and nothing else.
EnsureFailSilently(e) ==
    /\ ensure[e].pc \in {"create", "event"}
    /\ ensure' = [ensure EXCEPT ![e] =
           [pc |-> "item", items |-> @.items \ {ensure[e].at}]]
    /\ UNCHANGED <<taskVars, opened, exceptions, purchase, move, buy>>

\* A write fails: the item is audited and the next one is tried.
EnsureFail(e) ==
    /\ ensure[e].pc \in {"create", "event"}
    /\ exceptions' = exceptions \cup {ensure[e].at}
    /\ ensure' = [ensure EXCEPT ![e] =
           [pc |-> "item", items |-> @.items \ {ensure[e].at}]]
    /\ UNCHANGED <<taskVars, opened, purchase, move, buy>>

\* The creator is done, or dies.
EnsureEnd(e) ==
    /\ ensure[e].pc \notin {"idle", "ended"}
    /\ ensure' = [ensure EXCEPT ![e] = DoneEnsure]
    /\ UNCHANGED <<taskVars, opened, exceptions, purchase, move, buy>>

-------------------------------------------------------------------------------
(***************************************************************************)
(* Transitions.  A client sends an event key of its own, fresh with every  *)
(* click, or none, and then the key is made of the task and the action.    *)
(***************************************************************************)

TransitionRead(q) ==
    /\ move[q].pc = "idle"
    /\ \E t \in Tasks, action \in FulfilmentActions, role \in {"SELLER", "ADMIN"} :
        /\ task[t] # "NONE"
        /\ TransitionAllowed(task[t], ACTION_TARGET[action], role)
        /\ action = "RECORD_PURCHASE" => purchase[t].status = "CONFIRMED"
        /\ move' = [move EXCEPT ![q] =
               [pc |-> "write", at |-> t, action |-> action, seen |-> task[t]]]
    /\ UNCHANGED <<taskVars, creationVars, purchase, buy>>

\* The purchase row is created once and moves with the exceptional outcomes.
PurchaseAfter(t, action, cost) ==
    CASE action = "CONFIRM_AVAILABILITY" /\ purchase[t].status = "NONE" ->
            [status |-> "PENDING_CONFIRMATION", amount |-> cost, confirmed |-> FALSE]
      [] action = "REPORT_FAILURE" /\ purchase[t].status \in LivePurchase ->
            [purchase[t] EXCEPT !.status = "FAILED"]
      [] action = "CANCEL" /\ purchase[t].status \in LivePurchase ->
            [purchase[t] EXCEPT !.status = "CANCELLED"]
      [] action = "RETRY" /\ purchase[t].status \in {"FAILED", "CANCELLED"} ->
            [purchase[t] EXCEPT !.status = "PENDING_CONFIRMATION"]
      [] OTHER -> purchase[t]

\* Mutant of ShipmentAfter: the shipment takes over the status of the task.
ShipmentAfterRaw(action) ==
    IF action \in ShippingActions THEN {ACTION_TARGET[action]} ELSE {shipment}

\* The shipment of the order is updated, or created if the request names a
\* carrier: always on dispatch, maybe later on.
ShipmentAfter(action) ==
    LET next == IF action = "RECORD_DELIVERY" THEN "DELIVERED" ELSE "IN_TRANSIT" IN
    CASE action \notin ShippingActions -> {shipment}
      [] shipment = "NONE" /\ action # "RECORD_DISPATCH" -> {"NONE", next}
      [] OTHER -> {next}

StillAs(q) == task[move[q].at] = move[q].seen

\* The event key the request would write is on record from an earlier pass.
KeyTaken(q, keyed) == ~keyed /\ <<move[q].at, move[q].action>> \in used

TransitionCommit(q, keyed, cost) ==
    /\ move[q].pc = "write"
    /\ StillAs(q)
    /\ keyed \/ move[q].action \in Keyless
    /\ ~KeyTaken(q, keyed)
    /\ LET t == move[q].at  action == move[q].action  to == ACTION_TARGET[action] IN
        /\ action = "RETRY" => retried[t] < MaxRetries
        /\ task' = [task EXCEPT ![t] = to]
        /\ retried' = IF action = "RETRY" THEN [retried EXCEPT ![t] = @ + 1] ELSE retried
        /\ used' = IF keyed THEN used ELSE used \cup {<<t, action>>}
        /\ finalCost' = IF action = "CONFIRM_AVAILABILITY"
                        THEN [finalCost EXCEPT ![t] = cost] ELSE finalCost
        /\ purchase' = [purchase EXCEPT ![t] = PurchaseAfter(t, action, cost)]
        /\ shipment' \in ShipmentAfter(action)
    /\ move' = [move EXCEPT ![q] = IdleMove]
    /\ UNCHANGED <<creationVars, buy>>

\* The unique event key rolls the transaction back, and the request is
\* answered as a repetition of one that was done.
TransitionDuplicate(q) ==
    /\ move[q].pc = "write"
    /\ StillAs(q)
    /\ KeyTaken(q, FALSE)
    /\ move' = [move EXCEPT ![q] = IdleMove]
    /\ UNCHANGED <<taskVars, creationVars, purchase, buy>>

\* The task has moved meanwhile, or the request dies.
TransitionLost(q) ==
    /\ move[q].pc = "write"
    /\ move' = [move EXCEPT ![q] = IdleMove]
    /\ UNCHANGED <<taskVars, creationVars, purchase, buy>>

-------------------------------------------------------------------------------
(***************************************************************************)
(* Purchases.  RECONCILE keeps the status unless all of the amount was     *)
(* refunded; the status of the task is not looked at.                      *)
(***************************************************************************)

PurchaseTargets(action, from) ==
    CASE action = "CONFIRM" /\ from = "PENDING_CONFIRMATION" -> {"CONFIRMED"}
      [] action = "FAIL" /\ from \in LivePurchase -> {"FAILED"}
      [] action = "RECONCILE" /\ from \in {"CONFIRMED", "FAILED", "REFUNDED"} ->
            {from, "REFUNDED"}
      [] OTHER -> {}

PurchaseRead(b) ==
    /\ buy[b].pc = "idle"
    /\ \E t \in Tasks, action \in {"CONFIRM", "FAIL", "RECONCILE"} :
        \E to \in PurchaseTargets(action, purchase[t].status) :
            buy' = [buy EXCEPT ![b] =
                [pc |-> "write", at |-> t, seen |-> purchase[t].status, to |-> to]]
    /\ UNCHANGED <<taskVars, creationVars, purchase, move>>

\* Mutant of PurchaseCommit: the purchase is updated by its id alone.
PurchaseCommitUnconditional(b) ==
    /\ buy[b].pc = "write"
    /\ purchase' = [purchase EXCEPT ![buy[b].at].status = buy[b].to,
                                    ![buy[b].at].confirmed = @ \/ buy[b].to = "CONFIRMED"]
    /\ buy' = [buy EXCEPT ![b] = IdleBuy]
    /\ UNCHANGED <<taskVars, creationVars, move>>

PurchaseCommit(b) ==
    /\ buy[b].pc = "write"
    /\ purchase[buy[b].at].status = buy[b].seen
    /\ purchase' = [purchase EXCEPT ![buy[b].at].status = buy[b].to,
                                    ![buy[b].at].confirmed = @ \/ buy[b].to = "CONFIRMED"]
    /\ buy' = [buy EXCEPT ![b] = IdleBuy]
    /\ UNCHANGED <<taskVars, creationVars, move>>

PurchaseLost(b) ==
    /\ buy[b].pc = "write"
    /\ buy' = [buy EXCEPT ![b] = IdleBuy]
    /\ UNCHANGED <<taskVars, creationVars, purchase, move>>

-------------------------------------------------------------------------------
FulfilmentNext ==
    \/ \E e \in Ensurers : \/ EnsureStart(e) \/ EnsureLookup(e) \/ EnsureCreate(e)
                           \/ EnsureRecord(e) \/ EnsureFail(e) \/ EnsureEnd(e)
    \/ \E q \in Movers :
        \/ TransitionRead(q) \/ TransitionDuplicate(q) \/ TransitionLost(q)
        \/ \E keyed \in BOOLEAN, cost \in Costs : TransitionCommit(q, keyed, cost)
    \/ \E b \in Buyers : PurchaseRead(b) \/ PurchaseCommit(b) \/ PurchaseLost(b)

FulfilmentSpec == FulfilmentInit /\ [][FulfilmentNext]_fulfilmentVars

-------------------------------------------------------------------------------
(***************************************************************************)
(* Properties.                                                             *)
(***************************************************************************)

\* Every variable has its type.
FulfilmentTypeOK ==
    /\ task \in [Tasks -> FulfilmentStatus \cup {"NONE"}]
    /\ opened \subseteq Tasks /\ exceptions \subseteq Tasks
    /\ finalCost \in [Tasks -> Costs \cup {0}]
    /\ retried \in [Tasks -> 0 .. MaxRetries]
    /\ used \subseteq Tasks \X FulfilmentActions
    /\ purchase \in [Tasks -> [status : PurchaseStatus \cup {"NONE"},
                               amount : Costs \cup {0}, confirmed : BOOLEAN]]
    /\ shipment \in {"NONE", "IN_TRANSIT", "DELIVERED"}
    /\ \A e \in Ensurers : ensure[e].pc \in {"idle", "item", "create", "event", "ended"}
    /\ \A q \in Movers : move[q].pc \in {"idle", "write"}
    /\ \A b \in Buyers : buy[b].pc \in {"idle", "write"}

\* A failed or cancelled task has no purchase that could still be confirmed or
\* is taken as confirmed, however its two services interleave.
StoppedTaskHasNoLivePurchase ==
    \A t \in Tasks :
        task[t] \in {"FAILED", "CANCELLED"} => purchase[t].status \notin LivePurchase

\* Nothing is ordered from a supplier whose purchase nobody ever confirmed.
OrderedWasConfirmed ==
    \A t \in Tasks :
        task[t] \in {"ORDERED", "DISPATCHED", "IN_TRANSIT", "DELIVERED"} =>
            purchase[t].confirmed

\* Every item of the order that was tried ends with a task or on the exception
\* queue: a creator that is through the items has left none behind.
NoItemForgotten ==
    \A e \in Ensurers : ensure[e].pc \notin {"idle", "ended"} =>
        \A t \in Tasks \ ensure[e].items : task[t] # "NONE" \/ t \in exceptions

\* A task and its purchase tell one story.
PurchaseFollowsTask == StoppedTaskHasNoLivePurchase /\ OrderedWasConfirmed
===============================================================================
