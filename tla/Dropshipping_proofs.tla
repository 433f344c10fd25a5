-------------------------- MODULE Dropshipping_proofs --------------------------
(***************************************************************************)
(* Proofs about dropshipping, for any number of items, sellers, requests   *)
(* and rules: fulfilment tasks and purchases, returns, the catalogue,      *)
(* pricing, the desk, and the parts together.                              *)
(***************************************************************************)
EXTENDS MCDropshipping, SequenceTheorems, FiniteSetTheorems, TLAPS

-------------------------------------------------------------------------------
(***************************************************************************)
(* Fulfilment tasks and their purchases.                                   *)
(***************************************************************************)

Ordered == {"ORDERED", "DISPATCHED", "IN_TRANSIT", "DELIVERED"}

EnsureStates ==
    [pc : {"idle", "item", "ended"}, items : SUBSET Tasks] \cup
    [pc : {"create", "event"}, items : SUBSET Tasks, at : Tasks]

MoveStates ==
    {IdleMove} \cup
    [pc : {"write"}, at : Tasks, action : FulfilmentActions, seen : FulfilmentStatus]

BuyStates ==
    {IdleBuy} \cup
    [pc : {"write"}, at : Tasks, seen : PurchaseStatus, to : PurchaseStatus]

PurchaseRecords ==
    [status : PurchaseStatus \cup {"NONE"}, amount : Costs \cup {0}, confirmed : BOOLEAN]

FulfilmentTyped ==
    /\ FulfilmentTypeOK
    /\ ensure \in [Ensurers -> EnsureStates]
    /\ move \in [Movers -> MoveStates]
    /\ buy \in [Buyers -> BuyStates]

\* A creator that is past a row, or between the row and its event, has seen it.
ItemsKept ==
    /\ NoItemForgotten
    /\ \A e \in Ensurers : ensure[e].pc = "event" => task[ensure[e].at] # "NONE"

\* Only a purchase that was confirmed is CONFIRMED, and it stays on record.
PurchasesKept ==
    \A t \in Tasks :
        /\ purchase[t].status = "CONFIRMED" => purchase[t].confirmed
        /\ purchase[t].confirmed => purchase[t].status # "NONE"

\* What a transition request has checked when it read.
MoveChecked(m) ==
    m.pc = "write" =>
        /\ ACTION_TARGET[m.action] \in SUPPLIER_FULFILMENT_TRANSITIONS[m.seen]
        /\ m.action = "RECORD_PURCHASE" => purchase[m.at].confirmed

\* What a purchase request has checked when it read: nothing comes alive again.
BuyChecked(b) == b.pc = "write" => (b.to \in LivePurchase => b.seen \in LivePurchase)

FulfilmentInv ==
    /\ FulfilmentTyped
    /\ ItemsKept
    /\ PurchasesKept
    /\ \A q \in Movers : MoveChecked(move[q])
    /\ \A b \in Buyers : BuyChecked(buy[b])
    /\ PurchaseFollowsTask

LEMMA FulfilmentStart == FulfilmentInit => FulfilmentInv
<1>. SUFFICES ASSUME FulfilmentInit PROVE FulfilmentInv
  OBVIOUS
<1>1. FulfilmentTyped
  BY FulfilmentAssumption
     DEF FulfilmentInit, FulfilmentTyped, FulfilmentTypeOK, EnsureStates, MoveStates, BuyStates,
         IdleEnsure, NoPurchase, IdleMove, IdleBuy, FulfilmentStatus
<1>. QED
  BY <1>1 DEF FulfilmentInit, FulfilmentInv, ItemsKept, NoItemForgotten, PurchasesKept,
     MoveChecked, BuyChecked, PurchaseFollowsTask, StoppedTaskHasNoLivePurchase,
     OrderedWasConfirmed, IdleEnsure, NoPurchase, IdleMove, IdleBuy

LEMMA ActionTargets ==
    ASSUME NEW action \in FulfilmentActions
    PROVE  /\ ACTION_TARGET[action] \in FulfilmentStatus
           /\ action = "CONFIRM_AVAILABILITY" => ACTION_TARGET[action] = "CONFIRMED"
           /\ action = "RETRY" => ACTION_TARGET[action] = "AWAITING_SUPPLIER_CONFIRMATION"
           /\ ACTION_TARGET[action] = "FAILED" => action = "REPORT_FAILURE"
           /\ ACTION_TARGET[action] = "CANCELLED" => action = "CANCEL"
           /\ ACTION_TARGET[action] = "ORDERED" => action = "RECORD_PURCHASE"
  BY DEF FulfilmentActions, ACTION_TARGET, FulfilmentStatus

\* What is ordered comes from an order, or is ordered by the purchase action.
LEMMA OrderedFrom ==
    ASSUME NEW from \in FulfilmentStatus, NEW to \in SUPPLIER_FULFILMENT_TRANSITIONS[from],
           to \in Ordered
    PROVE  from \in Ordered \/ to = "ORDERED"
  BY DEF SUPPLIER_FULFILMENT_TRANSITIONS, FulfilmentStatus, Ordered

\* A creator's step.  It writes tasks that were missing only.
LEMMA EnsureKeeps ==
    ASSUME FulfilmentInv, NEW e \in Ensurers,
           EnsureStart(e) \/ EnsureLookup(e) \/ EnsureCreate(e) \/ EnsureRecord(e)
              \/ EnsureFail(e) \/ EnsureEnd(e)
    PROVE  /\ UNCHANGED <<finalCost, eventVars, purchase, shipment, move, buy>>
           /\ task' \in [Tasks -> FulfilmentStatus \cup {"NONE"}]
           /\ \A t \in Tasks : \/ task'[t] = task[t]
                               \/ task'[t] = "AWAITING_SUPPLIER_CONFIRMATION" /\ task[t] = "NONE"
           /\ opened' \subseteq Tasks /\ exceptions' \subseteq Tasks
           /\ exceptions \subseteq exceptions'
           /\ ensure' \in [Ensurers -> EnsureStates]
           /\ \A d \in Ensurers \ {e} : ensure'[d] = ensure[d]
<1>1. /\ ensure[e] \in EnsureStates /\ ensure \in [Ensurers -> EnsureStates]
      /\ task \in [Tasks -> FulfilmentStatus \cup {"NONE"}]
      /\ opened \subseteq Tasks /\ exceptions \subseteq Tasks
  BY DEF FulfilmentInv, FulfilmentTyped, FulfilmentTypeOK
<1>2. CASE EnsureStart(e)
  BY <1>1, <1>2 DEF EnsureStart, taskVars, EnsureStates
<1>3. CASE EnsureLookup(e)
  <2>1. PICK t \in ensure[e].items :
          /\ exceptions' = IF t \in Unlinked THEN exceptions \cup {t} ELSE exceptions
          /\ ensure' = [ensure EXCEPT ![e] =
               IF t \in Unlinked \/ task[t] # "NONE"
               THEN [pc |-> "item", items |-> ensure[e].items \ {t}]
               ELSE [pc |-> "create", items |-> ensure[e].items, at |-> t]]
    BY <1>3 DEF EnsureLookup
  <2>2. ensure[e].items \in SUBSET Tasks
    BY <1>1 DEF EnsureStates
  <2>3. /\ [pc |-> "item", items |-> ensure[e].items \ {t}] \in EnsureStates
        /\ [pc |-> "create", items |-> ensure[e].items, at |-> t] \in EnsureStates
    BY <2>2 DEF EnsureStates
  <2>. QED
    BY <1>1, <1>3, <2>1, <2>2, <2>3 DEF EnsureLookup, taskVars
<1>4. CASE EnsureCreate(e)
  <2>1. ensure[e].items \in SUBSET Tasks /\ ensure[e].at \in Tasks
    BY <1>1, <1>4 DEF EnsureStates, EnsureCreate
  <2>2. /\ [pc |-> "item", items |-> ensure[e].items \ {ensure[e].at}] \in EnsureStates
        /\ [ensure[e] EXCEPT !.pc = "event"] \in EnsureStates
    BY <1>1, <1>4, <2>1 DEF EnsureStates, EnsureCreate
  <2>3. \/ /\ task[ensure[e].at] = "NONE"
           /\ task' = [task EXCEPT ![ensure[e].at] = "AWAITING_SUPPLIER_CONFIRMATION"]
           /\ ensure' = [ensure EXCEPT ![e] = [ensure[e] EXCEPT !.pc = "event"]]
        \/ /\ task' = task
           /\ ensure' = [ensure EXCEPT ![e] =
                [pc |-> "item", items |-> ensure[e].items \ {ensure[e].at}]]
    BY <1>4 DEF EnsureCreate
  <2>4. ensure' \in [Ensurers -> EnsureStates] /\ \A d \in Ensurers \ {e} : ensure'[d] = ensure[d]
    BY <1>1, <2>2, <2>3
  <2>. QED
    BY <1>1, <1>4, <2>1, <2>3, <2>4 DEF EnsureCreate, FulfilmentStatus
<1>5. CASE EnsureRecord(e) \/ EnsureFail(e)
  <2>1. ensure[e].items \in SUBSET Tasks /\ ensure[e].at \in Tasks
    BY <1>1, <1>5 DEF EnsureStates, EnsureRecord, EnsureFail
  <2>2. [pc |-> "item", items |-> ensure[e].items \ {ensure[e].at}] \in EnsureStates
    BY <2>1 DEF EnsureStates
  <2>. QED
    BY <1>1, <1>5, <2>1, <2>2 DEF EnsureRecord, EnsureFail, taskVars
<1>6. CASE EnsureEnd(e)
  BY <1>1, <1>6 DEF EnsureEnd, taskVars, EnsureStates, DoneEnsure
<1>. QED
  BY <1>2, <1>3, <1>4, <1>5, <1>6

\* Tasks never go away, so what a creator has passed stays passed.
LEMMA ItemsOfOthers ==
    ASSUME ItemsKept, NEW e \in Ensurers, ensure'[e] = ensure[e],
           \A t \in Tasks : task[t] # "NONE" => task'[t] # "NONE",
           exceptions \subseteq exceptions', FulfilmentTyped
    PROVE  /\ ensure'[e].pc \notin {"idle", "ended"} =>
                \A t \in Tasks \ ensure'[e].items : task'[t] # "NONE" \/ t \in exceptions'
           /\ ensure'[e].pc = "event" => task'[ensure'[e].at] # "NONE"
<1>1. ensure[e].pc = "event" => ensure[e].at \in Tasks
  BY DEF FulfilmentTyped, EnsureStates
<1>. QED
  BY <1>1 DEF ItemsKept, NoItemForgotten

LEMMA EnsureStepKept ==
    ASSUME FulfilmentInv, NEW e \in Ensurers,
           EnsureStart(e) \/ EnsureLookup(e) \/ EnsureCreate(e) \/ EnsureRecord(e)
              \/ EnsureFail(e) \/ EnsureEnd(e)
    PROVE  FulfilmentInv'
<1>1. /\ UNCHANGED <<finalCost, eventVars, purchase, shipment, move, buy>>
      /\ task' \in [Tasks -> FulfilmentStatus \cup {"NONE"}]
      /\ \A t \in Tasks : \/ task'[t] = task[t]
                          \/ task'[t] = "AWAITING_SUPPLIER_CONFIRMATION" /\ task[t] = "NONE"
      /\ opened' \subseteq Tasks /\ exceptions' \subseteq Tasks
      /\ exceptions \subseteq exceptions'
      /\ ensure' \in [Ensurers -> EnsureStates]
      /\ \A d \in Ensurers \ {e} : ensure'[d] = ensure[d]
  BY EnsureKeeps
<1>2. \A d \in Ensurers : ensure'[d].pc \in {"idle", "item", "create", "event", "ended"}
  BY <1>1 DEF EnsureStates
<1>3. FulfilmentTyped'
  BY <1>1, <1>2 DEF FulfilmentInv, FulfilmentTyped, FulfilmentTypeOK, eventVars
<1>4. /\ ensure'[e].pc \notin {"idle", "ended"} =>
            \A t \in Tasks \ ensure'[e].items : task'[t] # "NONE" \/ t \in exceptions'
      /\ ensure'[e].pc = "event" => task'[ensure'[e].at] # "NONE"
  <2>1. /\ ensure[e] \in EnsureStates /\ ensure \in [Ensurers -> EnsureStates]
        /\ task \in [Tasks -> FulfilmentStatus \cup {"NONE"}]
        /\ ensure[e].pc = "event" => task[ensure[e].at] # "NONE"
        /\ ensure[e].pc \notin {"idle", "ended"} =>
              \A t \in Tasks \ ensure[e].items : task[t] # "NONE" \/ t \in exceptions
    BY DEF FulfilmentInv, FulfilmentTyped, FulfilmentTypeOK, ItemsKept, NoItemForgotten
  <2>2. CASE EnsureStart(e)
    BY <2>1, <2>2 DEF EnsureStart
  <2>3. CASE EnsureLookup(e)
    <3>1. PICK t \in ensure[e].items :
            /\ exceptions' = IF t \in Unlinked THEN exceptions \cup {t} ELSE exceptions
            /\ ensure'[e] = IF t \in Unlinked \/ task[t] # "NONE"
                 THEN [pc |-> "item", items |-> ensure[e].items \ {t}]
                 ELSE [pc |-> "create", items |-> ensure[e].items, at |-> t]
      BY <2>1, <2>3 DEF EnsureLookup
    <3>. QED
      BY <2>1, <2>3, <3>1 DEF EnsureLookup, taskVars
  <2>4. CASE EnsureCreate(e)
    BY <2>1, <2>4 DEF EnsureCreate, EnsureStates
  <2>5. CASE EnsureRecord(e)
    BY <2>1, <2>5 DEF EnsureRecord, EnsureStates, taskVars
  <2>6. CASE EnsureFail(e)
    BY <2>1, <2>6 DEF EnsureFail, EnsureStates, taskVars
  <2>7. CASE EnsureEnd(e)
    BY <2>1, <2>7 DEF EnsureEnd, DoneEnsure
  <2>. QED
    BY <2>2, <2>3, <2>4, <2>5, <2>6, <2>7
<1>5. ItemsKept'
  <2>1. \A t \in Tasks : task[t] # "NONE" => task'[t] # "NONE"
    BY <1>1
  <2>2. ASSUME NEW d \in Ensurers, d # e
        PROVE  /\ ensure'[d].pc \notin {"idle", "ended"} =>
                    \A t \in Tasks \ ensure'[d].items : task'[t] # "NONE" \/ t \in exceptions'
               /\ ensure'[d].pc = "event" => task'[ensure'[d].at] # "NONE"
    BY <1>1, <2>1, <2>2, ItemsOfOthers DEF FulfilmentInv
  <2>. QED
    BY <1>4, <2>2 DEF ItemsKept, NoItemForgotten
<1>6. PurchaseFollowsTask'
  BY <1>1 DEF FulfilmentInv, PurchaseFollowsTask, StoppedTaskHasNoLivePurchase, OrderedWasConfirmed
<1>. QED
  BY <1>1, <1>3, <1>5, <1>6 DEF FulfilmentInv, PurchasesKept, MoveChecked, BuyChecked

\* A request that ends without a write.
LEMMA MoveWithoutWrite ==
    ASSUME FulfilmentInv, NEW q \in Movers, TransitionRead(q) \/ TransitionDuplicate(q) \/ TransitionLost(q)
    PROVE  FulfilmentInv'
<1>1. UNCHANGED <<taskVars, creationVars, purchase, buy>>
  BY DEF TransitionRead, TransitionDuplicate, TransitionLost
<1>2. /\ move' \in [Movers -> MoveStates]
      /\ \A p \in Movers \ {q} : move'[p] = move[p]
      /\ MoveChecked(move'[q])
  <2>1. CASE move' = [move EXCEPT ![q] = IdleMove]
    BY <2>1 DEF FulfilmentInv, FulfilmentTyped, MoveStates, IdleMove, MoveChecked
  <2>2. CASE TransitionRead(q)
    <3>1. PICK t \in Tasks, action \in FulfilmentActions, role \in {"SELLER", "ADMIN"} :
            /\ task[t] # "NONE"
            /\ TransitionAllowed(task[t], ACTION_TARGET[action], role)
            /\ action = "RECORD_PURCHASE" => purchase[t].status = "CONFIRMED"
            /\ move' = [move EXCEPT ![q] =
                   [pc |-> "write", at |-> t, action |-> action, seen |-> task[t]]]
      BY <2>2 DEF TransitionRead
    <3>2. task[t] \in FulfilmentStatus
      BY <3>1 DEF FulfilmentInv, FulfilmentTyped, FulfilmentTypeOK
    <3>3. [pc |-> "write", at |-> t, action |-> action, seen |-> task[t]] \in MoveStates
      BY <3>2 DEF MoveStates
    <3>4. /\ move' \in [Movers -> MoveStates]
          /\ \A p \in Movers \ {q} : move'[p] = move[p]
          /\ move'[q] = [pc |-> "write", at |-> t, action |-> action, seen |-> task[t]]
      BY <3>1, <3>3 DEF FulfilmentInv, FulfilmentTyped
    <3>. QED
      BY <3>1, <3>4 DEF MoveChecked, TransitionAllowed, FulfilmentInv, PurchasesKept
  <2>. QED
    BY <2>1, <2>2 DEF TransitionDuplicate, TransitionLost
<1>3. \A p \in Movers : move'[p].pc \in {"idle", "write"}
  BY <1>2 DEF MoveStates, IdleMove
<1>4. FulfilmentTyped'
  BY <1>1, <1>2, <1>3 DEF FulfilmentInv, FulfilmentTyped, FulfilmentTypeOK, taskVars, eventVars,
     creationVars
<1>5. \A p \in Movers : MoveChecked(move[p])'
  BY <1>1, <1>2 DEF FulfilmentInv, MoveChecked
<1>. QED
  BY <1>1, <1>4, <1>5 DEF FulfilmentInv, ItemsKept, NoItemForgotten, PurchasesKept, BuyChecked,
     PurchaseFollowsTask, StoppedTaskHasNoLivePurchase, OrderedWasConfirmed, taskVars, eventVars,
     creationVars

\* The purchase after a transition: a confirmation is kept, and an exceptional
\* outcome leaves none alive.
LEMMA PurchaseMoves ==
    ASSUME NEW t \in Tasks, purchase[t] \in PurchaseRecords,
           purchase[t].status = "CONFIRMED" => purchase[t].confirmed,
           purchase[t].confirmed => purchase[t].status # "NONE",
           NEW action \in FulfilmentActions, NEW cost \in Costs
    PROVE  LET after == PurchaseAfter(t, action, cost) IN
           /\ after \in PurchaseRecords
           /\ purchase[t].confirmed => after.confirmed
           /\ after.status = "CONFIRMED" => after.confirmed
           /\ after.confirmed => after.status # "NONE"
           /\ action \in {"REPORT_FAILURE", "CANCEL"} => after.status \notin LivePurchase
  BY DEF PurchaseAfter, PurchaseRecords, PurchaseStatus, LivePurchase

LEMMA TransitionStepKept ==
    ASSUME FulfilmentInv, NEW q \in Movers, NEW keyed \in BOOLEAN, NEW cost \in Costs,
           TransitionCommit(q, keyed, cost)
    PROVE  FulfilmentInv'
<1>. DEFINE t == move[q].at
            action == move[q].action
            to == ACTION_TARGET[action]
            after == PurchaseAfter(t, action, cost)
<1>1. /\ FulfilmentTyped /\ PurchasesKept /\ PurchaseFollowsTask
      /\ move[q] \in MoveStates /\ MoveChecked(move[q]) /\ move[q].pc = "write"
  BY DEF FulfilmentInv, FulfilmentTyped, TransitionCommit
<1>2. t \in Tasks /\ action \in FulfilmentActions /\ move[q].seen \in FulfilmentStatus
  BY <1>1 DEF MoveStates, IdleMove
<1>3. /\ task[t] = move[q].seen
      /\ task' = [task EXCEPT ![t] = to]
      /\ purchase' = [purchase EXCEPT ![t] = after]
      /\ move' = [move EXCEPT ![q] = IdleMove]
      /\ UNCHANGED <<opened, exceptions, ensure, buy>>
  BY DEF TransitionCommit, StillAs, creationVars
<1>4. /\ to \in FulfilmentStatus /\ to \in SUPPLIER_FULFILMENT_TRANSITIONS[task[t]]
      /\ action = "RECORD_PURCHASE" => purchase[t].confirmed
  BY <1>1, <1>2, <1>3, ActionTargets DEF MoveChecked
<1>5. /\ task \in [Tasks -> FulfilmentStatus \cup {"NONE"}]
      /\ purchase \in [Tasks -> PurchaseRecords]
  BY <1>1 DEF FulfilmentTyped, FulfilmentTypeOK, PurchaseRecords
<1>6. /\ after \in PurchaseRecords
      /\ purchase[t].confirmed => after.confirmed
      /\ after.status = "CONFIRMED" => after.confirmed
      /\ after.confirmed => after.status # "NONE"
      /\ action \in {"REPORT_FAILURE", "CANCEL"} => after.status \notin LivePurchase
  BY <1>1, <1>2, <1>5, PurchaseMoves DEF PurchasesKept
<1>7. retried' \in [Tasks -> 0 .. MaxRetries]
  <2>1. retried \in [Tasks -> 0 .. MaxRetries]
    BY <1>1 DEF FulfilmentTyped, FulfilmentTypeOK
  <2>2. retried' = retried \/ (retried[t] < MaxRetries /\ retried' = [retried EXCEPT ![t] = @ + 1])
    BY DEF TransitionCommit
  <2>. QED
    BY <1>2, <2>1, <2>2, FulfilmentAssumption
<1>8. used' \subseteq Tasks \X FulfilmentActions
  <2>1. used' \subseteq used \cup {<<t, action>>}
    BY DEF TransitionCommit
  <2>. QED
    BY <1>1, <1>2, <2>1 DEF FulfilmentTyped, FulfilmentTypeOK
<1>9. finalCost' \in [Tasks -> Costs \cup {0}]
  <2>1. finalCost' = finalCost \/ finalCost' = [finalCost EXCEPT ![t] = cost]
    BY DEF TransitionCommit
  <2>. QED
    BY <1>1, <2>1 DEF FulfilmentTyped, FulfilmentTypeOK
<1>10. shipment' \in {"NONE", "IN_TRANSIT", "DELIVERED"}
  <2>1. shipment' \in ShipmentAfter(action)
    BY DEF TransitionCommit
  <2>. QED
    BY <1>1, <2>1 DEF FulfilmentTyped, FulfilmentTypeOK, ShipmentAfter
<1>. HIDE DEF t, action, to, after
<1>11. /\ task' \in [Tasks -> FulfilmentStatus \cup {"NONE"}] /\ task'[t] = to
       /\ \A s \in Tasks \ {t} : task'[s] = task[s]
       /\ \A s \in Tasks : task[s] # "NONE" => task'[s] # "NONE"
  BY <1>2, <1>3, <1>4, <1>5 DEF FulfilmentStatus
<1>12. /\ purchase' \in [Tasks -> PurchaseRecords] /\ purchase'[t] = after
       /\ \A s \in Tasks \ {t} : purchase'[s] = purchase[s]
  BY <1>2, <1>3, <1>5, <1>6
<1>13. /\ move' \in [Movers -> MoveStates]
       /\ \A p \in Movers : move'[p] = move[p] \/ move'[p] = IdleMove
       /\ \A p \in Movers : move'[p].pc \in {"idle", "write"}
  BY <1>1, <1>3 DEF FulfilmentTyped, FulfilmentTypeOK, MoveStates, IdleMove
<1>14. FulfilmentTyped'
  BY <1>1, <1>3, <1>7, <1>8, <1>9, <1>10, <1>11, <1>12, <1>13
     DEF FulfilmentTyped, FulfilmentTypeOK, PurchaseRecords
<1>15. ItemsKept'
  BY <1>1, <1>3, <1>11, ItemsOfOthers DEF FulfilmentInv, ItemsKept, NoItemForgotten
<1>16. PurchasesKept'
  BY <1>1, <1>6, <1>12 DEF PurchasesKept
<1>17. ASSUME NEW p \in Movers PROVE MoveChecked(move[p])'
  <2>1. CASE move'[p] = IdleMove
    BY <2>1 DEF MoveChecked, IdleMove
  <2>2. CASE move'[p] = move[p] /\ move[p].pc = "write"
    <3>1. move[p].at \in Tasks /\ MoveChecked(move[p])
      BY <1>1, <2>2 DEF FulfilmentInv, FulfilmentTyped, MoveStates, IdleMove
    <3>2. purchase[move[p].at].confirmed => purchase'[move[p].at].confirmed
      BY <1>6, <1>12, <3>1
    <3>. QED
      BY <2>2, <3>1, <3>2 DEF MoveChecked
  <2>3. CASE move'[p] = move[p] /\ move[p].pc # "write"
    BY <2>3 DEF MoveChecked
  <2>. QED
    BY <1>13, <2>1, <2>2, <2>3
<1>18. StoppedTaskHasNoLivePurchase'
  <2>1. to \in {"FAILED", "CANCELLED"} => action \in {"REPORT_FAILURE", "CANCEL"}
    BY <1>2, ActionTargets DEF to
  <2>. QED
    BY <1>1, <1>6, <1>11, <1>12, <2>1 DEF PurchaseFollowsTask, StoppedTaskHasNoLivePurchase
<1>19. OrderedWasConfirmed'
  <2>1. to \in Ordered => purchase[t].confirmed
    <3>1. to \in Ordered => task[t] \in Ordered \/ to = "ORDERED"
      BY <1>2, <1>3, <1>4, OrderedFrom
    <3>2. to = "ORDERED" => action = "RECORD_PURCHASE"
      BY <1>2, ActionTargets DEF to
    <3>. QED
      BY <1>1, <1>2, <1>4, <3>1, <3>2 DEF PurchaseFollowsTask, OrderedWasConfirmed, Ordered
  <2>. QED
    BY <1>1, <1>6, <1>11, <1>12, <2>1 DEF PurchaseFollowsTask, OrderedWasConfirmed, Ordered
<1>. QED
  BY <1>3, <1>14, <1>15, <1>16, <1>17, <1>18, <1>19
     DEF FulfilmentInv, BuyChecked, PurchaseFollowsTask

\* A purchase request: what it writes is alive only if what it replaces was.
LEMMA PurchaseStepKept ==
    ASSUME FulfilmentInv, NEW b \in Buyers, PurchaseRead(b) \/ PurchaseCommit(b) \/ PurchaseLost(b)
    PROVE  FulfilmentInv'
<1>1. FulfilmentTyped /\ PurchasesKept /\ PurchaseFollowsTask /\ buy[b] \in BuyStates
  BY DEF FulfilmentInv, FulfilmentTyped
<1>2. UNCHANGED <<taskVars, creationVars, move>>
  BY DEF PurchaseRead, PurchaseCommit, PurchaseLost
<1>3. /\ buy' \in [Buyers -> BuyStates]
      /\ \A d \in Buyers \ {b} : buy'[d] = buy[d]
      /\ BuyChecked(buy'[b])
  <2>1. CASE buy' = [buy EXCEPT ![b] = IdleBuy]
    BY <1>1, <2>1 DEF FulfilmentTyped, BuyStates, IdleBuy, BuyChecked
  <2>2. CASE PurchaseRead(b)
    <3>1. PICK t \in Tasks, act \in {"CONFIRM", "FAIL", "RECONCILE"} :
            \E to \in PurchaseTargets(act, purchase[t].status) :
               buy' = [buy EXCEPT ![b] =
                  [pc |-> "write", at |-> t, seen |-> purchase[t].status, to |-> to]]
      BY <2>2 DEF PurchaseRead
    <3>2. PICK to \in PurchaseTargets(act, purchase[t].status) :
               buy' = [buy EXCEPT ![b] =
                  [pc |-> "write", at |-> t, seen |-> purchase[t].status, to |-> to]]
      BY <3>1
    <3>3. purchase[t].status \in PurchaseStatus \cup {"NONE"}
      BY <1>1 DEF FulfilmentTyped, FulfilmentTypeOK
    <3>4. /\ purchase[t].status \in PurchaseStatus /\ to \in PurchaseStatus
          /\ to \in LivePurchase => purchase[t].status \in LivePurchase
      BY <3>3 DEF PurchaseTargets, PurchaseStatus, LivePurchase
    <3>5. [pc |-> "write", at |-> t, seen |-> purchase[t].status, to |-> to] \in BuyStates
      BY <3>4 DEF BuyStates
    <3>6. /\ buy' \in [Buyers -> BuyStates]
          /\ \A d \in Buyers \ {b} : buy'[d] = buy[d]
          /\ buy'[b] = [pc |-> "write", at |-> t, seen |-> purchase[t].status, to |-> to]
      BY <1>1, <3>2, <3>5 DEF FulfilmentTyped
    <3>. QED
      BY <3>4, <3>6 DEF BuyChecked
  <2>. QED
    BY <2>1, <2>2 DEF PurchaseCommit, PurchaseLost
<1>4. /\ purchase' \in [Tasks -> PurchaseRecords]
      /\ \A t \in Tasks :
            /\ purchase[t].confirmed => purchase'[t].confirmed
            /\ purchase'[t].status \in LivePurchase => purchase[t].status \in LivePurchase
      /\ PurchasesKept'
  <2>1. purchase \in [Tasks -> PurchaseRecords]
    BY <1>1 DEF FulfilmentTyped, FulfilmentTypeOK, PurchaseRecords
  <2>2. CASE purchase' = purchase
    BY <1>1, <2>1, <2>2 DEF PurchasesKept
  <2>3. CASE PurchaseCommit(b)
    <3>1. /\ buy[b].at \in Tasks /\ buy[b].to \in PurchaseStatus /\ BuyChecked(buy[b])
          /\ buy[b].pc = "write" /\ purchase[buy[b].at].status = buy[b].seen
      BY <1>1, <2>3 DEF PurchaseCommit, BuyStates, IdleBuy, FulfilmentInv
    <3>. DEFINE t == buy[b].at
                after == [purchase[t] EXCEPT !.status = buy[b].to,
                                             !.confirmed = @ \/ buy[b].to = "CONFIRMED"]
    <3>2. purchase' = [purchase EXCEPT ![t] = after]
      BY <2>3 DEF PurchaseCommit
    <3>3. /\ after \in PurchaseRecords /\ after.status = buy[b].to
          /\ after.confirmed = (purchase[t].confirmed \/ buy[b].to = "CONFIRMED")
      BY <2>1, <3>1 DEF PurchaseRecords
    <3>. HIDE DEF after
    <3>4. /\ purchase' \in [Tasks -> PurchaseRecords] /\ purchase'[t] = after
          /\ \A s \in Tasks \ {t} : purchase'[s] = purchase[s]
      BY <2>1, <3>1, <3>2, <3>3
    <3>5. /\ purchase[t].confirmed => purchase'[t].confirmed
          /\ purchase'[t].status \in LivePurchase => purchase[t].status \in LivePurchase
          /\ purchase'[t].status = "CONFIRMED" => purchase'[t].confirmed
          /\ purchase'[t].status # "NONE"
      BY <3>1, <3>3, <3>4 DEF BuyChecked, PurchaseStatus
    <3>. HIDE DEF t
    <3>. QED
      BY <1>1, <3>4, <3>5 DEF PurchasesKept
  <2>. QED
    BY <2>2, <2>3 DEF PurchaseRead, PurchaseLost
<1>5. \A d \in Buyers : buy'[d].pc \in {"idle", "write"}
  BY <1>3 DEF BuyStates, IdleBuy
<1>6. FulfilmentTyped'
  BY <1>1, <1>2, <1>3, <1>4, <1>5
     DEF FulfilmentTyped, FulfilmentTypeOK, PurchaseRecords, taskVars, eventVars, creationVars
<1>7. ASSUME NEW p \in Movers PROVE MoveChecked(move[p])'
  <2>1. move[p].pc = "write" => move[p].at \in Tasks
    BY <1>1 DEF FulfilmentTyped, MoveStates, IdleMove
  <2>. QED
    BY <1>2, <1>4, <2>1 DEF FulfilmentInv, MoveChecked
<1>8. \A d \in Buyers : BuyChecked(buy[d])'
  BY <1>3 DEF FulfilmentInv, BuyChecked
<1>9. ItemsKept'
  BY <1>2 DEF FulfilmentInv, ItemsKept, NoItemForgotten, taskVars, creationVars
<1>10. PurchaseFollowsTask'
  BY <1>1, <1>2, <1>4 DEF PurchaseFollowsTask, StoppedTaskHasNoLivePurchase, OrderedWasConfirmed,
     taskVars
<1>. QED
  BY <1>4, <1>6, <1>7, <1>8, <1>9, <1>10 DEF FulfilmentInv

LEMMA FulfilmentStep == FulfilmentInv /\ [FulfilmentNext]_fulfilmentVars => FulfilmentInv'
<1>. SUFFICES ASSUME FulfilmentInv, [FulfilmentNext]_fulfilmentVars PROVE FulfilmentInv'
  OBVIOUS
<1>1. CASE UNCHANGED fulfilmentVars
  BY <1>1 DEF fulfilmentVars, FulfilmentInv, FulfilmentTyped, FulfilmentTypeOK, ItemsKept,
     NoItemForgotten, PurchasesKept, MoveChecked, BuyChecked, PurchaseFollowsTask,
     StoppedTaskHasNoLivePurchase, OrderedWasConfirmed
<1>. QED
  BY <1>1, EnsureStepKept, MoveWithoutWrite, TransitionStepKept, PurchaseStepKept
     DEF FulfilmentNext
(***************************************************************************)
(* The inductive invariant: what each request has read of a task or of a   *)
(* purchase still says enough when it is written under its condition       *)
(* (dropshipping-fulfillment-service.ts, dropshipping-purchase-service.ts).*)
(***************************************************************************)
THEOREM FulfilmentInvariant == FulfilmentSpec => []FulfilmentInv
  BY FulfilmentStart, FulfilmentStep, PTL DEF FulfilmentSpec

\* A failed or cancelled task has no live purchase and nothing is ordered without a
\* confirmed one, however the task and the purchase service interleave
\* (dropshipping-fulfillment-service.ts and dropshipping-purchase-service.ts).
THEOREM PurchasesFollowTasks == FulfilmentSpec => []PurchaseFollowsTask
<1>1. FulfilmentInv => PurchaseFollowsTask
  BY DEF FulfilmentInv
<1>. QED
  BY FulfilmentInvariant, <1>1, PTL

\* No paid item is left behind without a task or an exception, whichever writes
\* fail (ensureSupplierFulfilmentsForPaidOrder).
THEOREM EveryItemKept == FulfilmentSpec => []NoItemForgotten
<1>1. FulfilmentInv => NoItemForgotten
  BY DEF FulfilmentInv, ItemsKept
<1>. QED
  BY FulfilmentInvariant, <1>1, PTL

-------------------------------------------------------------------------------
(***************************************************************************)
(* Returns and the buyer protection case.                                  *)
(***************************************************************************)
RefundStatus == {"NONE", "PENDING", "COMPLETED", "FAILED"}

Asks == {IdleRequest} \cup [pc : {"write"}, item : Items, seen : CaseStatus \cup {"NONE"}]

Decisions ==
    {IdleRequest} \cup [pc : {"write"}, item : Items, seen : ReturnStatus, to : ReturnStatus,
                        ask : BOOLEAN]

ReturnsTyped ==
    /\ request \in [Items -> ReturnStatus \cup {"NONE"}]
    /\ refund \in [Items -> RefundStatus]
    /\ protection \in CaseStatus \cup {"NONE"}
    /\ asking \in [Buyings -> Asks]
    /\ deciding \in [Deciders -> Decisions]

PendingHasRefund == \A i \in Items : request[i] = "REFUND_PENDING" => refund[i] # "NONE"

\* What a decision read still holds of the refund when it is written: a refund
\* once asked for stays, and a completed one stays completed.
StillAllowed(decision) ==
    decision.pc = "write" =>
        /\ decision.to \in SUPPLIER_RETURN_TRANSITIONS[decision.seen]
        /\ decision.seen = "REFUND_PENDING" /\ decision.to = "RESOLVED" =>
              refund[decision.item] = "COMPLETED"
        /\ decision.to = "REFUND_PENDING" =>
              decision.ask \/ refund[decision.item] # "NONE"

ReturnsInv ==
    /\ ReturnsTyped
    /\ PendingHasRefund
    /\ \A d \in Deciders : StillAllowed(deciding[d])
    /\ OpenCaseHasOpenReturn

-------------------------------------------------------------------------------
LEMMA ReturnsStart == ReturnsInit => ReturnsInv
  BY DEF ReturnsInit, ReturnsInv, ReturnsTyped, Asks, Decisions, RefundStatus, CaseStatus,
         PendingHasRefund, StillAllowed, OpenCaseHasOpenReturn, IdleRequest

\* Every status a return may move to is a status.
LEMMA TransitionsTyped ==
    ASSUME NEW from \in ReturnStatus
    PROVE  SUPPLIER_RETURN_TRANSITIONS[from] \subseteq ReturnStatus
  BY DEF SUPPLIER_RETURN_TRANSITIONS, ReturnStatus

\* A refund moves forward only.
RefundKeeps ==
    \A i \in Items :
        /\ refund[i] # "NONE" => refund'[i] # "NONE"
        /\ refund[i] = "COMPLETED" => refund'[i] = "COMPLETED"

LEMMA DecisionsKeep ==
    ASSUME ReturnsInv, RefundKeeps, NEW d \in Deciders,
           deciding'[d] = deciding[d] \/ deciding'[d] = IdleRequest
    PROVE  StillAllowed(deciding[d])'
<1>1. CASE deciding'[d] = IdleRequest
  BY <1>1 DEF StillAllowed, IdleRequest
<1>2. CASE deciding'[d] = deciding[d] /\ deciding[d].pc = "write"
  <2>1. deciding[d].item \in Items
    BY <1>2 DEF ReturnsInv, ReturnsTyped, Decisions, IdleRequest
  <2>. QED
    BY <1>2, <2>1 DEF ReturnsInv, StillAllowed, RefundKeeps
<1>3. CASE deciding'[d] = deciding[d] /\ deciding[d].pc # "write"
  BY <1>3 DEF StillAllowed
<1>. QED
  BY <1>1, <1>2, <1>3

\* A buyer's step: the request may be recorded, and opens the case.
LEMMA AskingStep ==
    ASSUME ReturnsInv, NEW b \in Buyings, ReturnRead(b) \/ ReturnCommit(b) \/ ReturnRefused(b)
    PROVE  ReturnsInv'
<1>1. refund' = refund /\ deciding' = deciding
  BY DEF ReturnRead, ReturnCommit, ReturnRefused
<1>2. \A d \in Deciders : StillAllowed(deciding[d])'
  BY <1>1, DecisionsKeep DEF RefundKeeps
<1>3. CASE ReturnRead(b)
  <2>1. PICK i \in Returnable :
          asking' = [asking EXCEPT ![b] = [pc |-> "write", item |-> i, seen |-> protection]]
    BY <1>3 DEF ReturnRead
  <2>2. [pc |-> "write", item |-> i, seen |-> protection] \in Asks
    BY ReturnsAssumption DEF ReturnsInv, ReturnsTyped, Asks
  <2>3. ReturnsTyped'
    BY <1>1, <1>3, <2>1, <2>2 DEF ReturnsInv, ReturnsTyped, ReturnRead
  <2>. QED
    BY <1>1, <1>2, <1>3, <2>3 DEF ReturnsInv, ReturnRead, PendingHasRefund, OpenCaseHasOpenReturn
<1>4. CASE ReturnCommit(b)
  <2>1. asking[b].item \in Items /\ IdleRequest \in Asks
    BY <1>4 DEF ReturnsInv, ReturnsTyped, Asks, IdleRequest, ReturnCommit
  <2>2. request' = [request EXCEPT ![asking[b].item] = "REQUESTED"]
    BY <1>4 DEF ReturnCommit
  <2>3. ReturnsTyped'
    <3>1. protection' \in CaseStatus \cup {"NONE"}
      BY <1>4 DEF ReturnsInv, ReturnsTyped, ReturnCommit, CaseStatus
    <3>2. request' \in [Items -> ReturnStatus \cup {"NONE"}]
      BY <2>1, <2>2 DEF ReturnsInv, ReturnsTyped, ReturnStatus
    <3>3. asking' \in [Buyings -> Asks]
      BY <1>4, <2>1 DEF ReturnsInv, ReturnsTyped, ReturnCommit
    <3>. QED
      BY <1>1, <3>1, <3>2, <3>3 DEF ReturnsInv, ReturnsTyped
  <2>4. PendingHasRefund'
    BY <1>1, <2>1, <2>2 DEF ReturnsInv, ReturnsTyped, PendingHasRefund
  <2>5. OpenCaseHasOpenReturn'
    BY <2>1, <2>2 DEF ReturnsInv, ReturnsTyped, OpenCaseHasOpenReturn, OpenReturn, ReturnStatus,
                      ClosedReturn
  <2>. QED
    BY <1>2, <2>3, <2>4, <2>5 DEF ReturnsInv
<1>5. CASE ReturnRefused(b)
  <2>1. ReturnsTyped'
    BY <1>1, <1>5 DEF ReturnsInv, ReturnsTyped, ReturnRefused, Asks
  <2>. QED
    BY <1>1, <1>2, <1>5, <2>1 DEF ReturnsInv, ReturnRefused, PendingHasRefund, OpenCaseHasOpenReturn
<1>. QED
  BY <1>3, <1>4, <1>5

LEMMA DecideReadStep == ASSUME ReturnsInv, NEW d \in Deciders, DecideRead(d) PROVE ReturnsInv'
<1>1. PICK i \in Items, to \in ReturnStatus :
        /\ request[i] # "NONE"
        /\ ReturnTransitionAllowed(request[i], to, refund[i])
        /\ deciding' = [deciding EXCEPT ![d] =
               [pc |-> "write", item |-> i, seen |-> request[i], to |-> to,
                ask |-> to = "REFUND_PENDING" /\ refund[i] = "NONE"]]
  BY DEF DecideRead
<1>2. UNCHANGED <<request, refund, protection, asking>>
  BY DEF DecideRead
<1>. DEFINE decision == [pc |-> "write", item |-> i, seen |-> request[i], to |-> to,
                         ask |-> to = "REFUND_PENDING" /\ refund[i] = "NONE"]
<1>3. decision \in Decisions
  <2>1. request[i] \in ReturnStatus
    BY <1>1 DEF ReturnsInv, ReturnsTyped
  <2>2. (to = "REFUND_PENDING" /\ refund[i] = "NONE") \in BOOLEAN
    OBVIOUS
  <2>. QED
    BY <2>1, <2>2 DEF Decisions
<1>4. deciding'[d] = decision
  BY <1>1 DEF ReturnsInv, ReturnsTyped
<1>5. ASSUME NEW e \in Deciders PROVE StillAllowed(deciding[e])'
  <2>1. CASE e = d
    <3>1. refund'[i] = refund[i]
      BY <1>2
    <3>2. /\ deciding'[e].seen = request[i] /\ deciding'[e].to = to /\ deciding'[e].item = i
          /\ deciding'[e].ask = (to = "REFUND_PENDING" /\ refund[i] = "NONE")
      BY <1>4, <2>1
    <3>3. to \in SUPPLIER_RETURN_TRANSITIONS[request[i]]
      BY <1>1 DEF ReturnTransitionAllowed
    <3>4. request[i] = "REFUND_PENDING" /\ to = "RESOLVED" => refund'[i] = "COMPLETED"
      BY <1>1, <3>1 DEF ReturnTransitionAllowed
    <3>5. to = "REFUND_PENDING" => deciding'[e].ask \/ refund'[i] # "NONE"
      BY <3>1, <3>2
    <3>6. /\ deciding'[e].to \in SUPPLIER_RETURN_TRANSITIONS[deciding'[e].seen]
          /\ deciding'[e].seen = "REFUND_PENDING" /\ deciding'[e].to = "RESOLVED" =>
                refund'[deciding'[e].item] = "COMPLETED"
          /\ deciding'[e].to = "REFUND_PENDING" =>
                deciding'[e].ask \/ refund'[deciding'[e].item] # "NONE"
      BY <3>2, <3>3, <3>4, <3>5
    <3>. QED
      BY <3>6 DEF StillAllowed
  <2>2. CASE e # d
    BY <1>1, <1>2, <2>2, DecisionsKeep DEF ReturnsInv, ReturnsTyped, RefundKeeps
  <2>. QED
    BY <2>1, <2>2
<1>6. ReturnsTyped'
  BY <1>1, <1>2, <1>3 DEF ReturnsInv, ReturnsTyped
<1>. QED
  BY <1>2, <1>5, <1>6 DEF ReturnsInv, PendingHasRefund, OpenCaseHasOpenReturn

\* What a decision that is written finds.
LEMMA CommitFinds ==
    ASSUME ReturnsInv, NEW d \in Deciders, NEW who \in Blames, DecideCommit(d, who)
    PROVE  LET i == deciding[d].item  to == deciding[d].to IN
           /\ i \in Items /\ to \in ReturnStatus /\ deciding[d].ask \in BOOLEAN
           /\ request[i] \in ReturnStatus
           /\ to \in SUPPLIER_RETURN_TRANSITIONS[request[i]]
           /\ request[i] = "REFUND_PENDING" /\ to = "RESOLVED" => refund[i] = "COMPLETED"
           /\ to = "REFUND_PENDING" => deciding[d].ask \/ refund[i] # "NONE"
<1>1. deciding[d].pc = "write" /\ StillAllowed(deciding[d]) /\ deciding[d] \in Decisions
  BY DEF ReturnsInv, ReturnsTyped, DecideCommit
<1>2. deciding[d].item \in Items /\ deciding[d].to \in ReturnStatus /\ deciding[d].seen \in ReturnStatus
      /\ deciding[d].ask \in BOOLEAN
  BY <1>1 DEF Decisions, IdleRequest
<1>3. request[deciding[d].item] = deciding[d].seen
  BY DEF DecideCommit
<1>. QED
  BY <1>1, <1>2, <1>3 DEF StillAllowed

LEMMA CommitWrites ==
    ASSUME ReturnsInv, NEW d \in Deciders, NEW who \in Blames, DecideCommit(d, who)
    PROVE  /\ request' = [request EXCEPT ![deciding[d].item] = deciding[d].to]
           /\ refund' \in [Items -> RefundStatus]
           /\ \A j \in Items : /\ refund[j] # "NONE" => refund'[j] = refund[j]
                               /\ j = deciding[d].item /\ deciding[d].ask => refund'[j] # "NONE"
<1>1. deciding[d].item \in Items
  BY CommitFinds
<1>2. request' = [request EXCEPT ![deciding[d].item] = deciding[d].to]
  BY DEF DecideCommit
<1>3. CASE deciding[d].ask
  <2>1. refund[deciding[d].item] = "NONE"
        /\ refund' = [refund EXCEPT ![deciding[d].item] = "PENDING"]
    BY <1>3 DEF DecideCommit
  <2>. QED
    BY <1>1, <1>2, <2>1 DEF ReturnsInv, ReturnsTyped, RefundStatus
<1>4. CASE ~deciding[d].ask
  <2>1. refund' = refund
    BY <1>4 DEF DecideCommit
  <2>. QED
    BY <1>2, <1>4, <2>1 DEF ReturnsInv, ReturnsTyped
<1>. QED
  BY <1>3, <1>4

LEMMA DecideCommitStep ==
    ASSUME ReturnsInv, NEW d \in Deciders, NEW who \in Blames, DecideCommit(d, who)
    PROVE  ReturnsInv'
<1>. DEFINE i == deciding[d].item
            to == deciding[d].to
<1>1. i \in Items /\ to \in ReturnStatus
  BY CommitFinds
<1>2. /\ asking' = asking /\ deciding' = [deciding EXCEPT ![d] = IdleRequest]
      /\ protection' = IF to \in ClosedReturn THEN CaseOutcome(who) ELSE protection
      /\ request' = [request EXCEPT ![i] = to]
  BY DEF DecideCommit
<1>3. ReturnsTyped'
  <2>1. protection' \in CaseStatus \cup {"NONE"}
    BY <1>2 DEF ReturnsInv, ReturnsTyped, CaseOutcome, CaseStatus
  <2>2. deciding' \in [Deciders -> Decisions]
    BY <1>2 DEF ReturnsInv, ReturnsTyped, Decisions
  <2>3. request' \in [Items -> ReturnStatus \cup {"NONE"}]
    BY <1>1, <1>2 DEF ReturnsInv, ReturnsTyped
  <2>4. refund' \in [Items -> RefundStatus]
    BY CommitWrites
  <2>. QED
    BY <1>2, <2>1, <2>2, <2>3, <2>4 DEF ReturnsInv, ReturnsTyped
<1>4. RefundKeeps
  BY CommitWrites DEF RefundKeeps
<1>5. \A e \in Deciders : StillAllowed(deciding[e])'
  BY <1>2, <1>4, DecisionsKeep DEF ReturnsInv, ReturnsTyped
<1>6. PendingHasRefund'
  <2>. SUFFICES ASSUME NEW j \in Items, request'[j] = "REFUND_PENDING" PROVE refund'[j] # "NONE"
    BY DEF PendingHasRefund
  <2>1. CASE j = i
    BY <1>1, <1>2, <2>1, CommitFinds, CommitWrites DEF ReturnsInv, ReturnsTyped
  <2>2. CASE j # i
    BY <1>1, <1>2, <1>4, <2>2 DEF ReturnsInv, ReturnsTyped, PendingHasRefund, RefundKeeps
  <2>. QED
    BY <2>1, <2>2
<1>7. OpenCaseHasOpenReturn'
  <2>1. CASE to \in ClosedReturn
    BY <1>2, <2>1 DEF OpenCaseHasOpenReturn, CaseOutcome
  <2>2. CASE to \notin ClosedReturn
    <3>1. request'[i] = to /\ to \in OpenReturn
      BY <1>1, <1>2, <2>2 DEF ReturnsInv, ReturnsTyped, OpenReturn
    <3>. QED
      BY <1>1, <3>1 DEF OpenCaseHasOpenReturn
  <2>. QED
    BY <2>1, <2>2
<1>. QED
  BY <1>3, <1>5, <1>6, <1>7 DEF ReturnsInv

LEMMA DecideRefusedStep == ASSUME ReturnsInv, NEW d \in Deciders, DecideRefused(d) PROVE ReturnsInv'
<1>1. /\ deciding' = [deciding EXCEPT ![d] = IdleRequest]
      /\ UNCHANGED <<request, refund, protection, asking>>
  BY DEF DecideRefused
<1>2. ReturnsTyped'
  BY <1>1 DEF ReturnsInv, ReturnsTyped, Decisions
<1>3. \A e \in Deciders : StillAllowed(deciding[e])'
  BY <1>1, DecisionsKeep DEF ReturnsInv, ReturnsTyped, RefundKeeps
<1>. QED
  BY <1>1, <1>2, <1>3 DEF ReturnsInv, PendingHasRefund, OpenCaseHasOpenReturn

LEMMA SettlesStep == ASSUME ReturnsInv, NEW i \in Items, RefundSettles(i) PROVE ReturnsInv'
<1>1. PICK outcome \in {"COMPLETED", "FAILED"} : refund' = [refund EXCEPT ![i] = outcome]
  BY DEF RefundSettles
<1>2. refund[i] = "PENDING" /\ UNCHANGED <<request, protection, asking, deciding>>
  BY DEF RefundSettles
<1>3. RefundKeeps
  BY <1>1, <1>2 DEF RefundKeeps, ReturnsInv, ReturnsTyped
<1>4. ReturnsTyped'
  BY <1>1, <1>2 DEF ReturnsInv, ReturnsTyped, RefundStatus
<1>5. \A e \in Deciders : StillAllowed(deciding[e])'
  BY <1>2, <1>3, DecisionsKeep
<1>6. PendingHasRefund'
  BY <1>2, <1>3 DEF ReturnsInv, PendingHasRefund, RefundKeeps
<1>. QED
  BY <1>2, <1>4, <1>5, <1>6 DEF ReturnsInv, OpenCaseHasOpenReturn

LEMMA ReturnsStep == ReturnsInv /\ [ReturnsNext]_returnsVars => ReturnsInv'
<1>. SUFFICES ASSUME ReturnsInv, [ReturnsNext]_returnsVars PROVE ReturnsInv'
  OBVIOUS
<1>1. CASE UNCHANGED returnsVars
  BY <1>1 DEF returnsVars, ReturnsInv, ReturnsTyped, PendingHasRefund, StillAllowed,
              OpenCaseHasOpenReturn
<1>. QED
  BY <1>1, AskingStep, DecideReadStep, DecideCommitStep, DecideRefusedStep, SettlesStep
     DEF ReturnsNext

(***************************************************************************)
(* The inductive invariant: types, and what a decision read still holds    *)
(* when it is written (dropshipping-return-service.ts).                    *)
(***************************************************************************)
THEOREM ReturnsInvariant == ReturnsSpec => []ReturnsInv
  BY ReturnsStart, ReturnsStep, PTL DEF ReturnsSpec

(***************************************************************************)
(* The buyer protection case of an order is never left open by returns     *)
(* that are all closed, however requests and decisions pass each other     *)
(* (dropshipping-return-service.ts).                                       *)
(***************************************************************************)
THEOREM NoOrphanedCase == ReturnsSpec => []OpenCaseHasOpenReturn
<1>1. ReturnsInv => OpenCaseHasOpenReturn
  BY DEF ReturnsInv
<1>. QED
  BY ReturnsInvariant, <1>1, PTL

(***************************************************************************)
(* Of two decisions on one return only one counts, a closed return stays   *)
(* closed, and one that waits for its refund is resolved by a completed    *)
(* refund alone (decideSupplierReturn).                                    *)
(***************************************************************************)
THEOREM DecisionsFinal == ReturnsSpec => DecisionsAreFinal
<1>. DEFINE Final(i) ==
              /\ request'[i] # request[i] /\ request[i] # "NONE" =>
                    request'[i] \in SUPPLIER_RETURN_TRANSITIONS[request[i]]
              /\ request[i] = "REFUND_PENDING" /\ request'[i] = "RESOLVED" =>
                    refund[i] = "COMPLETED"
              /\ request'[i] = "REFUND_PENDING" => refund'[i] # "NONE"
<1>1. ASSUME ReturnsInv, ReturnsInv', ReturnsNext, NEW i \in Items PROVE Final(i)
  <2>1. request'[i] = "REFUND_PENDING" => refund'[i] # "NONE"
    BY <1>1 DEF ReturnsInv, PendingHasRefund
  <2>2. ASSUME NEW b \in Buyings, ReturnRead(b) \/ ReturnRefused(b) PROVE request' = request
    BY <2>2 DEF ReturnRead, ReturnRefused
  <2>3. ASSUME NEW b \in Buyings, ReturnCommit(b), request[i] # "NONE" PROVE request'[i] = request[i]
    BY <1>1, <2>3 DEF ReturnCommit, AskingCollides, ReturnsInv, ReturnsTyped
  <2>4. ASSUME NEW d \in Deciders, DecideRead(d) \/ DecideRefused(d) PROVE request' = request
    BY <2>4 DEF DecideRead, DecideRefused
  <2>5. ASSUME NEW j \in Items, RefundSettles(j) PROVE request' = request
    BY <2>5 DEF RefundSettles
  <2>6. ASSUME NEW d \in Deciders, NEW who \in Blames, DecideCommit(d, who) PROVE Final(i)
    BY <1>1, <2>1, <2>6, CommitFinds, CommitWrites DEF ReturnsInv, ReturnsTyped
  <2>7. request'[i] = request[i] => Final(i)
    BY <2>1
  <2>8. request[i] = "NONE" => Final(i)
    BY <2>1
  <2>. QED
    BY <1>1, <2>2, <2>3, <2>4, <2>5, <2>6, <2>7, <2>8 DEF ReturnsNext
<1>2. ReturnsInv /\ ReturnsInv' /\ [ReturnsNext]_returnsVars => [\A i \in Items : Final(i)]_returnsVars
  BY <1>1
<1>. QED
  BY ReturnsInvariant, <1>2, PTL DEF ReturnsSpec, DecisionsAreFinal

-------------------------------------------------------------------------------
(***************************************************************************)
(* The supplier's product, its reviews and its verifications.              *)
(***************************************************************************)

ReviewStates ==
    {Quiet} \cup [pc : {"decision"}, decision : DOMAIN DECISION_TARGET, seen : ProductStatus,
                  active : BOOLEAN]

VerifyStates ==
    [pc : {"idle", "read"}] \cup
    [pc : {"write"}, cost : ProductCosts \cup {0}, firm : BOOLEAN, todo : SUBSET Sellers]

ImportStates ==
    [pc : {"idle", "create"}] \cup
    [pc : {"store"}, cost : ProductCosts \cup {0}, firm : BOOLEAN]

CatalogTyped ==
    /\ CatalogTypeOK
    /\ review \in [Admins -> ReviewStates]
    /\ verify \in [Verifiers -> VerifyStates]
    /\ import \in [Sellers -> ImportStates]

\* A firm figure was verified together with a delivery charge.
Backed(figure) ==
    figure.firm => [cost |-> figure.cost, delivery |-> TRUE] \in verifications

\* Every figure that is shown, stored, or carried by a request is backed.
FiguresBacked ==
    /\ Backed([cost |-> product.cost, firm |-> product.delivery])
    /\ \A s \in Sellers : Backed(snapshot[s])
    /\ \A v \in Verifiers : verify[v].pc = "write" => Backed(verify[v])
    /\ \A s \in Sellers : import[s].pc = "store" => Backed(import[s])

\* Whoever approves, or has begun to, found a verification on record.
ApprovalsChecked ==
    /\ Checked => \E v \in verifications : v.cost = product.cost
    /\ product.status = "APPROVED" => Checked
    /\ \A a \in Admins : review[a].pc = "decision" /\ review[a].decision = "APPROVE" => Checked

\* Nobody reviews a removed product, and it is inactive.
RemovedIsOver ==
    /\ product.status = "REMOVED" => ~product.active
    /\ \A a \in Admins : review[a].pc = "decision" => review[a].seen \notin {"NONE", "REMOVED"}

CatalogInv == CatalogTyped /\ FiguresBacked /\ ApprovalsChecked /\ RemovedIsOver

LEMMA CatalogStart == CatalogInit => CatalogInv
<1>. SUFFICES ASSUME CatalogInit PROVE CatalogInv
  OBVIOUS
<1>1. CatalogTyped
  BY DEF CatalogInit, CatalogTyped, CatalogTypeOK, SupplierStatus, STATUS_TRANSITIONS,
         ProductStatus, NoSnapshot, Quiet, ReviewStates, VerifyStates, ImportStates
<1>. QED
  BY <1>1 DEF CatalogInit, CatalogInv, FiguresBacked, Backed, ApprovalsChecked, Checked,
              RemovedIsOver, NoSnapshot, Quiet

\* The history only grows: what was backed or checked stays so.
LEMMA HistoryKeeps ==
    ASSUME verifications \subseteq verifications', Checked
    PROVE  Checked'
  BY DEF Checked

\* A step that leaves the product and the history alone, and changes one request.
LEMMA RequestStep ==
    ASSUME CatalogInv, UNCHANGED <<supplier, product, verifications, listing>>,
           snapshot' \in [Sellers -> [cost : ProductCosts \cup {0}, firm : BOOLEAN,
                                      rule : {"NONE", "SELLER", "CATEGORY"}]],
           \A s \in Sellers : Backed(snapshot'[s]),
           review' \in [Admins -> ReviewStates],
           \A a \in Admins : \/ review'[a] = review[a] \/ review'[a] = Quiet
                             \/ /\ review'[a].pc = "decision"
                                /\ review'[a].seen \notin {"NONE", "REMOVED"}
                                /\ review'[a].decision = "APPROVE" => Checked,
           verify' \in [Verifiers -> VerifyStates],
           \A v \in Verifiers : verify'[v].pc = "write" => Backed(verify'[v]),
           import' \in [Sellers -> ImportStates],
           \A s \in Sellers : import'[s].pc = "store" => Backed(import'[s])
    PROVE  CatalogInv'
<1>1. /\ \A a \in Admins : review'[a].pc \in {"idle", "decision"}
      /\ \A v \in Verifiers : verify'[v].pc \in {"idle", "read", "write"}
      /\ \A s \in Sellers : import'[s].pc \in {"idle", "create", "store"}
  BY DEF ReviewStates, VerifyStates, ImportStates, Quiet
<1>2. CatalogTyped'
  BY <1>1 DEF CatalogInv, CatalogTyped, CatalogTypeOK
<1>3. FiguresBacked'
  BY DEF CatalogInv, FiguresBacked, Backed
<1>4. ApprovalsChecked'
  BY DEF CatalogInv, ApprovalsChecked, Checked, Quiet
<1>5. RemovedIsOver'
  BY DEF CatalogInv, RemovedIsOver, Quiet
<1>. QED
  BY <1>2, <1>3, <1>4, <1>5 DEF CatalogInv

LEMMA ReviewStepKept ==
    ASSUME CatalogInv, NEW a \in Admins, DecisionRead(a) \/ ReviewLost(a)
    PROVE  CatalogInv'
<1>1. UNCHANGED <<supplier, product, verifications, listing, snapshot, verify, import>>
  BY DEF DecisionRead, ReviewLost
<1>2. /\ review' \in [Admins -> ReviewStates]
      /\ \A b \in Admins : \/ review'[b] = review[b] \/ review'[b] = Quiet
                           \/ /\ review'[b].pc = "decision"
                              /\ review'[b].seen \notin {"NONE", "REMOVED"}
                              /\ review'[b].decision = "APPROVE" => Checked
  <2>1. CASE ReviewLost(a)
    BY <2>1 DEF ReviewLost, CatalogInv, CatalogTyped, ReviewStates
  <2>2. CASE DecisionRead(a)
    <3>1. PICK decision \in DOMAIN DECISION_TARGET :
            /\ product.status \in ALLOWED_FROM[decision]
            /\ decision = "APPROVE" =>
                  supplier = "APPROVED" /\ Checked /\ product.delivery
            /\ review' = [review EXCEPT ![a] =
                   [pc |-> "decision", decision |-> decision, seen |-> product.status,
                    active |-> product.active]]
      BY <2>2 DEF DecisionRead
    <3>2. product.status \in ProductStatus /\ product.active \in BOOLEAN
      BY DEF CatalogInv, CatalogTyped, CatalogTypeOK
    <3>3. product.status \notin {"NONE", "REMOVED"}
      BY <3>1 DEF ALLOWED_FROM, DECISION_TARGET
    <3>4. [pc |-> "decision", decision |-> decision, seen |-> product.status,
           active |-> product.active] \in ReviewStates
      BY <3>2 DEF ReviewStates
    <3>. QED
      BY <3>1, <3>3, <3>4 DEF CatalogInv, CatalogTyped
  <2>. QED
    BY <2>1, <2>2
<1>. QED
  BY <1>1, <1>2, RequestStep DEF CatalogInv, CatalogTyped, CatalogTypeOK, FiguresBacked

LEMMA DecisionTargets ==
    ASSUME NEW decision \in DOMAIN DECISION_TARGET
    PROVE  /\ DECISION_TARGET[decision] \in ProductStatus
           /\ DECISION_TARGET[decision] = "APPROVED" => decision = "APPROVE"
           /\ DECISION_TARGET[decision] = "REMOVED" => decision = "REMOVE"
  BY DEF DECISION_TARGET, ProductStatus

\* A decision is written to a product that is as it was read, or not at all.
LEMMA DecisionWrites ==
    ASSUME CatalogInv, NEW a \in Admins, DecisionCommit(a)
    PROVE  /\ product' \in [status : ProductStatus, active : BOOLEAN, delivery : BOOLEAN,
                            cost : ProductCosts \cup {0}]
           /\ product'.cost = product.cost /\ product'.delivery = product.delivery
           /\ product'.status = "APPROVED" => Checked
           /\ product'.status = "REMOVED" => ~product'.active
           /\ product.status \in {"NONE", "REMOVED"} => product' = product
<1>1. /\ product \in [status : ProductStatus, active : BOOLEAN, delivery : BOOLEAN,
                      cost : ProductCosts \cup {0}]
      /\ review[a] \in ReviewStates /\ review[a].pc = "decision"
  BY DEF CatalogInv, CatalogTyped, CatalogTypeOK, DecisionCommit
<1>2. /\ review[a].decision \in DOMAIN DECISION_TARGET /\ review[a].active \in BOOLEAN
      /\ review[a].seen \notin {"NONE", "REMOVED"}
      /\ review[a].decision = "APPROVE" => Checked
  BY <1>1 DEF ReviewStates, Quiet, CatalogInv, ApprovalsChecked, RemovedIsOver
<1>3. CASE product' = product
  BY <1>1, <1>3 DEF CatalogInv, ApprovalsChecked, RemovedIsOver
<1>4. CASE product' # product
  <2>1. PICK active \in BOOLEAN :
          /\ product' = [product EXCEPT !.status = DECISION_TARGET[review[a].decision],
                                        !.active = active]
          /\ review[a].decision = "REMOVE" => ~active
    BY <1>2, <1>4 DEF DecisionCommit
  <2>2. product.status = review[a].seen
    BY <1>4 DEF DecisionCommit
  <2>3. /\ DECISION_TARGET[review[a].decision] \in ProductStatus
        /\ DECISION_TARGET[review[a].decision] = "APPROVED" => review[a].decision = "APPROVE"
        /\ DECISION_TARGET[review[a].decision] = "REMOVED" => review[a].decision = "REMOVE"
    BY <1>2, DecisionTargets
  <2>. QED
    BY <1>1, <1>2, <2>1, <2>2, <2>3
<1>. QED
  BY <1>3, <1>4

LEMMA DecisionStepKept == ASSUME CatalogInv, NEW a \in Admins, DecisionCommit(a) PROVE CatalogInv'
<1>1. /\ UNCHANGED <<supplier, verifications, listing, snapshot, verify, import>>
      /\ review' = [review EXCEPT ![a] = Quiet]
  BY DEF DecisionCommit
<1>2. /\ review' \in [Admins -> ReviewStates]
      /\ \A b \in Admins : review'[b] = review[b] \/ review'[b] = Quiet
      /\ \A b \in Admins : review'[b].pc \in {"idle", "decision"}
  BY <1>1 DEF CatalogInv, CatalogTyped, CatalogTypeOK, ReviewStates, Quiet
<1>3. CatalogTyped'
  BY <1>1, <1>2, DecisionWrites DEF CatalogInv, CatalogTyped, CatalogTypeOK
<1>4. FiguresBacked'
  BY <1>1, DecisionWrites DEF CatalogInv, FiguresBacked, Backed
<1>5. ApprovalsChecked'
  BY <1>1, <1>2, DecisionWrites DEF CatalogInv, ApprovalsChecked, Checked, Quiet
<1>6. RemovedIsOver'
  BY <1>2, DecisionWrites DEF CatalogInv, RemovedIsOver, Quiet
<1>. QED
  BY <1>3, <1>4, <1>5, <1>6 DEF CatalogInv

LEMMA ProductStepKept == ASSUME CatalogInv, ChangeSupplierStatus \/ SubmitProduct PROVE CatalogInv'
<1>1. CASE ChangeSupplierStatus
  <2>1. supplier' \in SupplierStatus
    BY <1>1 DEF ChangeSupplierStatus, CatalogInv, CatalogTyped, CatalogTypeOK, SupplierStatus,
                STATUS_TRANSITIONS
  <2>. QED
    BY <1>1, <2>1 DEF ChangeSupplierStatus, CatalogInv, CatalogTyped, CatalogTypeOK, FiguresBacked,
                      Backed, ApprovalsChecked, Checked, RemovedIsOver
<1>2. CASE SubmitProduct
  <2>1. PICK status \in {"DRAFT", "PENDING_REVIEW"} :
          product' = [product EXCEPT !.status = status, !.active = TRUE]
    BY <1>2 DEF SubmitProduct
  <2>2. product \in [status : ProductStatus, active : BOOLEAN, delivery : BOOLEAN,
                     cost : ProductCosts \cup {0}]
    BY DEF CatalogInv, CatalogTyped, CatalogTypeOK
  <2>3. /\ product' \in [status : ProductStatus, active : BOOLEAN, delivery : BOOLEAN,
                         cost : ProductCosts \cup {0}]
        /\ product'.cost = product.cost /\ product'.delivery = product.delivery
        /\ product'.status \in {"DRAFT", "PENDING_REVIEW"}
    BY <2>1, <2>2 DEF ProductStatus
  <2>4. UNCHANGED <<supplier, verifications, listing, snapshot, review, verify, import>>
    BY <1>2 DEF SubmitProduct
  <2>. QED
    BY <2>3, <2>4 DEF CatalogInv, CatalogTyped, CatalogTypeOK, FiguresBacked,
                      Backed, ApprovalsChecked, Checked, RemovedIsOver
<1>. QED
  BY <1>1, <1>2

LEMMA VerifyCommitKept == ASSUME CatalogInv, NEW v \in Verifiers, VerifyCommit(v) PROVE CatalogInv'
<1>1. PICK cost \in ProductCosts, delivery \in BOOLEAN :
        /\ verifications' = verifications \cup {[cost |-> cost, delivery |-> delivery]}
        /\ product' = [product EXCEPT !.delivery = delivery, !.cost = cost]
  BY DEF VerifyCommit
<1>2. /\ UNCHANGED <<supplier, listing, snapshot, review, import>>
      /\ verify' = [verify EXCEPT ![v] = [pc |-> "read"]]
  BY DEF VerifyCommit
<1>3. /\ product' \in [status : ProductStatus, active : BOOLEAN, delivery : BOOLEAN,
                       cost : ProductCosts \cup {0}]
      /\ product'.cost = cost /\ product'.delivery = delivery
      /\ product'.status = product.status /\ product'.active = product.active
  BY <1>1 DEF CatalogInv, CatalogTyped, CatalogTypeOK
<1>4. /\ verifications' \subseteq [cost : ProductCosts, delivery : BOOLEAN]
      /\ verifications \subseteq verifications'
      /\ [cost |-> cost, delivery |-> delivery] \in verifications'
  BY <1>1 DEF CatalogInv, CatalogTyped, CatalogTypeOK
<1>5. /\ verify' \in [Verifiers -> VerifyStates]
      /\ \A u \in Verifiers : verify'[u] = verify[u] \/ verify'[u] = [pc |-> "read"]
      /\ \A u \in Verifiers : verify'[u].pc \in {"idle", "read", "write"}
  BY <1>2 DEF CatalogInv, CatalogTyped, CatalogTypeOK, VerifyStates
<1>6. CatalogTyped'
  BY <1>2, <1>3, <1>4, <1>5 DEF CatalogInv, CatalogTyped, CatalogTypeOK
<1>7. FiguresBacked'
  <2>1. Backed([cost |-> product.cost, firm |-> product.delivery])'
    BY <1>3, <1>4 DEF Backed
  <2>2. \A s \in Sellers : Backed(snapshot[s])'
    BY <1>2, <1>4 DEF Backed, CatalogInv, FiguresBacked
  <2>3. \A u \in Verifiers : verify'[u].pc = "write" => Backed(verify[u])'
    BY <1>4, <1>5 DEF Backed, CatalogInv, FiguresBacked
  <2>4. \A s \in Sellers : import'[s].pc = "store" => Backed(import[s])'
    BY <1>2, <1>4 DEF Backed, CatalogInv, FiguresBacked
  <2>. QED
    BY <2>1, <2>2, <2>3, <2>4 DEF FiguresBacked
<1>8. ApprovalsChecked'
  <2>1. \E u \in verifications' : u.cost = product'.cost
    BY <1>3, <1>4
  <2>. QED
    BY <1>2, <1>3, <1>4, <2>1 DEF ApprovalsChecked, Checked, CatalogInv
<1>9. RemovedIsOver'
  BY <1>2, <1>3 DEF RemovedIsOver, CatalogInv
<1>. QED
  BY <1>6, <1>7, <1>8, <1>9 DEF CatalogInv

LEMMA RecalculationKept ==
    ASSUME CatalogInv, NEW v \in Verifiers, RecalculateRead(v) \/ RecalculateWrite(v) \/ VerifyEnd(v)
    PROVE  CatalogInv'
<1>. DEFINE Snapshots == [cost : ProductCosts \cup {0}, firm : BOOLEAN,
                          rule : {"NONE", "SELLER", "CATEGORY"}]
<1>1. UNCHANGED <<supplier, product, verifications, listing, review, import>>
  BY DEF RecalculateRead, RecalculateWrite, VerifyEnd
<1>2. /\ product.cost \in ProductCosts \cup {0} /\ product.delivery \in BOOLEAN
      /\ verify \in [Verifiers -> VerifyStates] /\ snapshot \in [Sellers -> Snapshots]
      /\ verify[v] \in VerifyStates /\ verify[v].pc = "write" => Backed(verify[v])
      /\ \A u \in Verifiers : verify[u].pc = "write" => Backed(verify[u])
      /\ \A s \in Sellers : Backed(snapshot[s])
  BY DEF CatalogInv, CatalogTyped, CatalogTypeOK, FiguresBacked
<1>3. /\ snapshot' \in [Sellers -> Snapshots]
      /\ \A s \in Sellers : Backed(snapshot'[s])
      /\ verify' \in [Verifiers -> VerifyStates]
      /\ \A u \in Verifiers : verify'[u].pc = "write" => Backed(verify'[u])
  <2>1. CASE RecalculateRead(v)
    <3>. DEFINE read == [pc |-> "write", cost |-> product.cost, firm |-> product.delivery,
                         todo |-> HasSnapshot]
    <3>1. verify' = [verify EXCEPT ![v] = read] /\ snapshot' = snapshot
      BY <2>1 DEF RecalculateRead
    <3>2. read \in VerifyStates
      BY <1>2 DEF VerifyStates, HasSnapshot
    <3>3. Backed(read)
      BY DEF CatalogInv, FiguresBacked, Backed
    <3>. HIDE DEF read
    <3>. QED
      BY <1>2, <3>1, <3>2, <3>3
  <2>2. CASE RecalculateWrite(v)
    <3>1. PICK s \in verify[v].todo :
            /\ snapshot' = [snapshot EXCEPT ![s] =
                   [cost |-> verify[v].cost, firm |-> verify[v].firm, rule |-> "SELLER"]]
            /\ verify' = [verify EXCEPT ![v] = [verify[v] EXCEPT !.todo = @ \ {s}]]
      BY <2>2 DEF RecalculateWrite
    <3>2. /\ verify[v].pc = "write" /\ Backed(verify[v])
          /\ verify[v].todo \in SUBSET Sellers
          /\ verify[v].cost \in ProductCosts \cup {0} /\ verify[v].firm \in BOOLEAN
      BY <1>2, <2>2 DEF RecalculateWrite, VerifyStates
    <3>. DEFINE snap == [cost |-> verify[v].cost, firm |-> verify[v].firm, rule |-> "SELLER"]
                left == [verify[v] EXCEPT !.todo = @ \ {s}]
    <3>3. snap \in Snapshots /\ Backed(snap)
      BY <3>2 DEF Backed
    <3>4. left \in VerifyStates /\ left.cost = verify[v].cost /\ left.firm = verify[v].firm
      BY <1>2, <3>2 DEF VerifyStates
    <3>5. Backed(left)
      BY <3>2, <3>4 DEF Backed
    <3>6. snapshot' = [snapshot EXCEPT ![s] = snap] /\ verify' = [verify EXCEPT ![v] = left]
      BY <3>1
    <3>. HIDE DEF snap, left, Snapshots
    <3>. QED
      BY <1>2, <3>3, <3>4, <3>5, <3>6
  <2>3. CASE VerifyEnd(v)
    BY <1>2, <2>3 DEF VerifyEnd, VerifyStates, Quiet
  <2>. QED
    BY <2>1, <2>2, <2>3
<1>4. /\ review' \in [Admins -> ReviewStates] /\ \A a \in Admins : review'[a] = review[a]
      /\ import' \in [Sellers -> ImportStates]
      /\ \A s \in Sellers : import'[s].pc = "store" => Backed(import'[s])
  BY <1>1 DEF CatalogInv, CatalogTyped, FiguresBacked
<1>. QED
  BY <1>1, <1>3, <1>4, RequestStep

LEMMA ImportStepKept ==
    ASSUME CatalogInv, NEW s \in Sellers,
           ImportRead(s) \/ ImportCreate(s) \/ ImportStore(s) \/ ImportLost(s)
    PROVE  CatalogInv'
<1>. DEFINE Snapshots == [cost : ProductCosts \cup {0}, firm : BOOLEAN,
                          rule : {"NONE", "SELLER", "CATEGORY"}]
<1>1. UNCHANGED <<supplier, product, verifications, review, verify>>
  BY DEF ImportRead, ImportCreate, ImportStore, ImportLost
<1>2. /\ product.cost \in ProductCosts \cup {0} /\ product.delivery \in BOOLEAN
      /\ import \in [Sellers -> ImportStates] /\ snapshot \in [Sellers -> Snapshots]
      /\ listing \in [Sellers -> {"NONE", "DRAFT"}]
      /\ import[s] \in ImportStates /\ import[s].pc = "store" => Backed(import[s])
      /\ \A u \in Sellers : import[u].pc = "store" => Backed(import[u])
      /\ \A u \in Sellers : Backed(snapshot[u])
  BY DEF CatalogInv, CatalogTyped, CatalogTypeOK, FiguresBacked
<1>3. /\ snapshot' \in [Sellers -> Snapshots]
      /\ \A u \in Sellers : Backed(snapshot'[u])
      /\ import' \in [Sellers -> ImportStates]
      /\ \A u \in Sellers : import'[u].pc = "store" => Backed(import'[u])
      /\ listing' \in [Sellers -> {"NONE", "DRAFT"}]
  <2>1. CASE ImportRead(s) \/ ImportLost(s)
    BY <1>2, <2>1 DEF ImportRead, ImportLost, ImportStates, Quiet
  <2>2. CASE ImportCreate(s)
    <3>. DEFINE priced == [pc |-> "store", cost |-> product.cost, firm |-> product.delivery]
    <3>1. /\ import' = [import EXCEPT ![s] = priced] \/ import' = [import EXCEPT ![s] = Quiet]
          /\ snapshot' = snapshot /\ listing' = [listing EXCEPT ![s] = "DRAFT"]
      BY <2>2 DEF ImportCreate
    <3>2. priced \in ImportStates /\ Quiet \in ImportStates /\ Quiet.pc = "idle"
      BY <1>2 DEF ImportStates, Quiet
    <3>3. Backed(priced)
      BY DEF CatalogInv, FiguresBacked, Backed
    <3>. HIDE DEF priced, Snapshots
    <3>. QED
      BY <1>2, <3>1, <3>2, <3>3
  <2>3. CASE ImportStore(s)
    <3>. DEFINE snap == [cost |-> import[s].cost, firm |-> import[s].firm, rule |-> "CATEGORY"]
    <3>1. snapshot' = [snapshot EXCEPT ![s] = snap] /\ import' = [import EXCEPT ![s] = Quiet]
          /\ listing' = listing
      BY <2>3 DEF ImportStore
    <3>2. /\ import[s].cost \in ProductCosts \cup {0} /\ import[s].firm \in BOOLEAN
          /\ Backed(import[s])
      BY <1>2, <2>3 DEF ImportStore, ImportStates
    <3>3. snap \in Snapshots /\ Backed(snap) /\ Quiet \in ImportStates /\ Quiet.pc = "idle"
      BY <3>2 DEF Backed, ImportStates, Quiet
    <3>. HIDE DEF snap, Snapshots
    <3>. QED
      BY <1>2, <3>1, <3>3
  <2>. QED
    BY <2>1, <2>2, <2>3
<1>4. \A u \in Sellers : import'[u].pc \in {"idle", "create", "store"}
  BY <1>3 DEF ImportStates
<1>5. CatalogTyped'
  BY <1>1, <1>3, <1>4 DEF CatalogInv, CatalogTyped, CatalogTypeOK
<1>6. FiguresBacked'
  BY <1>1, <1>3 DEF CatalogInv, FiguresBacked, Backed
<1>. QED
  BY <1>1, <1>5, <1>6 DEF CatalogInv, ApprovalsChecked, Checked, RemovedIsOver

LEMMA CatalogStep == CatalogInv /\ [CatalogNext]_catalogVars => CatalogInv'
<1>. SUFFICES ASSUME CatalogInv, [CatalogNext]_catalogVars PROVE CatalogInv'
  OBVIOUS
<1>1. CASE UNCHANGED catalogVars
  BY <1>1 DEF catalogVars, CatalogInv, CatalogTyped, CatalogTypeOK, FiguresBacked, Backed,
              ApprovalsChecked, Checked, RemovedIsOver
<1>. QED
  BY <1>1, ProductStepKept, ReviewStepKept, DecisionStepKept, VerifyCommitKept, RecalculationKept,
     ImportStepKept DEF CatalogNext

(***************************************************************************)
(* The inductive invariant of the catalogue: every figure that is shown,   *)
(* stored or carried by a request under way is backed by the history of    *)
(* verifications, and nobody reviews what was removed                      *)
(* (supplier-product-service.ts, dropshipping-pricing-service.ts).         *)
(***************************************************************************)
THEOREM CatalogInvariant == CatalogSpec => []CatalogInv
  BY CatalogStart, CatalogStep, PTL DEF CatalogSpec

LEMMA CatalogSells == CatalogInv => VerifiedBeforeSold
  BY DEF CatalogInv, FiguresBacked, Backed, ApprovalsChecked, VerifiedBeforeSold,
         ApprovedWasVerified, FirmSnapshotsAreVerified

(***************************************************************************)
(* A product sellers can see was verified under the cost it shows, and a   *)
(* snapshot that is no estimate is of one verification, whatever           *)
(* administrators review, verify and sellers import at once.               *)
(***************************************************************************)
THEOREM SoldAsVerified == CatalogSpec => []VerifiedBeforeSold
  BY CatalogInvariant, CatalogSells, PTL

(***************************************************************************)
(* A removed product stays removed and inactive, whatever review was begun *)
(* before its removal (decideSupplierProduct).                             *)
(***************************************************************************)
THEOREM RemovedForGood == CatalogSpec => RemovedStaysRemoved
<1>1. ASSUME CatalogInv, CatalogNext, product.status = "REMOVED"
      PROVE  product'.status = "REMOVED" /\ ~product'.active
  <2>0. /\ product \in [status : ProductStatus, active : BOOLEAN, delivery : BOOLEAN,
                        cost : ProductCosts \cup {0}]
        /\ ~product.active
    BY <1>1 DEF CatalogInv, CatalogTyped, CatalogTypeOK, RemovedIsOver
  <2>1. \A a \in Admins : DecisionCommit(a) => product' = product
    BY <1>1, DecisionWrites
  <2>2. \A v \in Verifiers : VerifyCommit(v) =>
            product'.status = product.status /\ product'.active = product.active
    BY <2>0 DEF VerifyCommit
  <2>3. ~SubmitProduct
    BY <1>1 DEF SubmitProduct
  <2>4. \/ product' = product \/ \E a \in Admins : DecisionCommit(a)
        \/ \E v \in Verifiers : VerifyCommit(v)
    BY <1>1, <2>3 DEF CatalogNext, ChangeSupplierStatus, DecisionRead, ReviewLost, RecalculateRead,
       RecalculateWrite, VerifyEnd, ImportRead, ImportCreate, ImportStore, ImportLost
  <2>. QED
    BY <1>1, <2>0, <2>1, <2>2, <2>4
<1>2. CatalogInv /\ [CatalogNext]_catalogVars =>
        [product.status = "REMOVED" =>
            product'.status = "REMOVED" /\ ~product'.active]_catalogVars
  BY <1>1
<1>. QED
  BY CatalogInvariant, <1>2, PTL DEF CatalogSpec, RemovedStaysRemoved

-------------------------------------------------------------------------------
(***************************************************************************)
(* What a supplier-sourced listing earns.                                  *)
(***************************************************************************)

PricingInv ==
    /\ rules \subseteq Rules /\ day \in 0 .. MaxDay
    /\ offer.retail \in Retails /\ offer.cost \in OwnCosts
    /\ offer.paymentBps \in FeeRates /\ offer.taxBps \in FeeRates

LEMMA PricingStart == PricingInit => PricingInv
  BY PricingAssumption DEF PricingInit, PricingInv

LEMMA RetailsPositive == \A x \in Retails : x \in Int /\ 0 < x /\ x <= MaxInt
  BY PricingAssumption

LEMMA CostsNatural == \A x \in OwnCosts : x \in Nat
  BY PricingAssumption

LEMMA RatesBounded == \A x \in FeeRates : x \in Int /\ 0 <= x /\ x <= 10000
  BY PricingAssumption

LEMMA BoundsNatural == MaxInt \in Nat /\ MaxDay \in Nat
  BY PricingAssumption

LEMMA PricingStep == PricingInv /\ [PricingNext]_pricingVars => PricingInv'
<1>. SUFFICES ASSUME PricingInv, [PricingNext]_pricingVars PROVE PricingInv'
  OBVIOUS
<1>1. day' \in 0 .. MaxDay
  BY BoundsNatural DEF PricingInv, PricingNext, NextDay, pricingVars
<1>2. rules' = rules /\ offer' = offer
  BY DEF PricingNext, NextDay, pricingVars
<1>. QED
  BY <1>1, <1>2 DEF PricingInv

LEMMA OfferPriced == PricingInv => offer.retail \in Nat /\ offer.retail > 0 /\ offer.retail <= MaxInt
  BY RetailsPositive DEF PricingInv

LEMMA OfferCosts == PricingInv => offer.cost \in Nat
  BY CostsNatural DEF PricingInv

LEMMA OfferRates ==
    ASSUME PricingInv, NEW bps \in {offer.paymentBps, offer.taxBps}
    PROVE  bps \in Nat /\ bps <= 10000
  BY RatesBounded DEF PricingInv

RoundedHalfUp(amount, bps) ==
    LET fee == ApplyBasisPoints(amount, bps)
        off == 2 * (fee * 10000 - amount * bps)
    IN  -10000 < off /\ off <= 10000 /\ fee <= amount

\* Half-up rounding, for any amount and any rate up to the whole.
LEMMA RoundsHalfUp ==
    ASSUME NEW amount \in Nat, NEW bps \in Nat, bps <= 10000
    PROVE  ApplyBasisPoints(amount, bps) \in Nat /\ RoundedHalfUp(amount, bps)
<1>1. PICK x \in Int : x = amount * bps
  OBVIOUS
<1>2. 0 <= x /\ x <= amount * 10000
  <2>1. amount * (10000 - bps) >= 0 /\ amount * bps >= 0
    OBVIOUS
  <2>2. amount * (10000 - bps) = amount * 10000 - amount * bps
    OBVIOUS
  <2>. QED
    BY <1>1, <2>1, <2>2
<1>3. PICK fee \in Int : fee = (x + 5000) \div 10000
  OBVIOUS
<1>4. fee * 10000 <= x + 5000 /\ x + 5000 < fee * 10000 + 10000
  BY <1>3
<1>. QED
  <2>1. ApplyBasisPoints(amount, bps) = fee
    BY <1>1, <1>3 DEF ApplyBasisPoints
  <2>2. /\ fee \in Nat /\ fee <= amount
        /\ -10000 < 2 * (fee * 10000 - x) /\ 2 * (fee * 10000 - x) <= 10000
    BY <1>2, <1>4
  <2>. QED
    BY <1>1, <2>1, <2>2 DEF RoundedHalfUp

LEMMA FeesRound == PricingInv => FeesRoundHalfUp
<1>1. ASSUME PricingInv, NEW bps \in {offer.paymentBps, offer.taxBps}
      PROVE  RoundedHalfUp(offer.retail, bps)
  <2>1. PICK amount \in Nat : amount = offer.retail
    BY <1>1, OfferPriced
  <2>2. bps \in Nat /\ bps <= 10000
    BY <1>1, OfferRates
  <2>. QED
    BY <2>1, <2>2, RoundsHalfUp
<1>. QED
  BY <1>1 DEF FeesRoundHalfUp, RoundedHalfUp

\* Division that drops the fraction.
LEMMA TruncatedQuotient ==
    ASSUME NEW a \in Int, NEW b \in Nat, b > 0
    PROVE  LET q == Truncated(a, b) IN
           /\ q \in Int
           /\ a >= 0 => q >= 0 /\ 0 <= a - q * b /\ a - q * b < b
           /\ a <= 0 => q <= 0 /\ -b < a - q * b /\ a - q * b <= 0
<1>1. ASSUME NEW n \in Nat
      PROVE  /\ n \div b \in Nat
             /\ 0 <= n - (n \div b) * b /\ n - (n \div b) * b < b
  OBVIOUS
<1>2. CASE a > 0
  BY <1>1, <1>2 DEF Truncated
<1>3. CASE a = 0
  <2>1. 0 \div b = 0
    BY SMT
  <2>. QED
    BY <1>3, <2>1 DEF Truncated
<1>4. CASE a < 0
  <2>1. PICK q \in Nat : q = (-a) \div b
    BY <1>1, <1>4
  <2>2. 0 <= -a - q * b /\ -a - q * b < b
    BY <1>1, <1>4, <2>1
  <2>3. (-q) * b = -(q * b)
    OBVIOUS
  <2>. QED
    BY <1>4, <2>1, <2>2, <2>3 DEF Truncated
<1>. QED
  BY <1>2, <1>3, <1>4

\* A rule on record takes a natural fee.
LEMMA FeeNatural ==
    ASSUME PricingInv, NEW r \in Rules, r.type \in {"PERCENTAGE", "FIXED"}
    PROVE  EstimatedFee(r, offer.retail) \in Nat
<1>1. r.value \in Nat
  BY PricingAssumption DEF Rule
<1>2. CASE r.type = "FIXED"
  BY <1>1, <1>2 DEF EstimatedFee
<1>3. CASE r.type = "PERCENTAGE"
  <2>1. r.value <= 10000
    BY <1>3, PricingAssumption
  <2>2. PICK amount \in Nat : amount = offer.retail
    BY OfferPriced
  <2>3. ApplyBasisPoints(amount, r.value) \in Nat
    BY <1>1, <2>1, RoundsHalfUp
  <2>. QED
    BY <1>3, <2>2, <2>3 DEF EstimatedFee
<1>. QED
  BY <1>2, <1>3

\* What an estimate that is given is made of.
SoundEstimate(e) ==
    e.ok =>
        /\ e.cost \in Nat /\ e.cost <= MaxInt
        /\ e.profit \in Int /\ -MaxInt <= e.profit /\ e.profit <= MaxInt
        /\ e.margin = Truncated(e.profit * 10000, offer.retail)

LEMMA BreakdownSound == ASSUME PricingInv, NEW fee \in Nat PROVE SoundEstimate(Breakdown(fee))
<1>1. PICK retail \in Nat : retail = offer.retail /\ retail <= MaxInt
  BY OfferPriced
<1>2. PICK payment \in Nat : payment = ApplyBasisPoints(offer.retail, offer.paymentBps)
  BY <1>1, OfferRates, RoundsHalfUp
<1>3. PICK tax \in Nat : tax = ApplyBasisPoints(offer.retail, offer.taxBps)
  BY <1>1, OfferRates, RoundsHalfUp
<1>4. PICK cost \in Nat : cost = offer.cost + fee + payment + tax
  BY OfferCosts
<1>5. PICK profit \in Int : profit = retail - cost
  OBVIOUS
<1>6. CASE cost > MaxInt \/ -profit > MaxInt
  <2>1. ~Breakdown(fee).ok
    BY <1>1, <1>2, <1>3, <1>4, <1>5, <1>6 DEF Breakdown
  <2>. QED
    BY <2>1 DEF SoundEstimate
<1>7. CASE cost <= MaxInt /\ -profit <= MaxInt
  <2>1. Breakdown(fee) = [ok |-> TRUE, cost |-> cost, profit |-> profit,
                          margin |-> Truncated(profit * 10000, offer.retail)]
    BY <1>1, <1>2, <1>3, <1>4, <1>5, <1>7, BoundsNatural DEF Breakdown
  <2>2. -MaxInt <= profit /\ profit <= MaxInt
    BY <1>1, <1>5, <1>7, BoundsNatural
  <2>. QED
    BY <1>7, <2>1, <2>2 DEF SoundEstimate
<1>. QED
  BY <1>6, <1>7, BoundsNatural

LEMMA EstimatesSound ==
    ASSUME PricingInv, NEW withCategory \in BOOLEAN, NEW e \in Estimates(withCategory)
    PROVE  SoundEstimate(e)
<1>1. \/ e = Breakdown(NoRuleFee)
      \/ \E r \in resolveCommissionRule(withCategory) : e = Breakdown(EstimatedFee(r, offer.retail))
  BY DEF Estimates
<1>2. CASE e = Breakdown(NoRuleFee)
  BY <1>2, BreakdownSound DEF NoRuleFee
<1>3. ASSUME NEW r \in resolveCommissionRule(withCategory), e = Breakdown(EstimatedFee(r, offer.retail))
      PROVE  SoundEstimate(e)
  <2>1. r \in Rules
    BY DEF resolveCommissionRule, InScope, PricingInv
  <2>2. r.type \in {"PERCENTAGE", "FIXED"}
    BY <2>1, PricingAssumption DEF Rule
  <2>. QED
    BY <1>3, <2>1, <2>2, FeeNatural, BreakdownSound
<1>. QED
  BY <1>1, <1>2, <1>3

LEMMA PricingTyped == PricingInv => PricingTypeOK
<1>1. ASSUME PricingInv, NEW withCategory \in BOOLEAN, NEW e \in Estimates(withCategory), e.ok
      PROVE  e.cost \in 0 .. MaxInt /\ e.profit \in -MaxInt .. MaxInt
  BY <1>1, EstimatesSound, BoundsNatural DEF SoundEstimate
<1>. QED
  BY <1>1 DEF PricingInv, PricingTypeOK

LEMMA MarginSign == PricingInv => MarginTellsTheSign
<1>. SUFFICES ASSUME PricingInv, NEW withCategory \in BOOLEAN, NEW e \in Estimates(withCategory),
                     e.ok
              PROVE  LET rest == e.profit * 10000 - e.margin * offer.retail IN
                     /\ e.profit >= 0 => e.margin >= 0 /\ 0 <= rest /\ rest < offer.retail
                     /\ e.profit <= 0 => e.margin <= 0 /\ -offer.retail < rest /\ rest <= 0
  BY DEF MarginTellsTheSign
<1>1. PICK profit \in Int : profit = e.profit
  BY EstimatesSound DEF SoundEstimate
<1>2. PICK retail \in Nat : retail = offer.retail /\ retail > 0
  BY OfferPriced
<1>3. PICK a \in Int : a = profit * 10000
  OBVIOUS
<1>4. e.margin = Truncated(a, retail)
  BY <1>1, <1>2, <1>3, EstimatesSound DEF SoundEstimate
<1>5. PICK q \in Int : /\ q = Truncated(a, retail)
                       /\ a >= 0 => q >= 0 /\ 0 <= a - q * retail /\ a - q * retail < retail
                       /\ a <= 0 => q <= 0 /\ -retail < a - q * retail /\ a - q * retail <= 0
  BY <1>2, TruncatedQuotient
<1>6. (profit >= 0 => a >= 0) /\ (profit <= 0 => a <= 0)
  BY <1>3
<1>. QED
  BY <1>1, <1>2, <1>3, <1>4, <1>5, <1>6

LEMMA SettlementQuoted == PricingInv => SettlementIsAQuote
<1>. SUFFICES ASSUME PricingInv, NEW r \in ResolveRule,
                     EstimatedFee(r, offer.retail) <= offer.retail
              PROVE  Breakdown(Commission(r, offer.retail)) \in Estimates(TRUE)
  BY DEF SettlementIsAQuote
<1>1. r \in resolveCommissionRule(TRUE) /\ r \in Rules
  BY DEF ResolveRule, Latest, resolveCommissionRule, InScope, PricingInv
<1>2. Breakdown(EstimatedFee(r, offer.retail)) \in Estimates(TRUE)
  BY <1>1 DEF Estimates
<1>3. Commission(r, offer.retail) = EstimatedFee(r, offer.retail)
  <2>1. PICK retail \in Nat : retail = offer.retail
    BY OfferPriced
  <2>2. PICK fee \in Nat : fee = EstimatedFee(r, offer.retail)
    <3>1. r.type \in {"PERCENTAGE", "FIXED"}
      BY <1>1, PricingAssumption DEF Rule
    <3>. QED
      BY <1>1, <3>1, FeeNatural
  <2>3. fee = IF r.type = "FIXED" THEN r.value ELSE (retail * r.value + 5000) \div 10000
    BY <2>1, <2>2 DEF EstimatedFee, ApplyBasisPoints
  <2>4. ~(fee > retail)
    BY <2>1, <2>2
  <2>5. Commission(r, retail) = fee
    BY <2>3, <2>4 DEF Commission
  <2>. QED
    BY <2>1, <2>2, <2>5
<1>. QED
  BY <1>2, <1>3

(***************************************************************************)
(* Rules, day and offer keep to their types: nothing but the day moves.    *)
(***************************************************************************)
THEOREM PricingInvariant == PricingSpec => []PricingInv
  BY PricingStart, PricingStep, PTL DEF PricingSpec

(***************************************************************************)
(* For every price, cost, rate and table of rules: fees round half up, the *)
(* figure of the settlement is one that the shop may quote, which is all   *)
(* that holds of the two, and the margin has the sign of the profit        *)
(* (pricing.ts, commission_service.py).                                    *)
(***************************************************************************)
THEOREM MoneyOfOffersAddsUp == PricingSpec => []MoneyAddsUp
<1>1. PricingInv => MoneyAddsUp
  BY FeesRound, SettlementQuoted, MarginSign DEF MoneyAddsUp
<1>. QED
  BY PricingInvariant, <1>1, PTL

-------------------------------------------------------------------------------
(***************************************************************************)
(* The seller's desk.                                                      *)
(***************************************************************************)

Asked   == [search : Searches, page : Int]
Fetches == Seq([for : Asked, knew : SUBSET listed])
Dialogs == [product : Imports \cup {NoProduct}, price : Prices \cup {NoPrice}]

PreviewStates ==
    [pc : {"idle", "pause"}, shows : Dialogs, error : BOOLEAN] \cup
    [pc : {"idle", "pause", "asking"}, shows : Dialogs, error : BOOLEAN, for : Dialogs]

SubmitStates ==
    {AtRest} \cup [pc : {"sent", "created", "existing", "refused"}, product : Imports]

BoardStates ==
    [pc : {"idle", "frozen"}, shows : FulfilmentStatus, told : {"nothing"}] \cup
    [pc : {"idle"}, shows : FulfilmentStatus, told : {"ok", "refused"}, click : Nat] \cup
    [pc : {"sent", "ok", "refused"}, shows : FulfilmentStatus, told : {"nothing"},
     action : FulfilmentActions, key : FulfilmentActions \X Nat, click : Nat]

\* The last request asks for the search that was typed last, unless a pause is
\* still to end in another request.
LastAsks ==
    ~pause /\ ~overtaken /\ fetching # <<>> =>
        fetching[Len(fetching)].for.search = filters.search

BrowseInv ==
    /\ filters \in Asked /\ shown \in Asked
    /\ pause \in BOOLEAN /\ loading \in BOOLEAN /\ overtaken \in BOOLEAN
    /\ fetching \in Fetches
    /\ marked \subseteq listed
    /\ LastAsks
    /\ ListIsOfFilters

\* What is asked for is what the dialog shows, and it has a price.
PreviewAsks ==
    /\ preview.pc # "idle" => dialog.price # NoPrice
    /\ preview.pc = "asking" => preview.for = dialog

ImportInv ==
    /\ dialog \in Dialogs /\ preview \in PreviewStates
    /\ submitting \in SubmitStates
    /\ submitting.pc = "created" => submitting.product \in listed
    /\ PreviewAsks
    /\ FiguresAreOfForm

\* The key and the click of a request are those of no other, and its key is not
\* on record before its click is.
ClicksDiffer ==
    \A w, v \in Workers :
        board[w].pc = "sent" /\ board[v].pc = "sent" /\ board[w].click = board[v].click => w = v

ClickRecorded(b) ==
    /\ b.pc \in {"sent", "ok", "refused"} => b.click = b.key[2] + 1 /\ b.click <= clicks
    /\ b.pc = "sent" => b.click \notin applied
    /\ b.pc = "ok" => b.click \in applied
    /\ b.pc = "idle" /\ b.told = "ok" => b.click \in applied

BoardInv ==
    /\ boardTask \in FulfilmentStatus
    /\ eventKeys \subseteq FulfilmentActions \X Nat
    /\ clicks \in Nat
    /\ applied \subseteq Nat /\ \A c \in applied : c <= clicks
    /\ board \in [Workers -> BoardStates]
    /\ \A k \in eventKeys : k[2] + 1 \in applied
    /\ ClicksDiffer
    /\ \A w \in Workers : ClickRecorded(board[w])

DeskInv == BrowseInv /\ ImportInv /\ BoardInv

LEMMA DeskStart == DeskInit => DeskInv
<1>. SUFFICES ASSUME DeskInit PROVE DeskInv
  OBVIOUS
<1>1. BrowseInv
  <2>1. PICK s \in Searches : filters = [search |-> s, page |-> 1]
    BY DEF DeskInit
  <2>2. filters \in Asked
    BY <2>1 DEF Asked
  <2>3. fetching \in Fetches
    BY DEF DeskInit, Fetches
  <2>. QED
    BY <2>2, <2>3 DEF DeskInit, BrowseInv, LastAsks, ListIsOfFilters
<1>2. ImportInv
  BY DEF DeskInit, ImportInv, NoFigures, NoPreview, AtRest, Dialogs, PreviewStates, SubmitStates,
         PreviewAsks, FiguresAreOfForm
<1>3. BoardInv
  BY DEF DeskInit, BoardInv, BoardStates, FulfilmentStatus, ClicksDiffer, ClickRecorded
<1>. QED
  BY <1>1, <1>2, <1>3 DEF DeskInv

\* One element taken out of a sequence.
LEMMA TakenOut ==
    ASSUME NEW S, NEW s \in Seq(S), NEW i \in 1 .. Len(s)
    PROVE  LET rest == SubSeq(s, 1, i - 1) \o SubSeq(s, i + 1, Len(s)) IN
           /\ rest \in Seq(S)
           /\ Len(rest) = Len(s) - 1
           /\ i = 1 /\ rest # <<>> => rest[Len(rest)] = s[Len(s)]
<1>1. /\ Len(s) \in Nat /\ \A j \in 1 .. Len(s) : s[j] \in S
  BY ElementOfSeq, LenProperties
<1>. DEFINE front == SubSeq(s, 1, i - 1)
            back == SubSeq(s, i + 1, Len(s))
<1>2. /\ front \in Seq(S) /\ Len(front) = i - 1
  BY <1>1, SubSeqProperties, 1 \in Int, i - 1 \in Int
<1>3. /\ back \in Seq(S) /\ Len(back) = Len(s) - i
      /\ \A j \in 1 .. Len(s) - i : back[j] = s[i + j]
  <2>1. /\ back \in Seq(S) /\ Len(back) = IF i + 1 <= Len(s) THEN Len(s) - (i + 1) + 1 ELSE 0
        /\ \A j \in 1 .. Len(s) - (i + 1) + 1 : back[j] = s[i + 1 + j - 1]
    BY <1>1, SubSeqProperties
  <2>. HIDE DEF back
  <2>. QED
    BY <1>1, <2>1
<1>. HIDE DEF front, back
<1>4. /\ front \o back \in Seq(S) /\ Len(front \o back) = Len(front) + Len(back)
      /\ \A j \in 1 .. Len(front) + Len(back) :
            (front \o back)[j] = IF j <= Len(front) THEN front[j] ELSE back[j - Len(front)]
  BY <1>2, <1>3, ConcatProperties
<1>5. Len(front \o back) = Len(s) - 1
  BY <1>1, <1>2, <1>3, <1>4
<1>6. ASSUME i = 1, front \o back # <<>>
      PROVE  (front \o back)[Len(front \o back)] = s[Len(s)]
  <2>1. Len(front \o back) # 0
    BY <1>4, <1>6, EmptySeq
  <2>2. Len(s) - 1 \in 1 .. Len(front) + Len(back)
    BY <1>1, <1>2, <1>3, <1>5, <2>1
  <2>3. (front \o back)[Len(s) - 1] = back[Len(s) - 1]
    BY <1>1, <1>2, <1>4, <1>6, <2>2
  <2>4. back[Len(s) - 1] = s[Len(s)]
    BY <1>1, <1>2, <1>3, <1>6, <2>2
  <2>. QED
    BY <1>5, <2>3, <2>4
<1>. QED
  BY <1>4, <1>5, <1>6 DEF front, back

LEMMA BrowseStep ==
    ASSUME BrowseInv, BrowseNext, UNCHANGED listed
    PROVE  BrowseInv'
<1>1. /\ filters \in Asked /\ shown \in Asked
      /\ pause \in BOOLEAN /\ loading \in BOOLEAN /\ overtaken \in BOOLEAN
      /\ fetching \in Fetches /\ marked \subseteq listed
      /\ LastAsks /\ ListIsOfFilters
      /\ Fetches' = Fetches
  BY DEF BrowseInv, Fetches
<1>2. CASE (TypeSearch \/ TurnPage) /\ UNCHANGED marked
  <2>1. PICK search \in Searches, page \in Int : Filtered(search, page)
    <3>1. CASE TypeSearch
      BY <3>1 DEF TypeSearch
    <3>2. CASE TurnPage
      <4>1. PICK p \in {filters.page - 1, filters.page + 1} : Filtered(filters.search, p)
        BY <3>2 DEF TurnPage
      <4>2. filters.search \in Searches /\ filters.page \in Int
        BY <1>1 DEF Asked
      <4>3. p \in Int
        BY <4>1, <4>2
      <4>. QED
        BY <4>1, <4>2, <4>3
    <3>. QED
      BY <1>2, <3>1, <3>2
  <2>2. /\ filters' \in Asked /\ pause' = TRUE
        /\ UNCHANGED <<loading, fetching, shown, overtaken>>
    BY <2>1 DEF Filtered, Asked
  <2>. QED
    BY <1>1, <1>2, <2>2 DEF BrowseInv, LastAsks, ListIsOfFilters
<1>3. CASE FetchCatalog
  <2>. DEFINE fetch == [for |-> filters, knew |-> listed]
              S == [for : Asked, knew : SUBSET listed]
  <2>1. /\ pause' = FALSE /\ loading' = TRUE /\ fetching' = Append(fetching, fetch)
        /\ UNCHANGED <<filters, shown, overtaken, marked>>
    BY <1>3 DEF FetchCatalog
  <2>2. fetch \in S
    BY <1>1
  <2>3. fetching \in Seq(S)
    BY <1>1 DEF Fetches
  <2>4. fetch.for.search = filters.search
    OBVIOUS
  <2>. HIDE DEF fetch, S
  <2>5. /\ fetching' \in Seq(S) /\ Len(fetching') = Len(fetching) + 1
        /\ fetching'[Len(fetching) + 1] = fetch
    BY <2>1, <2>2, <2>3, AppendProperties
  <2>6. fetching' # <<>>
    BY <2>3, <2>5, LenProperties, EmptySeq
  <2>7. fetching' \in Fetches
    BY <2>5 DEF Fetches, S
  <2>8. LastAsks'
    BY <2>1, <2>4, <2>5 DEF LastAsks
  <2>9. ListIsOfFilters'
    BY <1>1, <2>1, <2>6 DEF ListIsOfFilters
  <2>. QED
    BY <1>1, <2>1, <2>7, <2>8, <2>9 DEF BrowseInv
<1>4. ASSUME NEW i \in DOMAIN fetching, CatalogArrives(i) \/ CatalogFails(i)
      PROVE  BrowseInv'
  <2>. DEFINE S == [for : Asked, knew : SUBSET listed]
  <2>1. fetching \in Seq(S) /\ i \in 1 .. Len(fetching) /\ Len(fetching) \in Nat
    BY <1>1, <1>4, LenProperties DEF Fetches
  <2>2. fetching[i] \in S
    BY <2>1, ElementOfSeq
  <2>3. fetching' = SubSeq(fetching, 1, i - 1) \o SubSeq(fetching, i + 1, Len(fetching))
        /\ loading' = FALSE
    BY <1>4 DEF CatalogArrives, CatalogFails, Answers
  <2>. HIDE DEF S
  <2>4. /\ fetching' \in Seq(S) /\ Len(fetching') = Len(fetching) - 1
        /\ i = 1 /\ fetching' # <<>> =>
              fetching'[Len(fetching')] = fetching[Len(fetching)]
    BY <2>1, <2>3, TakenOut
  <2>5. fetching' \in Fetches /\ fetching[i].for \in Asked /\ fetching[i].knew \subseteq listed
        /\ fetching # <<>>
    BY <1>1, <2>1, <2>2, <2>4, EmptySeq DEF S, Fetches
  <2>6. CASE CatalogFails(i)
    BY <1>1, <2>3, <2>5, <2>6 DEF CatalogFails, BrowseInv, LastAsks, ListIsOfFilters
  <2>7. CASE CatalogArrives(i)
    <3>1. /\ shown' = fetching[i].for
          /\ filters' = [filters EXCEPT !.page = fetching[i].for.page]
          /\ pause' = (pause \/ fetching[i].for.page # filters.page)
          /\ overtaken' = (overtaken \/ i > 1)
          /\ marked' = fetching[i].knew \/ marked' = listed
      BY <2>7 DEF CatalogArrives
    <3>2. /\ filters' \in Asked /\ filters'.page = shown'.page /\ filters'.search = filters.search
          /\ shown' \in Asked
      BY <1>1, <2>5, <3>1 DEF Asked
    <3>3. pause' \in BOOLEAN /\ overtaken' \in BOOLEAN /\ loading' \in BOOLEAN
      BY <2>3, <3>1
    <3>4. /\ ~pause' => ~pause
          /\ ~overtaken' => ~overtaken /\ i = 1
      <4>1. ~(i > 1) => i = 1
        BY <2>1
      <4>. QED
        BY <3>1, <4>1, Zenon
    <3>5. LastAsks'
      BY <1>1, <2>4, <2>5, <3>2, <3>4 DEF LastAsks
    <3>6. ASSUME ~pause', fetching' = <<>>, ~overtaken' PROVE shown'.search = filters'.search
      <4>1. Len(fetching) = 1
        <5>1. Len(fetching') = 0
          <6>1. Len(<<>>) = 0
            BY EmptySeq
          <6>. QED
            BY <3>6, <6>1, Zenon
        <5>. QED
          BY <2>1, <2>4, <5>1
      <4>2. fetching[i] = fetching[Len(fetching)]
        BY <3>4, <3>6, <4>1
      <4>. QED
        BY <1>1, <2>5, <3>1, <3>2, <3>4, <3>6, <4>2 DEF LastAsks
    <3>7. ListIsOfFilters'
      BY <1>1, <2>5, <3>1, <3>2, <3>6 DEF ListIsOfFilters
    <3>. QED
      BY <1>1, <2>5, <3>1, <3>2, <3>3, <3>5, <3>7 DEF BrowseInv
  <2>. QED
    BY <1>4, <2>6, <2>7
<1>. QED
  BY <1>2, <1>3, <1>4 DEF BrowseNext, ListAnswers

\* The import dialog.
LEMMA RetypedKept ==
    ASSUME ImportInv, NEW item \in Imports \cup {NoProduct}, NEW price \in Prices \cup {NoPrice},
           Retyped(item, price)
    PROVE  ImportInv'
<1>1. /\ dialog \in Dialogs /\ preview \in PreviewStates /\ submitting \in SubmitStates
      /\ dialog' = [product |-> item, price |-> price]
      /\ UNCHANGED <<submitting, listed, marked>>
  BY DEF ImportInv, Retyped
<1>2. dialog' \in Dialogs /\ NoFigures \in Dialogs
  BY <1>1 DEF Dialogs, NoFigures
<1>3. CASE item = NoProduct
  <2>1. preview' = [preview EXCEPT !.pc = "idle"]
    BY <1>3 DEF Retyped, Repriced
  <2>2. preview' \in PreviewStates /\ preview'.pc = "idle"
    BY <1>1, <2>1 DEF PreviewStates
  <2>. QED
    BY <1>1, <1>2, <1>3, <2>2 DEF ImportInv, PreviewAsks, FiguresAreOfForm
<1>4. CASE item # NoProduct /\ price = NoPrice
  <2>1. preview' = NoPreview
    BY <1>4 DEF Retyped, Repriced
  <2>2. preview' \in PreviewStates /\ preview'.pc = "idle" /\ preview'.shows = NoFigures
    BY <1>2, <2>1 DEF PreviewStates, NoPreview
  <2>. QED
    BY <1>1, <1>2, <1>4, <2>2 DEF ImportInv, PreviewAsks, FiguresAreOfForm
<1>5. CASE item # NoProduct /\ price # NoPrice
  <2>1. preview' = [preview EXCEPT !.pc = "pause"]
    BY <1>5 DEF Retyped, Repriced
  <2>2. preview' \in PreviewStates /\ preview'.pc = "pause"
    BY <1>1, <2>1 DEF PreviewStates
  <2>. QED
    BY <1>1, <1>2, <1>5, <2>2 DEF ImportInv, PreviewAsks, FiguresAreOfForm
<1>. QED
  BY <1>3, <1>4, <1>5

LEMMA DialogStep ==
    ASSUME ImportInv, BrowseInv, ImportNext
    PROVE  ImportInv' /\ marked' \subseteq listed' /\ listed \subseteq listed'
<1>1. /\ dialog \in Dialogs /\ preview \in PreviewStates /\ submitting \in SubmitStates
      /\ marked \subseteq listed
      /\ dialog.product \in Imports \cup {NoProduct} /\ dialog.price \in Prices \cup {NoPrice}
  BY DEF ImportInv, BrowseInv, Dialogs
<1>2. ASSUME NEW item \in Imports \cup {NoProduct}, NEW price \in Prices \cup {NoPrice},
             Retyped(item, price)
      PROVE  ImportInv' /\ marked' \subseteq listed' /\ listed \subseteq listed'
  <2>1. marked' = marked /\ listed' = listed
    BY <1>2 DEF Retyped
  <2>. QED
    BY <1>1, <1>2, <2>1, RetypedKept
<1>3. CASE OpenImport
  <2>1. PICK p \in Imports : Retyped(p, IF p \in marked THEN dialog.price ELSE NoPrice)
    BY <1>3 DEF OpenImport
  <2>. QED
    BY <1>1, <1>2, <2>1
<1>4. CASE CloseImport
  BY <1>1, <1>2, <1>4 DEF CloseImport
<1>5. CASE TypePrice
  <2>1. PICK p \in Prices \cup {NoPrice} : Retyped(dialog.product, p)
    BY <1>5 DEF TypePrice
  <2>. QED
    BY <1>1, <1>2, <2>1
<1>6. CASE AskPreview
  <2>1. /\ preview' = [pc |-> "asking", shows |-> preview.shows, error |-> preview.error, for |-> dialog]
        /\ preview.pc = "pause"
        /\ UNCHANGED <<dialog, submitting, listed, marked>>
    BY <1>6 DEF AskPreview
  <2>2. preview' \in PreviewStates /\ preview'.pc = "asking" /\ preview'.for = dialog
    BY <1>1, <2>1 DEF PreviewStates
  <2>. QED
    BY <1>1, <2>1, <2>2 DEF ImportInv, PreviewAsks, FiguresAreOfForm
<1>7. CASE PreviewArrives
  <2>1. /\ preview' \in {[pc |-> "idle", shows |-> preview.for,   error |-> FALSE],
                         [pc |-> "idle", shows |-> NoFigures,     error |-> TRUE],
                         [pc |-> "idle", shows |-> preview.shows, error |-> TRUE]}
        /\ preview.pc = "asking"
        /\ UNCHANGED <<dialog, submitting, listed, marked>>
    BY <1>7 DEF PreviewArrives
  <2>2. preview.for = dialog /\ dialog.price # NoPrice
    BY <2>1 DEF ImportInv, PreviewAsks
  <2>3. preview.shows \in Dialogs /\ NoFigures \in Dialogs
    BY <1>1 DEF PreviewStates, Dialogs, NoFigures
  <2>4. preview' \in PreviewStates /\ preview'.pc = "idle"
        /\ (preview'.error \/ preview'.shows = dialog)
    <3>1. CASE preview' = [pc |-> "idle", shows |-> preview.for, error |-> FALSE]
      BY <1>1, <2>2, <3>1 DEF PreviewStates
    <3>2. ASSUME NEW figures \in Dialogs,
                 preview' = [pc |-> "idle", shows |-> figures, error |-> TRUE]
          PROVE  preview' \in PreviewStates /\ preview'.pc = "idle" /\ preview'.error
      BY <3>2 DEF PreviewStates
    <3>. QED
      BY <2>1, <2>3, <3>1, <3>2
  <2>. QED
    BY <1>1, <2>1, <2>2, <2>4 DEF ImportInv, PreviewAsks, FiguresAreOfForm
<1>8. CASE SubmitImport \/ ImportLands \/ ImportAnswered
  <2>1. UNCHANGED <<dialog, preview>>
    BY <1>8 DEF SubmitImport, ImportLands, ImportAnswered
  <2>2. /\ submitting' \in SubmitStates
        /\ submitting'.pc = "created" => submitting'.product \in listed'
        /\ marked' \subseteq listed' /\ listed \subseteq listed'
    <3>1. CASE SubmitImport
      BY <1>1, <3>1 DEF SubmitImport, SubmitStates
    <3>2. CASE ImportLands
      <4>1. submitting.pc = "sent" /\ submitting.product \in Imports /\ marked' = marked
        BY <1>1, <3>2 DEF ImportLands, SubmitStates, AtRest
      <4>2. CASE /\ listed' = listed \cup {submitting.product}
                 /\ submitting' = [submitting EXCEPT !.pc = IF submitting.product \in listed
                                                            THEN "existing" ELSE "created"]
        BY <1>1, <4>1, <4>2 DEF SubmitStates, AtRest
      <4>3. CASE submitting' = [submitting EXCEPT !.pc = "refused"] /\ UNCHANGED listed
        BY <1>1, <4>1, <4>3 DEF SubmitStates, AtRest
      <4>. QED
        BY <3>2, <4>2, <4>3 DEF ImportLands
    <3>3. CASE ImportAnswered
      BY <1>1, <3>3 DEF ImportAnswered, SubmitStates, AtRest, ImportInv
    <3>. QED
      BY <1>8, <3>1, <3>2, <3>3
  <2>. QED
    BY <1>1, <2>1, <2>2 DEF ImportInv, PreviewAsks, FiguresAreOfForm
<1>. QED
  BY <1>3, <1>4, <1>5, <1>6, <1>7, <1>8 DEF ImportNext

\* What the page has fetched stays true when more is listed.
LEMMA BrowseStays ==
    ASSUME BrowseInv, UNCHANGED browseVars, marked' \subseteq listed', listed \subseteq listed'
    PROVE  BrowseInv'
<1>1. [for : Asked, knew : SUBSET listed] \subseteq [for : Asked, knew : SUBSET listed']
  OBVIOUS
<1>2. fetching \in Seq([for : Asked, knew : SUBSET listed'])
  BY <1>1, SeqMonotonic DEF BrowseInv, Fetches
<1>3. fetching' \in Fetches'
  BY <1>2 DEF Fetches, browseVars
<1>. QED
  BY <1>3 DEF BrowseInv, browseVars, LastAsks, ListIsOfFilters

-------------------------------------------------------------------------------
\* The board.
LEMMA BoardStep ==
    ASSUME BoardInv, NEW w \in Workers,
           Click(w) \/ BoardRequestLands(w) \/ BoardAnswered(w) \/ BoardFreezes(w) \/ ReloadBoard(w)
    PROVE  BoardInv'
<1>1. /\ boardTask \in FulfilmentStatus /\ eventKeys \subseteq FulfilmentActions \X Nat
      /\ clicks \in Nat /\ applied \subseteq Nat /\ \A c \in applied : c <= clicks
      /\ board \in [Workers -> BoardStates] /\ board[w] \in BoardStates
      /\ \A k \in eventKeys : k[2] + 1 \in applied
      /\ ClickRecorded(board[w])
  BY DEF BoardInv
<1>2. ASSUME UNCHANGED <<boardTask, eventKeys, clicks, applied>>, NEW b \in BoardStates,
             board' = [board EXCEPT ![w] = b], b.pc # "sent", ClickRecorded(b)
      PROVE  BoardInv'
  <2>1. /\ board' \in [Workers -> BoardStates] /\ board'[w] = b
        /\ \A v \in Workers \ {w} : board'[v] = board[v]
    BY <1>1, <1>2
  <2>2. ClicksDiffer'
    BY <1>2, <2>1 DEF BoardInv, ClicksDiffer
  <2>3. \A v \in Workers : ClickRecorded(board[v])'
    BY <1>2, <2>1 DEF BoardInv, ClickRecorded
  <2>. QED
    BY <1>1, <1>2, <2>1, <2>2, <2>3 DEF BoardInv
<1>3. CASE BoardFreezes(w) \/ ReloadBoard(w)
  <2>1. PICK pc \in {"idle", "frozen"}, status \in FulfilmentStatus :
          board' = [board EXCEPT ![w] = [pc |-> pc, shows |-> status, told |-> "nothing"]]
    BY <1>1, <1>3 DEF BoardFreezes, ReloadBoard, BoardStates
  <2>. DEFINE b == [pc |-> pc, shows |-> status, told |-> "nothing"]
  <2>2. b \in BoardStates /\ b.pc # "sent" /\ ClickRecorded(b)
    BY DEF BoardStates, ClickRecorded
  <2>3. UNCHANGED <<boardTask, eventKeys, clicks, applied>>
    BY <1>3 DEF BoardFreezes, ReloadBoard
  <2>. QED
    BY <1>2, <2>1, <2>2, <2>3
<1>4. CASE BoardAnswered(w)
  <2>1. /\ board[w].pc \in {"ok", "refused"} /\ board[w].click \in Nat
        /\ board[w].action \in FulfilmentActions /\ board[w].shows \in FulfilmentStatus
    BY <1>1, <1>4 DEF BoardAnswered, BoardStates
  <2>2. PICK status \in FulfilmentStatus :
          board' = [board EXCEPT ![w] =
              [pc |-> "idle", told |-> board[w].pc, click |-> board[w].click, shows |-> status]]
    <3>1. ACTION_TARGET[board[w].action] \in FulfilmentStatus
      BY <2>1, ActionTargets
    <3>. QED
      BY <1>4, <2>1, <3>1 DEF BoardAnswered
  <2>. DEFINE b == [pc |-> "idle", told |-> board[w].pc, click |-> board[w].click, shows |-> status]
  <2>3. b \in BoardStates /\ b.pc # "sent"
    BY <2>1 DEF BoardStates
  <2>4. ClickRecorded(b)
    BY <1>1, <2>1 DEF ClickRecorded
  <2>5. UNCHANGED <<boardTask, eventKeys, clicks, applied>>
    BY <1>4 DEF BoardAnswered
  <2>. QED
    BY <1>2, <2>2, <2>3, <2>4, <2>5
<1>5. CASE Click(w)
  <2>1. PICK action \in FulfilmentActions :
          board' = [board EXCEPT ![w] =
              [pc |-> "sent", shows |-> board[w].shows, told |-> "nothing",
               action |-> action, key |-> <<action, clicks>>, click |-> clicks + 1]]
    BY <1>5 DEF Click, ButtonsOf, EventKey
  <2>2. clicks' = clicks + 1 /\ UNCHANGED <<boardTask, eventKeys, applied>>
    BY <1>5 DEF Click
  <2>3. board[w].shows \in FulfilmentStatus
    BY <1>1 DEF BoardStates
  <2>4. PICK b : b = [pc |-> "sent", shows |-> board[w].shows, told |-> "nothing",
               action |-> action, key |-> <<action, clicks>>, click |-> clicks + 1]
    OBVIOUS
  <2>5. b \in BoardStates
    BY <1>1, <2>3, <2>4 DEF BoardStates
  <2>6. b.pc = "sent" /\ b.key[2] = clicks /\ b.click = clicks + 1
    BY <2>4
  <2>7. /\ board' \in [Workers -> BoardStates] /\ board'[w] = b
        /\ \A v \in Workers \ {w} : board'[v] = board[v]
    BY <1>1, <2>1, <2>4, <2>5
  <2>8. \A v \in Workers : board[v].pc = "sent" => board[v].click <= clicks /\ board[v].click \in Nat
    BY DEF BoardInv, ClickRecorded, BoardStates
  <2>9. ClicksDiffer'
    BY <1>1, <2>6, <2>7, <2>8 DEF BoardInv, ClicksDiffer
  <2>10. ASSUME NEW v \in Workers PROVE ClickRecorded(board[v])'
    <3>1. CASE v = w
      <4>1. clicks + 1 \notin applied
        BY <1>1
      <4>. QED
        BY <1>1, <2>2, <2>6, <2>7, <3>1, <4>1 DEF ClickRecorded
    <3>2. CASE v # w
      <4>1. board[v] \in BoardStates /\ ClickRecorded(board[v]) /\ board'[v] = board[v]
        BY <2>7, <3>2 DEF BoardInv
      <4>2. board[v].pc \in {"sent", "ok", "refused"} => board[v].click \in Nat
        BY <4>1 DEF BoardStates
      <4>. QED
        BY <1>1, <2>2, <4>1, <4>2 DEF ClickRecorded
    <3>. QED
      BY <3>1, <3>2
  <2>11. clicks' \in Nat /\ \A c \in applied' : c <= clicks'
    BY <1>1, <2>2
  <2>. QED
    BY <1>1, <2>2, <2>7, <2>9, <2>10, <2>11 DEF BoardInv
<1>6. CASE BoardRequestLands(w)
  <2>1. /\ board[w].pc = "sent" /\ board[w].click \in Nat /\ board[w].action \in FulfilmentActions
        /\ board[w].key \in FulfilmentActions \X Nat /\ board[w].key[2] + 1 = board[w].click
        /\ board[w].click <= clicks /\ board[w].click \notin applied
    BY <1>1, <1>6 DEF BoardRequestLands, BoardStates, ClickRecorded
  <2>2. board[w].key \notin eventKeys
    BY <1>1, <2>1
  <2>3. CASE /\ UNCHANGED <<boardTask, eventKeys, clicks, applied>>
             /\ board' = [board EXCEPT ![w] = [board[w] EXCEPT !.pc = "refused"]]
    <3>1. PICK b : b = [board[w] EXCEPT !.pc = "refused"]
      OBVIOUS
    <3>2. b \in BoardStates /\ b.pc = "refused" /\ b.click = board[w].click /\ b.key = board[w].key
      BY <1>1, <2>1, <3>1 DEF BoardStates
    <3>3. ClickRecorded(b)
      BY <2>1, <3>2 DEF ClickRecorded
    <3>. QED
      BY <1>2, <2>3, <3>1, <3>2, <3>3
  <2>4. CASE /\ boardTask' = ACTION_TARGET[board[w].action] /\ clicks' = clicks
             /\ eventKeys' = eventKeys \cup {board[w].key}
             /\ applied' = applied \cup {board[w].click}
             /\ board' = [board EXCEPT ![w] = [board[w] EXCEPT !.pc = "ok"]]
    <3>1. PICK b : b = [board[w] EXCEPT !.pc = "ok"]
      OBVIOUS
    <3>2. b \in BoardStates /\ b.pc = "ok" /\ b.click = board[w].click /\ b.key = board[w].key
      BY <1>1, <2>1, <3>1 DEF BoardStates
    <3>3. /\ board' \in [Workers -> BoardStates] /\ board'[w] = b
          /\ \A v \in Workers \ {w} : board'[v] = board[v]
      BY <1>1, <2>4, <3>1, <3>2
    <3>4. boardTask' \in FulfilmentStatus
      BY <2>1, <2>4, ActionTargets
    <3>5. ClicksDiffer'
      BY <3>2, <3>3 DEF BoardInv, ClicksDiffer
    <3>6. ASSUME NEW v \in Workers PROVE ClickRecorded(board[v])'
      <4>1. CASE v = w
        BY <2>1, <2>4, <3>2, <3>3, <4>1 DEF ClickRecorded
      <4>2. CASE v # w
        <5>1. ClickRecorded(board[v]) /\ board'[v] = board[v]
          BY <3>3, <4>2 DEF BoardInv
        <5>2. board[v].pc = "sent" => board[v].click # board[w].click
          BY <2>1, <4>2 DEF BoardInv, ClicksDiffer
        <5>3. applied' = applied \cup {board[w].click} /\ clicks' = clicks
          BY <2>4
        <5>4. PICK other : other = board[v] /\ other = board'[v]
          BY <5>1
        <5>5. /\ other.pc \in {"sent", "ok", "refused"} => other.click = other.key[2] + 1 /\ other.click <= clicks'
              /\ other.pc = "sent" => other.click \notin applied'
              /\ other.pc = "ok" => other.click \in applied'
              /\ other.pc = "idle" /\ other.told = "ok" => other.click \in applied'
          BY <5>1, <5>2, <5>3, <5>4 DEF ClickRecorded
        <5>. QED
          BY <5>4, <5>5 DEF ClickRecorded
      <4>. QED
        BY <4>1, <4>2
    <3>7. /\ eventKeys' \subseteq FulfilmentActions \X Nat /\ applied' \subseteq Nat
          /\ \A c \in applied' : c <= clicks'
          /\ \A k \in eventKeys' : k[2] + 1 \in applied'
      BY <1>1, <2>1, <2>4
    <3>. QED
      BY <1>1, <2>4, <3>3, <3>4, <3>5, <3>6, <3>7 DEF BoardInv
  <2>. QED
    BY <1>6, <2>2, <2>3, <2>4 DEF BoardRequestLands, Replies
<1>. QED
  BY <1>3, <1>4, <1>5, <1>6

LEMMA DeskStep == DeskInv /\ [DeskNext]_deskVars => DeskInv'
<1>. SUFFICES ASSUME DeskInv, [DeskNext]_deskVars PROVE DeskInv'
  OBVIOUS
<1>1. ASSUME UNCHANGED boardVars PROVE BoardInv'
  BY <1>1 DEF boardVars, DeskInv, BoardInv, ClicksDiffer, ClickRecorded
<1>2. ASSUME UNCHANGED importVars PROVE ImportInv'
  BY <1>2 DEF importVars, DeskInv, ImportInv, PreviewAsks, FiguresAreOfForm
<1>3. CASE BrowseNext /\ UNCHANGED <<importVars, boardVars>>
  <2>1. listed' = listed
    BY <1>3 DEF importVars
  <2>. QED
    BY <1>1, <1>2, <1>3, <2>1, BrowseStep DEF DeskInv
<1>4. CASE ImportNext /\ UNCHANGED <<browseVars, boardVars>>
  BY <1>1, <1>4, DialogStep, BrowseStays DEF DeskInv
<1>5. CASE BoardNext /\ UNCHANGED <<browseVars, importVars, marked>>
  <2>1. listed' = listed
    BY <1>5 DEF importVars
  <2>2. BrowseInv'
    BY <1>5, <2>1, BrowseStays DEF DeskInv, BrowseInv
  <2>3. BoardInv'
    BY <1>5, BoardStep DEF DeskInv, BoardNext
  <2>. QED
    BY <1>2, <1>5, <2>2, <2>3 DEF DeskInv
<1>6. CASE UNCHANGED deskVars
  <2>1. UNCHANGED <<browseVars, importVars, boardVars>> /\ marked' = marked /\ listed' = listed
    BY <1>6 DEF deskVars, importVars
  <2>2. BrowseInv'
    BY <2>1, BrowseStays DEF DeskInv, BrowseInv
  <2>. QED
    BY <1>1, <1>2, <2>1, <2>2 DEF DeskInv
<1>7. ListAnswers => BrowseNext
  BY DEF BrowseNext
<1>. QED
  BY <1>3, <1>4, <1>5, <1>6, <1>7 DEF DeskNext

(***************************************************************************)
(* The inductive invariant of the desk: the last request asks for what was *)
(* typed last, figures asked for are those of the dialog, and the keys and *)
(* clicks of requests under way are not on record                          *)
(* (supplier-catalog-view.tsx, supplier-fulfilment-board.tsx).             *)
(***************************************************************************)
THEOREM DeskInvariant == DeskSpec => []DeskInv
  BY DeskStart, DeskStep, PTL DEF DeskSpec

(***************************************************************************)
(* The list is of the filters, the figures are of the dialog, and a person *)
(* who is told "done" has that very click on record, in whatever order the *)
(* answers come.                                                           *)
(***************************************************************************)
THEOREM DeskTellsTheTruth == DeskSpec => []DeskSound
<1>1. DeskInv => DeskSound
  BY DEF DeskInv, BrowseInv, ImportInv, BoardInv, ClickRecorded, DeskSound, ToldDoneWasDone
<1>. QED
  BY DeskInvariant, <1>1, PTL

-------------------------------------------------------------------------------
(***************************************************************************)
(* The parts together: they share no state.                                *)
(***************************************************************************)

DropshippingInv == FulfilmentInv /\ ReturnsInv /\ CatalogInv /\ PricingInv /\ DeskInv

LEMMA DropshippingStart == Init => DropshippingInv
  BY FulfilmentStart, ReturnsStart, CatalogStart, PricingStart, DeskStart DEF Init, DropshippingInv

LEMMA DropshippingStep == DropshippingInv /\ [Next]_vars => DropshippingInv'
<1>. SUFFICES ASSUME DropshippingInv, [Next]_vars PROVE DropshippingInv'
  OBVIOUS
<1>1. /\ [FulfilmentNext]_fulfilmentVars /\ [ReturnsNext]_returnsVars
      /\ [CatalogNext]_catalogVars /\ [PricingNext]_pricingVars /\ [DeskNext]_deskVars
  BY DEF Next, vars
<1>. QED
  BY <1>1, FulfilmentStep, ReturnsStep, CatalogStep, PricingStep, DeskStep DEF DropshippingInv

(***************************************************************************)
(* Every part keeps its inductive invariant when the parts run together.   *)
(***************************************************************************)
THEOREM DropshippingInvariant == Spec => []DropshippingInv
  BY DropshippingStart, DropshippingStep, PTL DEF Spec

(***************************************************************************)
(* Every variable of dropshipping has its type, and every estimate fits    *)
(* the columns it is stored in.                                            *)
(***************************************************************************)
THEOREM DropshippingTyped == Spec => []DropshippingTypeOK
<1>1. FulfilmentInv => FulfilmentTypeOK
  BY DEF FulfilmentInv, FulfilmentTyped
<1>2. ReturnsInv => ReturnsTypeOK
  BY DEF ReturnsInv, ReturnsTyped, ReturnsTypeOK, Asks, Decisions, IdleRequest, RefundStatus
<1>3. CatalogInv => CatalogTypeOK
  BY DEF CatalogInv, CatalogTyped
<1>4. DropshippingInv => DropshippingTypeOK
  BY <1>1, <1>2, <1>3, PricingTyped DEF DropshippingInv, DropshippingTypeOK
<1>. QED
  BY DropshippingInvariant, <1>4, PTL
===============================================================================
