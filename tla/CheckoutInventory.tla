--------------------------- MODULE CheckoutInventory ---------------------------
(***************************************************************************)
(* How carts become orders and how stock follows them.  Checkouts of       *)
(* several buyers, cancellations of their orders, cart edits and listing   *)
(* edits share the product, cart and order rows of one Postgres database.  *)
(*                                                                         *)
(* A transaction is split into its statements.  A row it has updated stays *)
(* locked until it ends, and its writes are seen by others when it commits *)
(* only, so the rows a transaction holds are read off its progress: the    *)
(* products in "done", the order it cancels and the cart it has claimed.   *)
(***************************************************************************)
EXTENDS LifecycleRules, Naturals, FiniteSets, FiniteSetsExt

CONSTANTS
    Products,       \* product ids, ordered
    SellerOf,       \* the seller of each product
    Buyers,
    Checkouts,      \* bound: checkout requests
    BuyerOf,        \* the buyer who sends each of them
    Cancels,        \* bound: cancel requests
    InitialStock,   \* units of each product at the start
    InitialCart,    \* the cart of each buyer at the start
    MaxQuantity,    \* bound: units of one cart line
    MaxEdits,       \* bound: cart edits
    MaxListingEdits \* bound: listing edits

ASSUME InventoryAssumption ==
    /\ Products \subseteq Nat \ {0} /\ IsFiniteSet(Products)
    /\ BuyerOf \in [Checkouts -> Buyers]
    /\ InitialStock \in [Products -> Nat]
    /\ InitialCart \in [Buyers -> [Products -> 0 .. MaxQuantity]]
    /\ MaxQuantity \in Nat /\ MaxEdits \in Nat /\ MaxListingEdits \in Nat
    /\ Checkouts \cap Cancels = {} /\ IsFiniteSet(Checkouts)

Sellers  == {SellerOf[p] : p \in Products}

\* The order a checkout creates at a seller.
OrderIds == Checkouts \X Sellers

\* Runs of the transaction: the first one and two retries.
MaxRuns == 3

VARIABLES
    stock,      \* Product.quantity, committed
    status,     \* Product.status: ACTIVE, or any status that cannot be sold
    cart,       \* quantity of each buyer's line for each product, 0 for no line
    orders,     \* Order.status, "NONE" before the order exists
    co,         \* the checkout requests
    cx,         \* the cancel requests
    form,       \* the quantity a seller's open edit form was filled with, if any
    editsLeft,
    listingEditsLeft

vars == <<stock, status, cart, orders, co, cx, form, editsLeft, listingEditsLeft>>
listingVars == <<status, form, listingEditsLeft>>

NoOrder   == <<>>
NoProduct == 0
ListingStatus == {"ACTIVE", "INACTIVE"}

\* lines  the quantities the request has read from the cart, 0 for no line
\* done   the product rows the open transaction has decremented
\* runs   the runs of the transaction so far
CheckoutPcs == {"idle", "read", "claim", "reserve", "ended"}
CancelPcs   == {"idle", "claim", "restore", "ended"}

Ids(lines)     == {p \in Products : lines[p] > 0}
NoLines        == [p \in Products |-> 0]
LinesOf(o)     == {p \in Ids(co[o[1]].lines) : SellerOf[p] = o[2]}
UnitsOf(o, p)  == IF p \in LinesOf(o) THEN co[o[1]].lines[p] ELSE 0

-------------------------------------------------------------------------------
(***************************************************************************)
(* Row locks.                                                              *)
(***************************************************************************)

ProductHolders(p) ==
    {c \in Checkouts : co[c].pc = "reserve" /\ p \in co[c].done} \cup
    {n \in Cancels : cx[n].pc = "restore" /\ p \in cx[n].done}

CartHolders(b) == {c \in Checkouts : BuyerOf[c] = b /\ co[c].pc = "reserve"}

OrderHolders(o) == {n \in Cancels : cx[n].pc = "restore" /\ cx[n].order = o}

\* The cart lines of b that a checkout has claimed.
ClaimedLines(b) == UNION {Ids(co[c].lines) : c \in CartHolders(b)}

\* The first of the lines that p's seller sells.
FirstOf(ids, p) == Min({q \in ids : SellerOf[q] = SellerOf[p]})

\* Mutant of NextLine: without ORDER BY the rows of each cart come in an order of
\* their own.
NextLineUnsorted(c) ==
    LET left == Ids(co[c].lines) \ co[c].done
    IN  IF BuyerOf[c] = (CHOOSE b \in Buyers : TRUE) THEN Max(left) ELSE Min(left)

\* The lines are grouped by seller in the order in which the sellers first
\* appear among the sorted product ids, and sorted within a group.
NextLine(c) ==
    LET ids == Ids(co[c].lines)
    IN  CHOOSE p \in ids \ co[c].done :
            \A q \in ids \ co[c].done :
                \/ FirstOf(ids, p) < FirstOf(ids, q)
                \/ FirstOf(ids, p) = FirstOf(ids, q) /\ p <= q

ToReserve(c) == Ids(co[c].lines) \ co[c].done

-------------------------------------------------------------------------------
Init ==
    /\ stock = InitialStock
    /\ status = [p \in Products |-> "ACTIVE"]
    /\ cart = InitialCart
    /\ orders = [o \in OrderIds |-> "NONE"]
    /\ co = [c \in Checkouts |->
                [pc |-> "idle", lines |-> NoLines, done |-> {}, runs |-> 0]]
    /\ cx = [n \in Cancels |-> [pc |-> "idle", order |-> NoOrder, done |-> {},
                                next |-> NoProduct]]
    /\ form = [p \in Products |-> {}]
    /\ editsLeft = MaxEdits
    /\ listingEditsLeft = MaxListingEdits

(***************************************************************************)
(* checkoutCart.                                                           *)
(***************************************************************************)

\* The request ends; an open transaction is rolled back.
EndCheckout(c) == co' = [co EXCEPT ![c].pc = "ended", ![c].done = {}]

\* The cart is read; an empty one is refused.
ReadCart(c) ==
    /\ co[c].pc = "idle"
    /\ co' = [co EXCEPT ![c].lines = cart[BuyerOf[c]],
                        ![c].pc = IF Ids(cart[BuyerOf[c]]) = {} THEN "ended" ELSE "read"]
    /\ UNCHANGED <<stock, cart, orders, cx, listingVars, editsLeft>>

\* The listings are read, advisory: each is for sale in the quantity wanted.
ReadProducts(c) ==
    LET ids == Ids(co[c].lines) IN
    /\ co[c].pc = "read"
    /\ IF \A p \in ids : status[p] = "ACTIVE" /\ co[c].lines[p] <= stock[p]
       THEN co' = [co EXCEPT ![c].pc = "claim"]
       ELSE EndCheckout(c)
    /\ UNCHANGED <<stock, cart, orders, cx, listingVars, editsLeft>>

\* Mutant of ClaimCart: the rows that are left are taken without counting them.
ClaimCartUncounted(c) ==
    LET b == BuyerOf[c] IN
    /\ co[c].pc = "claim"
    /\ Ids(co[c].lines) \cap ClaimedLines(b) = {}
    /\ co' = [co EXCEPT ![c].pc = "reserve", ![c].runs = @ + 1]
    /\ UNCHANGED <<stock, cart, orders, cx, listingVars, editsLeft>>

\* The transaction starts by claiming the cart lines it has read, all of which
\* must still exist, and reads their quantities again under the claim.
ClaimCart(c) ==
    LET b == BuyerOf[c]
        ids == Ids(co[c].lines) IN
    /\ co[c].pc = "claim"
    /\ ids \cap ClaimedLines(b) = {}
    /\ IF \A p \in ids : cart[b][p] > 0
       THEN co' = [co EXCEPT ![c].pc = "reserve",
                             ![c].runs = @ + 1,
                             ![c].lines = [p \in Products |->
                                                IF p \in ids THEN cart[b][p] ELSE 0]]
       ELSE EndCheckout(c)
    /\ UNCHANGED <<stock, cart, orders, cx, listingVars, editsLeft>>

\* Mutant of ReserveLine: the guarded decrement forgets the quantity.
ReserveLineUnguarded(c) ==
    /\ co[c].pc = "reserve"
    /\ ToReserve(c) # {}
    /\ ProductHolders(NextLine(c)) = {}
    /\ IF status[NextLine(c)] = "ACTIVE"
       THEN co' = [co EXCEPT ![c].done = @ \cup {NextLine(c)}]
       ELSE EndCheckout(c)
    /\ UNCHANGED <<stock, cart, orders, cx, listingVars, editsLeft>>

\* The guarded decrement of the next line waits for the row, and fails the
\* checkout when the listing is not for sale in that quantity any more.
ReserveLine(c) ==
    /\ co[c].pc = "reserve"
    /\ ToReserve(c) # {}
    /\ LET p == NextLine(c) IN
        /\ ProductHolders(p) = {}
        /\ IF status[p] = "ACTIVE" /\ co[c].lines[p] <= stock[p]
           THEN co' = [co EXCEPT ![c].done = @ \cup {p}]
           ELSE EndCheckout(c)
    /\ UNCHANGED <<stock, cart, orders, cx, listingVars, editsLeft>>

\* The lines of every seller are taken or untouched, and some are taken.
AtGroupEnd(c) ==
    /\ co[c].done # {}
    /\ \A s \in Sellers :
        LET group == LinesOf(<<c, s>>)
        IN  group \subseteq co[c].done \/ group \cap co[c].done = {}

\* Mutant of OrderNumberCollides: each retry counts from the start.
OrderNumberCollidesForever(c) ==
    /\ co[c].pc = "reserve"
    /\ AtGroupEnd(c)
    /\ co' = [co EXCEPT ![c].pc = "claim", ![c].done = {}, ![c].runs = 0]
    /\ UNCHANGED <<stock, cart, orders, cx, listingVars, editsLeft>>

\* order.create of a seller whose lines are taken collides on the order number:
\* the whole transaction is rolled back, and run again twice at most.
OrderNumberCollides(c) ==
    /\ co[c].pc = "reserve"
    /\ AtGroupEnd(c)
    /\ IF co[c].runs < MaxRuns
       THEN co' = [co EXCEPT ![c].pc = "claim", ![c].done = {}]
       ELSE EndCheckout(c)
    /\ UNCHANGED <<stock, cart, orders, cx, listingVars, editsLeft>>

\* The orders are created, the claimed lines deleted, and everything commits.
CommitCheckout(c) ==
    LET b == BuyerOf[c]
        lines == co[c].lines IN
    /\ co[c].pc = "reserve"
    /\ ToReserve(c) = {}
    /\ stock' = [p \in Products |-> stock[p] - lines[p]]
    /\ cart' = [cart EXCEPT ![b] =
                    [p \in Products |-> IF lines[p] > 0 THEN 0 ELSE cart[b][p]]]
    /\ orders' = [o \in OrderIds |->
                    IF o[1] = c /\ LinesOf(o) # {} THEN "PENDING" ELSE orders[o]]
    /\ EndCheckout(c)
    /\ UNCHANGED <<cx, listingVars, editsLeft>>

\* The transaction is lost: it waited too long, Postgres chose it to break a
\* deadlock, or its process died.
LoseCheckout(c) ==
    /\ co[c].pc = "reserve"
    /\ EndCheckout(c)
    /\ UNCHANGED <<stock, cart, orders, cx, listingVars, editsLeft>>

(***************************************************************************)
(* The buyer's cart, cancelOrder and markOrderPaid.                        *)
(***************************************************************************)

\* The write of a cart request: it sets a quantity it has validated against an
\* earlier read of the listing, or removes the line.  It waits for a line that a
\* checkout has claimed.
EditCart(b, p) ==
    /\ editsLeft > 0
    /\ p \notin ClaimedLines(b)
    /\ \E quantity \in 0 .. MaxQuantity : cart' = [cart EXCEPT ![b][p] = quantity]
    /\ editsLeft' = editsLeft - 1
    /\ UNCHANGED <<stock, orders, co, cx, listingVars>>

EndCancel(n) == cx' = [cx EXCEPT ![n].pc = "ended", ![n].done = {}, ![n].next = NoProduct]

\* The order is read and the move validated.
CancelRead(n, o) ==
    /\ cx[n].pc = "idle"
    /\ orders[o] # "NONE"
    /\ CanTransitionOrder(orders[o], "CANCELLED")
    /\ cx' = [cx EXCEPT ![n].pc = "claim", ![n].order = o]
    /\ UNCHANGED <<stock, cart, orders, co, listingVars, editsLeft>>

\* Mutant of CancelClaim: a plain update of the order.
CancelClaimUnconditional(n) ==
    LET o == cx[n].order IN
    /\ cx[n].pc = "claim"
    /\ OrderHolders(o) = {}
    /\ \E p \in LinesOf(o) : cx' = [cx EXCEPT ![n].pc = "restore", ![n].next = p]
    /\ UNCHANGED <<stock, cart, orders, co, listingVars, editsLeft>>

\* The compare-and-swap on the status that was read comes before any stock moves.
\* The line items are then read, in no particular order.
CancelClaim(n) ==
    LET o == cx[n].order IN
    /\ cx[n].pc = "claim"
    /\ OrderHolders(o) = {}
    /\ IF orders[o] = "PENDING"
       THEN \E p \in LinesOf(o) : cx' = [cx EXCEPT ![n].pc = "restore", ![n].next = p]
       ELSE EndCancel(n)
    /\ UNCHANGED <<stock, cart, orders, co, listingVars, editsLeft>>

\* The units of the next line go back, whatever the status of the listing.
CancelRestore(n) ==
    LET p == cx[n].next
        rest == LinesOf(cx[n].order) \ (cx[n].done \cup {p}) IN
    /\ cx[n].pc = "restore"
    /\ p # NoProduct
    /\ ProductHolders(p) = {}
    /\ \E q \in IF rest = {} THEN {NoProduct} ELSE rest :
            cx' = [cx EXCEPT ![n].done = @ \cup {p}, ![n].next = q]
    /\ UNCHANGED <<stock, cart, orders, co, listingVars, editsLeft>>

CancelCommit(n) ==
    LET o == cx[n].order IN
    /\ cx[n].pc = "restore"
    /\ cx[n].next = NoProduct
    /\ orders' = [orders EXCEPT ![o] = "CANCELLED"]
    /\ stock' = [p \in Products |-> stock[p] + UnitsOf(o, p)]
    /\ EndCancel(n)
    /\ UNCHANGED <<cart, co, listingVars, editsLeft>>

\* The transaction is lost and rolled back.
LoseCancel(n) ==
    /\ cx[n].pc \in {"claim", "restore"}
    /\ EndCancel(n)
    /\ UNCHANGED <<stock, cart, orders, co, listingVars, editsLeft>>

\* markOrderPaid's conditional claim.
MarkPaid(o) ==
    /\ OrderHolders(o) = {}
    /\ orders[o] # "NONE"
    /\ CanTransitionOrder(orders[o], "PAID")
    /\ orders' = [orders EXCEPT ![o] = "PAID"]
    /\ UNCHANGED <<stock, cart, co, cx, listingVars, editsLeft>>

(***************************************************************************)
(* The seller's and the moderators' listing edits.                         *)
(***************************************************************************)

\* archive, unarchive, mark sold, delete, suspend, remove: any status is written
\* whatever the status was.
SetListingStatus(p) ==
    /\ listingEditsLeft > 0
    /\ ProductHolders(p) = {}
    /\ \E s \in ListingStatus \ {status[p]} : status' = [status EXCEPT ![p] = s]
    /\ listingEditsLeft' = listingEditsLeft - 1
    /\ UNCHANGED <<stock, cart, orders, co, cx, form, editsLeft>>

\* The edit form is filled with the quantity of the moment ...
OpenListingForm(p) ==
    /\ listingEditsLeft > 0
    /\ form[p] = {}
    /\ form' = [form EXCEPT ![p] = {stock[p]}]
    /\ UNCHANGED <<stock, status, cart, orders, co, cx, editsLeft, listingEditsLeft>>

\* ... and updateListing writes the quantity of the form, as it was or raised by
\* the seller, over whatever has been sold since.  Publishing writes ACTIVE.
UpdateListing(p) ==
    /\ listingEditsLeft > 0
    /\ ProductHolders(p) = {}
    /\ \E filled \in form[p] : \E quantity \in {filled, filled + 1} :
            stock' = [stock EXCEPT ![p] = quantity]
    /\ \E s \in ListingStatus : status' = [status EXCEPT ![p] = s]
    /\ form' = [form EXCEPT ![p] = {}]
    /\ listingEditsLeft' = listingEditsLeft - 1
    /\ UNCHANGED <<cart, orders, co, cx, editsLeft>>

-------------------------------------------------------------------------------
CheckoutStep(c) ==
    \/ ReadCart(c) \/ ReadProducts(c) \/ ClaimCart(c) \/ ReserveLine(c)
    \/ OrderNumberCollides(c) \/ CommitCheckout(c)

CancelStep(n) == CancelClaim(n) \/ CancelRestore(n) \/ CancelCommit(n)

Next ==
    \/ \E c \in Checkouts : CheckoutStep(c) \/ LoseCheckout(c)
    \/ \E n \in Cancels : CancelStep(n) \/ LoseCancel(n) \/ \E o \in OrderIds : CancelRead(n, o)
    \/ \E b \in Buyers, p \in Products : EditCart(b, p)
    \/ \E o \in OrderIds : MarkPaid(o)
    \/ \E p \in Products : SetListingStatus(p) \/ OpenListingForm(p) \/ UpdateListing(p)

Spec == Init /\ [][Next]_vars

(***************************************************************************)
(* Who waits for whom.                                                     *)
(***************************************************************************)

\* The transactions whose row the transaction waits for.
BlockedBy(t) ==
    IF t \in Checkouts
    THEN IF co[t].pc = "reserve" /\ ToReserve(t) # {}
         THEN ProductHolders(NextLine(t)) ELSE {}
    ELSE IF cx[t].pc = "restore" /\ cx[t].next # NoProduct
         THEN ProductHolders(cx[t].next) ELSE {}

\* A request that was sent goes on, and a transaction that waits for another one
\* is given the row or is lost: Prisma rolls an interactive transaction back
\* after its timeout, and Postgres breaks a deadlock.
Fairness ==
    /\ \A c \in Checkouts :
        WF_vars(CheckoutStep(c) \/ (BlockedBy(c) # {} /\ LoseCheckout(c)))
    /\ \A n \in Cancels :
        WF_vars(CancelStep(n) \/ (BlockedBy(n) # {} /\ LoseCancel(n)))

FairSpec == Spec /\ Fairness

-------------------------------------------------------------------------------
(***************************************************************************)
(* Properties.                                                             *)
(***************************************************************************)

\* Every variable has its type; above all, no stock is negative.
TypeOK ==
    /\ stock \in [Products -> Nat]
    /\ status \in [Products -> ListingStatus]
    /\ cart \in [Buyers -> [Products -> 0 .. MaxQuantity]]
    /\ orders \in [OrderIds -> {"NONE", "PENDING", "PAID", "CANCELLED"}]
    /\ co \in [Checkouts -> [pc : CheckoutPcs, lines : [Products -> 0 .. MaxQuantity],
                             done : SUBSET Products, runs : 0 .. MaxRuns]]
    /\ cx \in [Cancels -> [pc : CancelPcs, order : OrderIds \cup {NoOrder},
                           done : SUBSET Products, next : Products \cup {NoProduct}]]
    /\ \A p \in Products : form[p] \subseteq Nat
    /\ editsLeft \in 0 .. MaxEdits
    /\ listingEditsLeft \in 0 .. MaxListingEdits

Live(o) == orders[o] \in {"PENDING", "PAID"}

\* The units of p in the orders that were not cancelled, each numbered within
\* its order.
UnitsSold(p) ==
    {u \in OrderIds \X (1 .. MaxQuantity) : Live(u[1]) /\ u[2] <= UnitsOf(u[1], p)}

UnitsConserved ==
    \A p \in Products : stock[p] + Cardinality(UnitsSold(p)) = InitialStock[p]

\* Units are conserved: what a listing started with is in stock or in an order
\* that was not cancelled, over every interleaving of checkouts, cancellations,
\* payments, rollbacks and retries (order-transition-service.ts:50-57 and the
\* guards of checkoutCart, modules/orders/service.ts:192-199), as long as no
\* listing is edited: an edit may write an older quantity back, see UpdateListing.
StockConserved == listingEditsLeft = MaxListingEdits => UnitsConserved

\* An order is created from the cart as it is at that moment, and uses its lines
\* up: no second checkout of the cart, and no edit that slips in between, is
\* charged twice or in another quantity (modules/orders/service.ts:280-306).
OrdersMatchCart ==
    [][\A o \in OrderIds :
        orders[o] = "NONE" /\ orders'[o] # "NONE" =>
            \A p \in LinesOf(o) :
                /\ cart[BuyerOf[o[1]]][p] = UnitsOf(o, p)
                /\ cart'[BuyerOf[o[1]]][p] = 0]_vars

\* Transactions that wait for each other in a circle.
LockCycle(T) ==
    \E S \in (SUBSET T) \ {{}} : \A t \in S : S \cap BlockedBy(t) # {}

\* What the sorted ids give all the same: checkouts that wait for each other in a
\* circle wait for listings of at least two sellers.  However many buyers share
\* the listings of one seller, these alone never deadlock them
\* (modules/orders/service.ts:301-344).
NoDeadlockWithinSeller ==
    \A S \in (SUBSET Checkouts) \ {{}} :
        (\A t \in S : S \cap BlockedBy(t) # {}) =>
            \E t, u \in S : SellerOf[NextLine(t)] # SellerOf[NextLine(u)]

\* A checkout that was sent ends: its retries are bounded, and it does not wait
\* forever for the cart or for a product row.
EveryCheckoutEnds ==
    \A c \in Checkouts : (co[c].pc # "idle") ~> (co[c].pc = "ended")

-------------------------------------------------------------------------------
(***************************************************************************)
(* What a comment of the code says, and the code does not do.              *)
(***************************************************************************)

\* modules/orders/service.ts:301-306: "every checkout touches product rows in the
\* same order", so that opposite lock sequences cannot deadlock two buyers.
CheckoutsNeverDeadlock == ~LockCycle(Checkouts)
===============================================================================
