---------------------------------- MODULE Cart ----------------------------------
(***************************************************************************)
(* One buyer's cart line of one listing.                                   *)
(*                                                                         *)
(* Requests of several tabs add to the line, set it and remove it.  Each   *)
(* reads the listing, then the line, then writes: three statements in no   *)
(* transaction, while buyers take units and the seller withdraws the       *)
(* listing.  A tab sends the quantity it shows, plus or minus one.         *)
(***************************************************************************)
EXTENDS Naturals

CONSTANTS
    Listed,      \* units the listing started with
    CartTabs,    \* bound: tabs of the buyer, one request each at a time
    MaxRows      \* bound: rows the line ever had

ASSUME CartAssumption == Listed \in Nat \ {0} /\ MaxRows \in Nat

VARIABLES
    stock,       \* Product.quantity
    onSale,      \* Product.status = "ACTIVE"
    row,         \* CartItem: its id, and 0 units when there is none
    ids,         \* row ids given out
    shown,       \* the quantity on the page of each tab
    cartRequest  \* the request of each tab

cartVars == <<stock, onSale, row, ids, shown, cartRequest>>

Line     == [id : 0 .. MaxRows, units : 0 .. Listed]
NoRow    == [id |-> 0, units |-> 0]
NoCall   == [pc |-> "idle"]

CartInit ==
    /\ stock = Listed
    /\ onSale = TRUE
    /\ row = NoRow
    /\ ids = 0
    /\ shown = [t \in CartTabs |-> 0]
    /\ cartRequest = [t \in CartTabs |-> NoCall]

-------------------------------------------------------------------------------
\* The page is rendered again: also after every request, whatever its answer.
Refresh(t) ==
    /\ cartRequest[t].pc = "idle"
    /\ shown' = [shown EXCEPT ![t] = row.units]
    /\ UNCHANGED <<stock, onSale, row, ids, cartRequest>>

CartAnswer(t) ==
    cartRequest' = [cartRequest EXCEPT ![t] = NoCall]

\* A request ends without a write: refused, or lost on its way.
Refuse(t) ==
    /\ cartRequest[t].pc # "idle"
    /\ CartAnswer(t)
    /\ UNCHANGED <<stock, onSale, row, ids, shown>>

\* The listing is read; what the request wants is kept with it.
ReadProduct(t) ==
    /\ cartRequest[t].pc = "idle"
    /\ onSale
    /\ \/ cartRequest' = [cartRequest EXCEPT ![t] =
              [pc |-> "line", kind |-> "add", units |-> 1, stock |-> stock]]
       \/ /\ shown[t] > 0
          /\ \E units \in {shown[t] - 1, shown[t] + 1} \ {0} :
                 cartRequest' = [cartRequest EXCEPT ![t] =
                     [pc |-> "line", kind |-> "set", units |-> units, stock |-> stock]]
    /\ UNCHANGED <<stock, onSale, row, ids, shown>>

\* The line is read and the new quantity checked against the stock read before.
\* An add of a line that is not there becomes a create.
ReadLine(t) ==
    /\ cartRequest[t].pc = "line"
    /\ LET q == cartRequest[t]
           units == IF q.kind = "add" THEN row.units + q.units ELSE q.units IN
        /\ units <= q.stock
        /\ q.kind = "set" => row # NoRow
        /\ cartRequest' = [cartRequest EXCEPT ![t] =
               [pc |-> IF row = NoRow THEN "create" ELSE "write", kind |-> q.kind,
                id |-> row.id, units |-> units, stock |-> q.stock]]
    /\ UNCHANGED <<stock, onSale, row, ids, shown>>

\* Mutant of WriteLine: the line is upserted by buyer and listing.
WriteLineUpserting(t) ==
    /\ cartRequest[t].pc = "write"
    /\ row' = [id |-> cartRequest[t].id, units |-> cartRequest[t].units]
    /\ CartAnswer(t)
    /\ UNCHANGED <<stock, onSale, ids, shown>>

\* The update names the row that was read: it fails if the row is gone, also
\* when another one stands in its place.
WriteLine(t) ==
    /\ cartRequest[t].pc = "write"
    /\ row' = IF row.id = cartRequest[t].id THEN [row EXCEPT !.units = cartRequest[t].units]
              ELSE row
    /\ CartAnswer(t)
    /\ UNCHANGED <<stock, onSale, ids, shown>>

\* The first add of a line; the second of two is merged into the row.
CreateLine(t) ==
    /\ cartRequest[t].pc = "create"
    /\ IF row = NoRow
       THEN /\ ids < MaxRows
            /\ row' = [id |-> ids + 1, units |-> cartRequest[t].units]
            /\ ids' = ids + 1
            /\ CartAnswer(t)
       ELSE /\ cartRequest' = [cartRequest EXCEPT ![t].pc = "merge"]
            /\ UNCHANGED <<row, ids>>
    /\ UNCHANGED <<stock, onSale, shown>>

\* Mutant of MergeLine: the sum is not checked again.
MergeLineUnchecked(t) ==
    /\ cartRequest[t].pc = "merge"
    /\ row # NoRow
    /\ cartRequest' = [cartRequest EXCEPT ![t].pc = "write", ![t].id = row.id,
                                          ![t].units = @ + row.units]
    /\ UNCHANGED <<stock, onSale, row, ids, shown>>

MergeLine(t) ==
    /\ cartRequest[t].pc = "merge"
    /\ row # NoRow
    /\ row.units + cartRequest[t].units <= cartRequest[t].stock
    /\ cartRequest' = [cartRequest EXCEPT ![t].pc = "write", ![t].id = row.id,
                                          ![t].units = @ + row.units]
    /\ UNCHANGED <<stock, onSale, row, ids, shown>>

RemoveLine(t) ==
    /\ cartRequest[t].pc = "idle"
    /\ row' = NoRow
    /\ UNCHANGED <<stock, onSale, ids, shown, cartRequest>>

-------------------------------------------------------------------------------
\* The cart is checked out: the line is consumed and its units are taken.
CheckoutLine ==
    /\ onSale /\ row # NoRow /\ row.units <= stock
    /\ stock' = stock - row.units
    /\ row' = NoRow
    /\ UNCHANGED <<onSale, ids, shown, cartRequest>>

\* Another buyer takes a unit.
SellElsewhere ==
    /\ stock > 0
    /\ stock' = stock - 1
    /\ UNCHANGED <<onSale, row, ids, shown, cartRequest>>

\* The seller withdraws the listing, or brings it back.
Withdraw ==
    /\ onSale' = ~onSale
    /\ UNCHANGED <<stock, row, ids, shown, cartRequest>>

CartNext ==
    \/ \E t \in CartTabs :
        \/ Refresh(t) \/ Refuse(t) \/ ReadProduct(t) \/ ReadLine(t)
        \/ WriteLine(t) \/ CreateLine(t) \/ MergeLine(t) \/ RemoveLine(t)
    \/ CheckoutLine \/ SellElsewhere \/ Withdraw

CartSpec == CartInit /\ [][CartNext]_cartVars

-------------------------------------------------------------------------------
\* Every variable has its type.  The line never asks for more than the seller
\* listed, whatever adds and updates race each other: cart-service.ts:181 "two
\* adds can never overshoot what the seller listed".
CartTypeOK ==
    /\ stock \in 0 .. Listed
    /\ onSale \in BOOLEAN
    /\ row \in Line /\ (row.id = 0 <=> row.units = 0)
    /\ ids \in 0 .. MaxRows
    /\ shown \in [CartTabs -> 0 .. Listed]
    /\ \A t \in CartTabs :
        cartRequest[t].pc \in {"idle", "line", "write", "create", "merge"}

\* A line the buyer has removed or checked out is not brought back by an update
\* that was under way: only an add that found no line creates one, under an id of
\* its own.
RemovedLineStaysRemoved ==
    [][row' # row /\ row' # NoRow =>
          row'.id = row.id \/ (row = NoRow /\ row'.id = ids + 1)]_cartVars
===============================================================================
