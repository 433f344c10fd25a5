------------------------------ MODULE CheckoutForm ------------------------------
(***************************************************************************)
(* The checkout page of one buyer and the order requests it sends.         *)
(*                                                                         *)
(* The page is rendered from the cart as it was.  The county in the field  *)
(* is priced by a request of its own, which an edit of the field overtakes;*)
(* the buyer ticks the fee and pays, and the server prices the county      *)
(* again, reads the cart, and turns it into one order per seller in a      *)
(* transaction.  Meanwhile the operator deploys another tariff, the cart   *)
(* is edited in another tab, the page is loaded again, and an answer is    *)
(* lost although the order is made.                                        *)
(*                                                                         *)
(* A seller has at most one line in the cart, and it costs 1; the address  *)
(* is filled in.  What a listing's stock and status do to a checkout is    *)
(* CheckoutInventory, here a refusal; paying is PaymentScreen.             *)
(***************************************************************************)
EXTENDS Integers, FiniteSets

CONSTANTS
    Shops,         \* sellers
    Counties,      \* counties of Kenya
    NoCounty,      \* an empty field
    PayCalls,      \* bound: order requests at a time
    MaxFee,        \* bound: dearest delivery
    MaxTariffs,    \* bound: deployments of another tariff
    MaxLineIds,    \* bound: lines ever put into the cart
    MaxInquiries   \* bound: fee requests under way

ASSUME CheckoutFormAssumption ==
    /\ NoCounty \notin Counties
    /\ MaxFee \in Nat /\ MaxTariffs \in Nat /\ MaxLineIds \in Nat /\ MaxInquiries \in Nat

VARIABLES
    tariff,        \* MALIHUB_DELIVERY_COUNTY_RATES_JSON
    tariffs,       \* deployments so far
    basket,        \* the line of each shop in the cart: its id, 0 if there is none
    lineIds,       \* line ids given out
    sheet,         \* the state of the page
    timer,         \* the debounce of the fee request runs
    inquiries,     \* fee requests under way, also those the page has given up
    payCall,       \* the order requests
    placed         \* Order rows

checkoutVars == <<tariff, tariffs, basket, lineIds, sheet, timer, inquiries,
                  payCall, placed>>

Unpriced   == -1
DeliveryFees == 0 .. MaxFee
Estimate   == [county : Counties, fee : DeliveryFees]
NoEstimate == [county |-> NoCounty, fee |-> Unpriced]
Inquiry    == [county : Counties, live : BOOLEAN, fee : DeliveryFees \cup {Unpriced}]
CheckoutOrder == [line : 1 .. MaxLineIds, shop : Shops, county : Counties,
                  fee : DeliveryFees, agreed : Estimate, total : Nat]

Sheet == [stage : {"closed", "review", "creating", "paying"},
          lines : SUBSET Shops, blocked : SUBSET Shops,
          county : Counties \cup {NoCounty}, estimate : Estimate \cup {NoEstimate},
          accepted : BOOLEAN, made : SUBSET CheckoutOrder]
PayCall == [pc : {"idle", "sent", "priced", "done"}, county : Counties \cup {NoCounty},
            fee : DeliveryFees \cup {Unpriced}, agreed : Estimate \cup {NoEstimate},
            shops : SUBSET Shops, made : SUBSET CheckoutOrder, mine : BOOLEAN]

NoPayCall  == [pc |-> "idle", county |-> NoCounty, fee |-> Unpriced,
               agreed |-> NoEstimate, shops |-> {}, made |-> {}, mine |-> FALSE]

InBasket == {s \in Shops : basket[s] # 0}

\* The page as it is rendered: the shops of its lines, and those it may not sell.
NoSheet == [stage |-> "closed", lines |-> {}, blocked |-> {}, county |-> NoCounty,
            estimate |-> NoEstimate, accepted |-> FALSE, made |-> {}]

buildCheckoutSummary(unavailable) ==
    [NoSheet EXCEPT !.stage = "review", !.lines = InBasket,
                    !.blocked = InBasket \cap unavailable]

\* What the page says the buyer will pay: unavailable lines are worth nothing.
totalCents(s) == Cardinality(s.lines \ s.blocked)

CheckoutFormInit ==
    /\ tariff \in [Counties -> DeliveryFees \cup {Unpriced}]
    /\ tariffs = 0
    /\ basket = [s \in Shops |-> 0]
    /\ lineIds = 0
    /\ sheet = NoSheet
    /\ timer = FALSE
    /\ inquiries = {}
    /\ payCall = [c \in PayCalls |-> NoPayCall]
    /\ placed = {}

marketVars == <<tariff, tariffs, basket, lineIds>>

-------------------------------------------------------------------------------
\* Nobody waits for the answer any more.
Deserted(c) ==
    IF payCall[c].pc = "done" THEN NoPayCall ELSE [payCall[c] EXCEPT !.mine = FALSE]

\* The page is loaded, also again: it forgets what it had asked for. The county of
\* the profile stands in the field.
OpenCheckout(county, unavailable) ==
    /\ InBasket # {}
    /\ sheet' = [buildCheckoutSummary(unavailable) EXCEPT !.county = county]
    /\ timer' = (county # NoCounty)
    /\ inquiries' = {}
    /\ payCall' = [c \in PayCalls |-> Deserted(c)]
    /\ UNCHANGED <<marketVars, placed>>

\* The field is edited, also while an order is being made: the estimate and its
\* tick go, the timer starts again and the request under way is given up.
EditCounty(county) ==
    /\ sheet.stage # "closed"
    /\ sheet' = [sheet EXCEPT !.county = county, !.estimate = NoEstimate, !.accepted = FALSE]
    /\ timer' = (county # NoCounty)
    /\ inquiries' = {[i EXCEPT !.live = FALSE] : i \in inquiries}
    /\ UNCHANGED <<marketVars, payCall, placed>>

\* 250 ms after the last edit.
AskEstimate ==
    /\ timer
    /\ Cardinality(inquiries) < MaxInquiries
    /\ timer' = FALSE
    /\ inquiries' = inquiries \cup {[county |-> sheet.county, live |-> TRUE, fee |-> Unpriced]}
    /\ UNCHANGED <<marketVars, sheet, payCall, placed>>

\* The fee of a county; a county without one is refused, never delivered free.
estimateCountyDelivery(county) == tariff[county]

AnswerEstimate(i) ==
    /\ i.fee = Unpriced
    /\ estimateCountyDelivery(i.county) # Unpriced
    /\ inquiries' = (inquiries \ {i}) \cup {[i EXCEPT !.fee = estimateCountyDelivery(i.county)]}
    /\ UNCHANGED <<marketVars, sheet, timer, payCall, placed>>

\* Refused, or lost: the page says so and shows no fee.
LoseEstimate(i) ==
    /\ inquiries' = inquiries \ {i}
    /\ UNCHANGED <<marketVars, sheet, timer, payCall, placed>>

EstimateArrives(i) ==
    /\ i.fee # Unpriced
    /\ inquiries' = inquiries \ {i}
    /\ sheet' = IF i.live THEN [sheet EXCEPT !.estimate = [county |-> i.county, fee |-> i.fee]]
                ELSE sheet
    /\ UNCHANGED <<marketVars, timer, payCall, placed>>

\* The box stands under the fee that is shown.
TickFee ==
    /\ sheet.estimate # NoEstimate
    /\ sheet' = [sheet EXCEPT !.accepted = ~@]
    /\ UNCHANGED <<marketVars, timer, inquiries, payCall, placed>>

\* The button is disabled while a line is unavailable or nothing is to be paid.
MayPay ==
    /\ sheet.stage = "review"
    /\ sheet.blocked = {} /\ totalCents(sheet) > 0
    /\ sheet.county # NoCounty

handlePay(c) ==
    /\ MayPay
    /\ sheet.estimate # NoEstimate /\ sheet.estimate.county = sheet.county
    /\ sheet.accepted
    /\ payCall[c].pc = "idle"
    /\ sheet' = [sheet EXCEPT !.stage = "creating"]
    /\ payCall' = [payCall EXCEPT ![c] = [NoPayCall EXCEPT
           !.pc = "sent", !.county = sheet.county, !.fee = sheet.estimate.fee,
           !.agreed = sheet.estimate, !.mine = TRUE]]
    /\ UNCHANGED <<marketVars, timer, inquiries, placed>>

-------------------------------------------------------------------------------
\* Mutant of PriceOrder: the fee of the day is charged, whatever was ticked.
PriceOrderUnseen(c) ==
    /\ payCall[c].pc = "sent"
    /\ InBasket # {}
    /\ estimateCountyDelivery(payCall[c].county) # Unpriced
    /\ payCall' = [payCall EXCEPT ![c].pc = "priced", ![c].shops = InBasket,
                                  ![c].fee = estimateCountyDelivery(payCall[c].county)]
    /\ UNCHANGED <<marketVars, sheet, timer, inquiries, placed>>

\* Before the transaction: the cart is read and the county priced again; only the
\* fee the buyer ticked will do.
PriceOrder(c) ==
    /\ payCall[c].pc = "sent"
    /\ InBasket # {}
    /\ estimateCountyDelivery(payCall[c].county) = payCall[c].fee
    /\ payCall' = [payCall EXCEPT ![c].pc = "priced", ![c].shops = InBasket]
    /\ UNCHANGED <<marketVars, sheet, timer, inquiries, placed>>

\* One order per seller, each with the whole fee.
OrdersOf(c) ==
    {[line |-> basket[s], shop |-> s, county |-> payCall[c].county, fee |-> payCall[c].fee,
      agreed |-> payCall[c].agreed, total |-> 1 + payCall[c].fee] : s \in payCall[c].shops}

\* The answer, if somebody still waits for it.
OrderAnswer(c, made) ==
    IF payCall[c].mine THEN [NoPayCall EXCEPT !.pc = "done", !.made = made, !.mine = TRUE]
    ELSE NoPayCall

\* Mutant of PlaceOrders: the lines are not counted when they are claimed, and the
\* orders are made of what was read.
PlaceOrdersUnclaimed(c) ==
    /\ payCall[c].pc = "priced"
    /\ placed' = placed \cup OrdersOf(c)
    /\ basket' = [s \in Shops |-> IF s \in payCall[c].shops THEN 0 ELSE basket[s]]
    /\ payCall' = [payCall EXCEPT ![c] = OrderAnswer(c, OrdersOf(c))]
    /\ UNCHANGED <<tariff, tariffs, lineIds, sheet, timer, inquiries>>

\* The transaction: the lines that were read are claimed, all of them or none, and
\* every listing still sells.
PlaceOrders(c) ==
    /\ payCall[c].pc = "priced"
    /\ payCall[c].shops \subseteq InBasket
    /\ placed' = placed \cup OrdersOf(c)
    /\ basket' = [s \in Shops |-> IF s \in payCall[c].shops THEN 0 ELSE basket[s]]
    /\ payCall' = [payCall EXCEPT ![c] = OrderAnswer(c, OrdersOf(c))]
    /\ UNCHANGED <<tariff, tariffs, lineIds, sheet, timer, inquiries>>

\* A guard failed, the rate limit was reached, or the request never came.
RefuseOrders(c) ==
    /\ payCall[c].pc \in {"sent", "priced"}
    /\ payCall' = [payCall EXCEPT ![c] = OrderAnswer(c, {})]
    /\ UNCHANGED <<marketVars, sheet, timer, inquiries, placed>>

\* The page has its orders, or goes back to review with what it had.
AfterOrder(made) ==
    IF made = {} THEN [sheet EXCEPT !.stage = "review"] ELSE [sheet EXCEPT !.made = made]

OrdersArrive(c) ==
    /\ payCall[c].pc = "done"
    /\ sheet' = AfterOrder(payCall[c].made)
    /\ payCall' = [payCall EXCEPT ![c] = NoPayCall]
    /\ UNCHANGED <<marketVars, timer, inquiries, placed>>

\* The payment of the first order was begun, or could not be: PaymentScreen goes on.
OpenPayment ==
    /\ sheet.stage = "creating" /\ sheet.made # {}
    /\ sheet' = [sheet EXCEPT !.stage = "paying"]
    /\ UNCHANGED <<marketVars, timer, inquiries, payCall, placed>>

\* The connection is lost: the buyer may pay again while the server still works.
LoseConnection(c) ==
    /\ payCall[c].mine
    /\ sheet' = AfterOrder({})
    /\ payCall' = [payCall EXCEPT ![c] = Deserted(c)]
    /\ UNCHANGED <<marketVars, timer, inquiries, placed>>

-------------------------------------------------------------------------------
\* The cart is edited in another tab.
FillBasket(s) ==
    /\ basket[s] = 0 /\ lineIds < MaxLineIds
    /\ basket' = [basket EXCEPT ![s] = lineIds + 1]
    /\ lineIds' = lineIds + 1
    /\ UNCHANGED <<tariff, tariffs, sheet, timer, inquiries, payCall, placed>>

EmptyBasket(s) ==
    /\ basket[s] # 0
    /\ basket' = [basket EXCEPT ![s] = 0]
    /\ UNCHANGED <<tariff, tariffs, lineIds, sheet, timer, inquiries, payCall,
                   placed>>

\* The operator deploys another fee for a county, or none.
DeployTariff(county, fee) ==
    /\ tariffs < MaxTariffs /\ fee # tariff[county]
    /\ tariff' = [tariff EXCEPT ![county] = fee]
    /\ tariffs' = tariffs + 1
    /\ UNCHANGED <<basket, lineIds, sheet, timer, inquiries, payCall, placed>>

CheckoutFormNext ==
    \/ \E county \in Counties \cup {NoCounty} :
        \/ EditCounty(county)
        \/ \E unavailable \in SUBSET Shops : OpenCheckout(county, unavailable)
    \/ AskEstimate \/ TickFee \/ OpenPayment
    \/ \E i \in inquiries : AnswerEstimate(i) \/ LoseEstimate(i) \/ EstimateArrives(i)
    \/ \E c \in PayCalls :
        \/ handlePay(c) \/ PriceOrder(c) \/ PlaceOrders(c)
        \/ RefuseOrders(c) \/ OrdersArrive(c) \/ LoseConnection(c)
    \/ \E s \in Shops : FillBasket(s) \/ EmptyBasket(s)
    \/ \E county \in Counties, fee \in DeliveryFees \cup {Unpriced} : DeployTariff(county, fee)

CheckoutFormSpec == CheckoutFormInit /\ [][CheckoutFormNext]_checkoutVars

-------------------------------------------------------------------------------
MyCalls == {c \in PayCalls : payCall[c].mine}

\* Every variable has its type.
CheckoutFormTypeOK ==
    /\ tariff \in [Counties -> DeliveryFees \cup {Unpriced}]
    /\ tariffs \in 0 .. MaxTariffs
    /\ basket \in [Shops -> 0 .. MaxLineIds]
    /\ lineIds \in 0 .. MaxLineIds
    /\ sheet \in Sheet
    /\ timer \in BOOLEAN
    /\ inquiries \subseteq Inquiry
    /\ payCall \in [PayCalls -> PayCall]
    /\ placed \subseteq CheckoutOrder

\* An order is delivered where the buyer said and for the fee the buyer ticked,
\* whatever was deployed, edited or answered late in between: service.ts:393
\* "Delivery is a server-calculated, buyer-accepted snapshot."
FeeAsAgreed ==
    \A o \in placed : o.agreed = [county |-> o.county, fee |-> o.fee]

\* A line of the cart is ordered once, also when the answer was lost and the buyer
\* pays again: checkout-view.tsx:53 "a second checkout of the same cart creates
\* nothing".
OneOrderPerLine ==
    \A o, p \in placed : o.line = p.line => o = p

\* The page does not deceive its buyer.  The fee it shows is one of the county in
\* the field, and only that fee can be ticked; while it has no orders it says that they
\* are being made exactly when one request of its own is under way; the orders it
\* offers for payment exist, and with orders it does not offer to make them again.
FormSound ==
    /\ sheet.estimate # NoEstimate => sheet.estimate.county = sheet.county
    /\ sheet.accepted => sheet.estimate # NoEstimate
    /\ sheet.stage = "creating" /\ sheet.made = {} <=> MyCalls # {}
    /\ \A c, d \in MyCalls : c = d
    /\ sheet.made \subseteq placed
    /\ sheet.stage = "paying" => sheet.made # {}
    /\ sheet.stage = "review" => sheet.made = {}
===============================================================================
