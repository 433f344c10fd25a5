---------------------------- MODULE Storefront_proofs ----------------------------
(***************************************************************************)
(* The three parts of the browser are sound whatever the numbers of        *)
(* counties, sellers, requests, tabs and notices are: each part has an     *)
(* inductive invariant, and in the composition a step is one of one part   *)
(* and leaves the others alone.                                            *)
(***************************************************************************)
EXTENDS MCStorefront, FiniteSetTheorems, TLAPS

-------------------------------------------------------------------------------
(***************************************************************************)
(* The checkout page (CheckoutForm).  A fee request that is still awaited  *)
(* asks for the county in the field, an order request carries what the     *)
(* buyer ticked, and no order has a line that is still in the cart.        *)
(***************************************************************************)
FieldSound ==
    /\ timer => sheet.county # NoCounty
    /\ \A i \in inquiries : i.live => i.county = sheet.county

CallsSound ==
    \A c \in PayCalls :
        /\ payCall[c].pc = "idle" => ~payCall[c].mine
        /\ payCall[c].pc \in {"sent", "priced"} =>
              /\ payCall[c].county \in Counties /\ payCall[c].fee \in DeliveryFees
              /\ payCall[c].agreed = [county |-> payCall[c].county, fee |-> payCall[c].fee]
        /\ payCall[c].pc = "done" => payCall[c].mine
        /\ payCall[c].made \subseteq placed

LinesFresh ==
    /\ \A s \in Shops : basket[s] <= lineIds
    /\ \A s, t \in Shops : basket[s] # 0 /\ basket[s] = basket[t] => s = t
    /\ \A o \in placed : o.line <= lineIds /\ \A s \in Shops : basket[s] # o.line

CheckoutFormInv ==
    /\ CheckoutFormTypeOK /\ FormSound /\ FeeAsAgreed /\ OneOrderPerLine
    /\ FieldSound /\ CallsSound /\ LinesFresh

LEMMA Blanks == NoSheet \in Sheet /\ NoPayCall \in PayCall
  BY DEF NoSheet, Sheet, NoPayCall, PayCall

\* What becomes of a request that is answered, or that nobody waits for any more.
LEMMA RequestsEnd ==
    ASSUME CheckoutFormTypeOK, NEW c \in PayCalls
    PROVE  /\ Deserted(c) \in PayCall /\ ~Deserted(c).mine
           /\ Deserted(c).pc # "done"
           /\ \A made \in SUBSET CheckoutOrder :
                 /\ OrderAnswer(c, made) \in PayCall
                 /\ OrderAnswer(c, made).mine = payCall[c].mine
                 /\ OrderAnswer(c, made).made \subseteq made
                 /\ OrderAnswer(c, made).pc = IF payCall[c].mine THEN "done" ELSE "idle"
  <1>1. payCall[c] \in PayCall BY DEF CheckoutFormTypeOK
  <1>2. CASE payCall[c].pc = "done"
    BY <1>1, <1>2, Blanks DEF Deserted, OrderAnswer, PayCall, NoPayCall
  <1>3. CASE payCall[c].pc # "done"
    BY <1>1, <1>3, Blanks DEF Deserted, OrderAnswer, PayCall, NoPayCall
  <1> QED BY <1>2, <1>3

LEMMA DesertedSound ==
    ASSUME CheckoutFormTypeOK, CallsSound, NEW c \in PayCalls
    PROVE  /\ Deserted(c).made \subseteq placed
           /\ Deserted(c).pc \in {"sent", "priced"} =>
                 /\ Deserted(c).county \in Counties /\ Deserted(c).fee \in DeliveryFees
                 /\ Deserted(c).agreed = [county |-> Deserted(c).county, fee |-> Deserted(c).fee]
  <1>1. payCall[c] \in PayCall BY DEF CheckoutFormTypeOK
  <1>2. CASE payCall[c].pc = "done"
    BY <1>2 DEF Deserted, NoPayCall
  <1>3. CASE payCall[c].pc # "done"
    <2> DEFINE q == [payCall[c] EXCEPT !.mine = FALSE]
    <2>1. /\ q.pc = payCall[c].pc /\ q.county = payCall[c].county /\ q.fee = payCall[c].fee
          /\ q.agreed = payCall[c].agreed /\ q.made = payCall[c].made
      BY <1>1 DEF PayCall
    <2>2. Deserted(c) = q BY <1>3 DEF Deserted
    <2> QED BY <2>1, <2>2 DEF CallsSound
  <1> QED BY <1>2, <1>3

LEMMA CheckoutFormStart == CheckoutFormInit => CheckoutFormInv
  <1> SUFFICES ASSUME CheckoutFormInit PROVE CheckoutFormInv
    OBVIOUS
  <1> USE CheckoutFormAssumption DEF CheckoutFormInit
  <1>1. CheckoutFormTypeOK
    <2>1. tariff \in [Counties -> DeliveryFees \cup {Unpriced}] OBVIOUS
    <2>2. tariffs \in 0 .. MaxTariffs /\ lineIds \in 0 .. MaxLineIds OBVIOUS
    <2>3. basket \in [Shops -> 0 .. MaxLineIds] OBVIOUS
    <2>4. payCall \in [PayCalls -> PayCall] BY Blanks
    <2>5. sheet \in Sheet BY Blanks
    <2>6. timer \in BOOLEAN /\ inquiries \subseteq Inquiry /\ placed \subseteq CheckoutOrder
      OBVIOUS
    <2> QED BY <2>1, <2>2, <2>3, <2>4, <2>5, <2>6 DEF CheckoutFormTypeOK
  <1>2. MyCalls = {} BY DEF MyCalls, NoPayCall
  <1>3. FormSound BY <1>2 DEF FormSound, NoSheet
  <1>4. CallsSound BY DEF CallsSound, NoPayCall
  <1>5. FeeAsAgreed /\ OneOrderPerLine /\ FieldSound /\ LinesFresh
    BY DEF FeeAsAgreed, OneOrderPerLine, FieldSound, LinesFresh
  <1> QED BY <1>1, <1>3, <1>4, <1>5 DEF CheckoutFormInv

\* A step of the page alone: no request for an order, no order and no line changes.
LEMMA PageSteps ==
    ASSUME CheckoutFormInv,
           UNCHANGED <<marketVars, payCall, placed>>,
           sheet' \in Sheet,
           timer' \in BOOLEAN, inquiries' \subseteq Inquiry, FieldSound',
           sheet'.stage = sheet.stage, sheet'.made = sheet.made,
           sheet'.estimate # NoEstimate => sheet'.estimate.county = sheet'.county,
           sheet'.accepted => sheet'.estimate # NoEstimate
    PROVE  CheckoutFormInv'
  BY DEF CheckoutFormInv, CheckoutFormTypeOK, FormSound, FeeAsAgreed, OneOrderPerLine,
         CallsSound, LinesFresh, MyCalls, marketVars

LEMMA FormFilled ==
    ASSUME CheckoutFormInv,
           NEW county \in Counties \cup {NoCounty},
           \/ EditCounty(county) \/ AskEstimate \/ TickFee
           \/ \E i \in inquiries : AnswerEstimate(i) \/ LoseEstimate(i) \/ EstimateArrives(i)
    PROVE  CheckoutFormInv'
  <1> USE CheckoutFormAssumption
  <1>1. CASE EditCounty(county)
    <2>1. inquiries' \subseteq Inquiry /\ \A i \in inquiries' : ~i.live
    <3> SUFFICES ASSUME NEW i \in inquiries
                 PROVE  [i EXCEPT !.live = FALSE] \in Inquiry /\ ~[i EXCEPT !.live = FALSE].live
      BY <1>1 DEF EditCounty
    <3> QED BY DEF CheckoutFormInv, CheckoutFormTypeOK, Inquiry
    <2>2. FieldSound'
      BY <1>1, <2>1 DEF EditCounty, FieldSound, CheckoutFormInv, CheckoutFormTypeOK, Sheet
    <2> QED BY <1>1, <2>1, <2>2, PageSteps
        DEF EditCounty, CheckoutFormInv, CheckoutFormTypeOK, FormSound, Sheet
  <1>2. CASE AskEstimate
    <2> DEFINE i == [county |-> sheet.county, live |-> TRUE, fee |-> Unpriced]
    <2>0. i \in Inquiry /\ i.county = sheet.county
      BY <1>2 DEF AskEstimate, FieldSound, CheckoutFormInv, CheckoutFormTypeOK, Inquiry, Sheet
    <2>1. FieldSound' /\ inquiries' \subseteq Inquiry
      BY <1>2, <2>0 DEF AskEstimate, FieldSound, CheckoutFormInv, CheckoutFormTypeOK, Sheet
    <2> QED BY <1>2, <2>1, PageSteps DEF AskEstimate, CheckoutFormInv, CheckoutFormTypeOK, FormSound, Sheet
  <1>3. CASE TickFee
    <2>1. FieldSound'
      BY <1>3 DEF TickFee, FieldSound, CheckoutFormInv, CheckoutFormTypeOK, Sheet
    <2> QED BY <1>3, <2>1, PageSteps DEF TickFee, CheckoutFormInv, CheckoutFormTypeOK, FormSound, Sheet
  <1>4. ASSUME NEW i \in inquiries, AnswerEstimate(i) PROVE CheckoutFormInv'
    <2>1. i \in Inquiry /\ tariff[i.county] \in DeliveryFees \cup {Unpriced}
      BY DEF CheckoutFormInv, CheckoutFormTypeOK, Inquiry
    <2>2. FieldSound' /\ inquiries' \subseteq Inquiry
      BY <1>4, <2>1 DEF AnswerEstimate, estimateCountyDelivery, FieldSound, CheckoutFormInv,
                        CheckoutFormTypeOK, Inquiry
    <2> QED BY <1>4, <2>2, PageSteps DEF AnswerEstimate, CheckoutFormInv, CheckoutFormTypeOK, FormSound, Sheet
  <1>5. ASSUME NEW i \in inquiries, LoseEstimate(i) PROVE CheckoutFormInv'
    <2>1. FieldSound' /\ inquiries' \subseteq Inquiry
      BY <1>5 DEF LoseEstimate, FieldSound, CheckoutFormInv, CheckoutFormTypeOK, Sheet
    <2> QED BY <1>5, <2>1, PageSteps DEF LoseEstimate, CheckoutFormInv, CheckoutFormTypeOK, FormSound, Sheet
  <1>6. ASSUME NEW i \in inquiries, EstimateArrives(i) PROVE CheckoutFormInv'
    <2>1. i \in Inquiry /\ [county |-> i.county, fee |-> i.fee] \in Estimate
      BY <1>6 DEF EstimateArrives, CheckoutFormInv, CheckoutFormTypeOK, Inquiry, Estimate
    <2>2. FieldSound' /\ inquiries' \subseteq Inquiry
      BY <1>6 DEF EstimateArrives, FieldSound, CheckoutFormInv, CheckoutFormTypeOK, Sheet
    <2>3. CASE i.live
      <3>1. i.county = sheet.county BY <2>3 DEF CheckoutFormInv, FieldSound
      <3>2. sheet' = [sheet EXCEPT !.estimate = [county |-> i.county, fee |-> i.fee]]
        BY <1>6, <2>3 DEF EstimateArrives
      <3>3. sheet'.estimate # NoEstimate
        BY <2>1, <3>2 DEF CheckoutFormInv, CheckoutFormTypeOK, Estimate, NoEstimate
      <3> QED BY <1>6, <2>1, <2>2, <3>1, <3>2, <3>3, PageSteps
              DEF EstimateArrives, CheckoutFormInv, CheckoutFormTypeOK, FormSound, Sheet
    <2>4. CASE ~i.live
      BY <1>6, <2>2, <2>4, PageSteps DEF EstimateArrives, CheckoutFormInv, CheckoutFormTypeOK, FormSound, Sheet
    <2> QED BY <2>3, <2>4
  <1> QED BY <1>1, <1>2, <1>3, <1>4, <1>5, <1>6

LEMMA PageLoaded ==
    ASSUME CheckoutFormInv, NEW county \in Counties \cup {NoCounty},
           NEW unavailable \in SUBSET Shops, OpenCheckout(county, unavailable)
    PROVE  CheckoutFormInv'
  <1> USE CheckoutFormAssumption DEF OpenCheckout, CheckoutFormInv
  <1>1. CheckoutFormTypeOK'
    <2>1. sheet' \in Sheet
      BY Blanks DEF buildCheckoutSummary, InBasket, Sheet
    <2>2. payCall' \in [PayCalls -> PayCall]
      BY RequestsEnd
    <2> QED BY <2>1, <2>2 DEF CheckoutFormTypeOK, marketVars
  <1>2. MyCalls' = {}
    BY RequestsEnd DEF MyCalls
  <1>3. FormSound'
    BY <1>2 DEF FormSound, buildCheckoutSummary, NoSheet
  <1>4. FeeAsAgreed' /\ OneOrderPerLine' /\ FieldSound' /\ LinesFresh'
    BY DEF FeeAsAgreed, OneOrderPerLine, FieldSound, LinesFresh, marketVars,
           buildCheckoutSummary, NoSheet
  <1>5. CallsSound'
    <2> SUFFICES ASSUME NEW c \in PayCalls
                 PROVE  /\ payCall'[c].pc = "done" => payCall'[c].mine
                        /\ payCall'[c].pc \in {"sent", "priced"} =>
                              /\ payCall'[c].county \in Counties /\ payCall'[c].fee \in DeliveryFees
                              /\ payCall'[c].agreed = [county |-> payCall'[c].county,
                                                      fee |-> payCall'[c].fee]
                        /\ payCall'[c].pc = "idle" => ~payCall'[c].mine
                        /\ payCall'[c].made \subseteq placed'
      BY DEF CallsSound
    <2>1. payCall'[c] = Deserted(c) BY DEF OpenCheckout
    <2> QED BY <2>1, RequestsEnd, DesertedSound
  <1> QED BY <1>1, <1>3, <1>4, <1>5

LEMMA OrderRequested ==
    ASSUME CheckoutFormInv, NEW c \in PayCalls, handlePay(c)
    PROVE  CheckoutFormInv'
  <1> USE CheckoutFormAssumption DEF handlePay, MayPay, CheckoutFormInv
  <1>1. sheet.estimate \in Estimate /\ sheet.estimate = [county |-> sheet.county, fee |-> sheet.estimate.fee]
    BY DEF CheckoutFormTypeOK, Estimate, Sheet
  <1>2. CheckoutFormTypeOK'
    <2>1. sheet' \in Sheet BY DEF CheckoutFormTypeOK, Sheet
    <2>2. payCall' \in [PayCalls -> PayCall]
      <3>1. [NoPayCall EXCEPT !.pc = "sent", !.county = sheet.county, !.fee = sheet.estimate.fee,
                              !.agreed = sheet.estimate, !.mine = TRUE] \in PayCall
        BY <1>1, Blanks DEF PayCall, CheckoutFormTypeOK, Sheet, Estimate
      <3> QED BY <3>1 DEF CheckoutFormTypeOK
    <2> QED BY <2>1, <2>2 DEF CheckoutFormTypeOK, marketVars
  <1>3. MyCalls = {} BY DEF FormSound
  <1>4. MyCalls' = {c}
    BY <1>3 DEF MyCalls, CheckoutFormTypeOK, NoPayCall
  <1>5. FormSound'
    BY <1>4 DEF FormSound, CheckoutFormTypeOK, Sheet
  <1>6. FeeAsAgreed' /\ OneOrderPerLine' /\ FieldSound' /\ LinesFresh'
    BY DEF FeeAsAgreed, OneOrderPerLine, FieldSound, LinesFresh, marketVars, CheckoutFormTypeOK, Sheet
  <1>7. CallsSound'
    BY <1>1 DEF CallsSound, NoPayCall, CheckoutFormTypeOK, marketVars, Estimate
  <1> QED BY <1>2, <1>5, <1>6, <1>7

\* A step of the server that keeps what the page waits for and makes no order.
LEMMA OrderHandled ==
    ASSUME CheckoutFormInv, NEW c \in PayCalls, PriceOrder(c) \/ RefuseOrders(c)
    PROVE  CheckoutFormInv'
  <1> USE CheckoutFormAssumption DEF CheckoutFormInv
  <1>1. UNCHANGED <<marketVars, sheet, timer, inquiries, placed>>
    BY DEF PriceOrder, RefuseOrders
  <1>2. PICK q \in PayCall :
          /\ payCall' = [payCall EXCEPT ![c] = q] /\ q.mine = payCall[c].mine
          /\ q.made \subseteq placed
          /\ q.pc = "idle" => ~q.mine
          /\ q.pc = "done" => q.mine
          /\ q.pc \in {"sent", "priced"} =>
                q.county \in Counties /\ q.fee \in DeliveryFees
                /\ q.agreed = [county |-> q.county, fee |-> q.fee]
    <2>1. payCall[c] \in PayCall BY DEF CheckoutFormTypeOK
    <2>2. CASE PriceOrder(c)
      <3> DEFINE q == [payCall[c] EXCEPT !.pc = "priced", !.shops = InBasket]
      <3>1. payCall' = [payCall EXCEPT ![c] = q]
        BY <2>1, <2>2 DEF PriceOrder, CheckoutFormTypeOK
      <3>2. q \in PayCall BY <2>1 DEF PayCall, InBasket
      <3> QED BY <2>1, <2>2, <3>1, <3>2 DEF PriceOrder, CallsSound, PayCall
    <2>3. CASE RefuseOrders(c)
      <3>1. {} \in SUBSET CheckoutOrder OBVIOUS
      <3>2. OrderAnswer(c, {}) \in PayCall /\ OrderAnswer(c, {}).mine = payCall[c].mine
            /\ OrderAnswer(c, {}).made \subseteq {}
            /\ OrderAnswer(c, {}).pc = IF payCall[c].mine THEN "done" ELSE "idle"
        BY <3>1, RequestsEnd
      <3>3. payCall' = [payCall EXCEPT ![c] = OrderAnswer(c, {})] BY <2>3 DEF RefuseOrders
      <3>4. payCall[c].mine \in BOOLEAN BY <2>1 DEF PayCall
      <3> QED BY <3>2, <3>3, <3>4
    <2> QED BY <2>2, <2>3
  <1>3. CheckoutFormTypeOK'
    BY <1>1, <1>2 DEF CheckoutFormTypeOK, marketVars
  <1>4. MyCalls' = MyCalls
    BY <1>2 DEF MyCalls, CheckoutFormTypeOK
  <1>5. FormSound' /\ FeeAsAgreed' /\ OneOrderPerLine' /\ FieldSound' /\ LinesFresh'
    BY <1>1, <1>4 DEF FormSound, FeeAsAgreed, OneOrderPerLine, FieldSound, LinesFresh, marketVars
  <1>6. CallsSound'
    BY <1>1, <1>2 DEF CallsSound, CheckoutFormTypeOK
  <1> QED BY <1>3, <1>5, <1>6

LEMMA OrdersMade ==
    ASSUME CheckoutFormInv, NEW c \in PayCalls, PlaceOrders(c)
    PROVE  CheckoutFormInv'
  <1> USE CheckoutFormAssumption DEF PlaceOrders, CheckoutFormInv
  <1> DEFINE shops == payCall[c].shops
  <1>1. /\ payCall[c].county \in Counties /\ payCall[c].fee \in DeliveryFees
        /\ payCall[c].agreed = [county |-> payCall[c].county, fee |-> payCall[c].fee]
        /\ payCall[c].agreed \in Estimate
    BY DEF CallsSound, Estimate
  <1>2. \A s \in shops : s \in Shops /\ basket[s] \in 1 .. MaxLineIds /\ basket[s] <= lineIds
    BY DEF InBasket, CheckoutFormTypeOK, LinesFresh
  <1>3. OrdersOf(c) \subseteq CheckoutOrder
    BY <1>1, <1>2 DEF OrdersOf, CheckoutOrder, DeliveryFees
  <1>4. \A o \in OrdersOf(c) : /\ o.shop \in shops /\ o.line = basket[o.shop]
                               /\ o.agreed = [county |-> o.county, fee |-> o.fee]
    BY <1>1 DEF OrdersOf
  <1>5. \A o, p \in OrdersOf(c) : o.shop = p.shop => o = p
    BY DEF OrdersOf
  <1>6. placed' = placed \cup OrdersOf(c) /\ placed' \subseteq CheckoutOrder
    BY <1>3 DEF CheckoutFormTypeOK
  <1>7. payCall' = [payCall EXCEPT ![c] = OrderAnswer(c, OrdersOf(c))]
    OBVIOUS
  <1>8. CheckoutFormTypeOK'
    <2>1. basket' \in [Shops -> 0 .. MaxLineIds] BY DEF CheckoutFormTypeOK
    <2>2. OrderAnswer(c, OrdersOf(c)) \in PayCall
      BY <1>3, RequestsEnd
    <2> QED BY <1>6, <1>7, <2>1, <2>2 DEF CheckoutFormTypeOK
  <1>9. MyCalls' = MyCalls
    BY <1>3, <1>7, RequestsEnd DEF MyCalls, CheckoutFormTypeOK
  <1>10. FormSound'
    BY <1>6, <1>9 DEF FormSound
  <1>11. FeeAsAgreed'
    BY <1>4, <1>6 DEF FeeAsAgreed
  <1>12. OneOrderPerLine'
    <2>1. ASSUME NEW o \in placed, NEW p \in OrdersOf(c) PROVE o.line # p.line
      <3>1. p.shop \in Shops /\ p.line = basket[p.shop] BY <1>2, <1>4
      <3>2. basket[p.shop] # o.line BY <3>1 DEF LinesFresh
      <3> QED BY <3>1, <3>2
    <2>2. ASSUME NEW o \in OrdersOf(c), NEW p \in OrdersOf(c), o.line = p.line PROVE o = p
      <3>1. /\ o.shop \in Shops /\ o.line = basket[o.shop] /\ basket[o.shop] # 0
            /\ p.shop \in Shops /\ p.line = basket[p.shop]
        <4>1. /\ o.shop \in shops /\ o.line = basket[o.shop]
              /\ p.shop \in shops /\ p.line = basket[p.shop]
          BY <2>2, <1>4
        <4>2. basket[o.shop] # 0 BY <4>1, <1>2
        <4> QED BY <4>1, <4>2, <1>2
      <3>2. o.shop = p.shop BY <2>2, <3>1 DEF LinesFresh
      <3> QED BY <1>5, <3>2
    <2> QED BY <1>6, <2>1, <2>2 DEF OneOrderPerLine
  <1>13. FieldSound' BY DEF FieldSound
  <1>14. CallsSound'
    BY <1>3, <1>6, <1>7, RequestsEnd DEF CallsSound, CheckoutFormTypeOK
  <1>15. LinesFresh'
    <2>1. \A s \in Shops : basket'[s] = IF s \in shops THEN 0 ELSE basket[s]
      OBVIOUS
    <2>2. \A s \in Shops : basket'[s] <= lineIds'
      BY <2>1 DEF LinesFresh, CheckoutFormTypeOK
    <2>3. \A s, t \in Shops : basket'[s] # 0 /\ basket'[s] = basket'[t] => s = t
      BY <2>1 DEF LinesFresh
    <2>4. ASSUME NEW o \in placed PROVE o.line <= lineIds' /\ \A s \in Shops : basket'[s] # o.line
      BY <2>1 DEF LinesFresh, CheckoutFormTypeOK, CheckoutOrder
    <2>5. ASSUME NEW o \in OrdersOf(c)
          PROVE o.line <= lineIds' /\ \A s \in Shops : basket'[s] # o.line
      <3>1. /\ o.shop \in Shops /\ o.shop \in shops
            /\ o.line = basket[o.shop] /\ o.line # 0 /\ o.line <= lineIds
        <4>1. o.shop \in shops /\ o.line = basket[o.shop] BY <2>5, <1>4
        <4>2. basket[o.shop] # 0 /\ basket[o.shop] <= lineIds BY <4>1, <1>2
        <4> QED BY <4>1, <4>2, <1>2
      <3>2. ASSUME NEW s \in Shops, basket'[s] = o.line PROVE FALSE
        <4>1. s \notin shops /\ basket[s] = o.line BY <2>1, <3>1, <3>2
        <4>2. s = o.shop BY <3>1, <4>1 DEF LinesFresh
        <4> QED BY <3>1, <4>1, <4>2
      <3> QED BY <3>1, <3>2
    <2> QED BY <1>6, <2>2, <2>3, <2>4, <2>5 DEF LinesFresh
  <1> QED BY <1>8, <1>10, <1>11, <1>12, <1>13, <1>14, <1>15

\* The request ends for the page: it has been answered, or given up.
LEMMA OrderEnds ==
    ASSUME CheckoutFormInv, NEW c \in PayCalls, OrdersArrive(c) \/ LoseConnection(c)
    PROVE  CheckoutFormInv'
  <1> USE CheckoutFormAssumption DEF CheckoutFormInv
  <1>1. UNCHANGED <<marketVars, timer, inquiries, placed>>
    BY DEF OrdersArrive, LoseConnection
  <1>2. PICK made \in SUBSET placed : sheet' = AfterOrder(made)
    BY DEF OrdersArrive, LoseConnection, CallsSound
  <1>3. c \in MyCalls
    BY DEF OrdersArrive, LoseConnection, CallsSound, MyCalls
  <1>4. MyCalls = {c}
    BY <1>3 DEF FormSound
  <1>5. PICK q \in PayCall :
          /\ payCall' = [payCall EXCEPT ![c] = q]
          /\ ~q.mine /\ q.pc # "done" /\ q.made \subseteq placed
          /\ q.pc \in {"sent", "priced"} =>
                q.county \in Counties /\ q.fee \in DeliveryFees
                /\ q.agreed = [county |-> q.county, fee |-> q.fee]
    <2>1. payCall[c] \in PayCall BY DEF CheckoutFormTypeOK
    <2>2. CASE OrdersArrive(c)
      BY <2>2, Blanks DEF OrdersArrive, NoPayCall
    <2>3. CASE LoseConnection(c)
      BY <2>3, RequestsEnd, DesertedSound DEF LoseConnection
    <2> QED BY <2>2, <2>3
  <1>6. MyCalls' = {}
    BY <1>4, <1>5 DEF MyCalls, CheckoutFormTypeOK
  <1>7. CheckoutFormTypeOK'
    <2>1. sheet' \in Sheet BY <1>2 DEF AfterOrder, CheckoutFormTypeOK, Sheet
    <2> QED BY <1>1, <1>5, <2>1 DEF CheckoutFormTypeOK, marketVars
  <1>8. FormSound'
    <2>1. sheet.stage = "creating" /\ sheet.made = {} /\ sheet \in Sheet
      BY <1>4 DEF FormSound, CheckoutFormTypeOK
    <2>2. CASE made = {}
      BY <1>1, <1>2, <1>6, <2>1, <2>2 DEF FormSound, AfterOrder, Sheet
    <2>3. CASE made # {}
      BY <1>1, <1>2, <1>6, <2>1, <2>3 DEF FormSound, AfterOrder, Sheet
    <2> QED BY <2>2, <2>3
  <1>9. FieldSound'
    BY <1>1, <1>2 DEF FieldSound, AfterOrder, CheckoutFormTypeOK, Sheet
  <1>10. FeeAsAgreed' /\ OneOrderPerLine' /\ LinesFresh'
    BY <1>1 DEF FeeAsAgreed, OneOrderPerLine, LinesFresh, marketVars
  <1>11. CallsSound'
    BY <1>1, <1>5 DEF CallsSound, CheckoutFormTypeOK
  <1> QED BY <1>7, <1>8, <1>9, <1>10, <1>11

LEMMA PaymentOpens ==
    ASSUME CheckoutFormInv, OpenPayment
    PROVE  CheckoutFormInv'
  <1> USE DEF OpenPayment, CheckoutFormInv
  <1>1. sheet' = [sheet EXCEPT !.stage = "paying"] /\ sheet \in Sheet /\ sheet' \in Sheet
    BY DEF CheckoutFormTypeOK, Sheet
  <1>2. CheckoutFormTypeOK'
    BY <1>1 DEF CheckoutFormTypeOK, marketVars
  <1>3. MyCalls' = MyCalls
    BY DEF MyCalls
  <1>4. FormSound'
    BY <1>1, <1>3 DEF FormSound, Sheet
  <1>5. FieldSound'
    BY <1>1 DEF FieldSound, Sheet
  <1>6. FeeAsAgreed' /\ OneOrderPerLine' /\ CallsSound' /\ LinesFresh'
    BY DEF FeeAsAgreed, OneOrderPerLine, CallsSound, LinesFresh, marketVars
  <1> QED BY <1>2, <1>4, <1>5, <1>6

LEMMA MarketMoves ==
    ASSUME CheckoutFormInv,
           \/ \E s \in Shops : FillBasket(s) \/ EmptyBasket(s)
           \/ \E county \in Counties, fee \in DeliveryFees \cup {Unpriced} :
                  DeployTariff(county, fee)
    PROVE  CheckoutFormInv'
  <1> USE CheckoutFormAssumption DEF CheckoutFormInv
  <1>1. UNCHANGED <<sheet, timer, inquiries, payCall, placed>>
    BY DEF FillBasket, EmptyBasket, DeployTariff
  <1>2. FormSound' /\ FeeAsAgreed' /\ OneOrderPerLine' /\ FieldSound' /\ CallsSound'
    BY <1>1 DEF FormSound, MyCalls, FeeAsAgreed, OneOrderPerLine, FieldSound, CallsSound
  <1>3. ASSUME NEW s \in Shops, FillBasket(s) PROVE CheckoutFormTypeOK' /\ LinesFresh'
    <2>1. lineIds + 1 \in 1 .. MaxLineIds /\ lineIds \in Nat
      BY <1>3 DEF FillBasket, CheckoutFormTypeOK
    <2>2. CheckoutFormTypeOK'
      BY <1>1, <1>3, <2>1 DEF FillBasket, CheckoutFormTypeOK
    <2>3. \A t \in Shops : basket'[t] = IF t = s THEN lineIds + 1 ELSE basket[t]
      BY <1>3 DEF FillBasket, CheckoutFormTypeOK
    <2>4. \A t \in Shops : basket[t] \in Nat /\ basket[t] <= lineIds
      BY DEF CheckoutFormTypeOK, LinesFresh
    <2>5. \A o \in placed : o.line \in Nat BY DEF CheckoutFormTypeOK, CheckoutOrder
    <2>6. LinesFresh'
      BY <1>1, <1>3, <2>1, <2>3, <2>4, <2>5 DEF FillBasket, LinesFresh
    <2> QED BY <2>2, <2>6
  <1>4. ASSUME NEW s \in Shops, EmptyBasket(s) PROVE CheckoutFormTypeOK' /\ LinesFresh'
    <2>1. CheckoutFormTypeOK'
      BY <1>1, <1>4 DEF EmptyBasket, CheckoutFormTypeOK
    <2>2. \A t \in Shops : basket'[t] = IF t = s THEN 0 ELSE basket[t]
      BY <1>4 DEF EmptyBasket, CheckoutFormTypeOK
    <2>3. \A o \in placed : o.line \in Nat \ {0} BY DEF CheckoutFormTypeOK, CheckoutOrder
    <2>4. LinesFresh'
      BY <1>1, <1>4, <2>2, <2>3 DEF EmptyBasket, LinesFresh, CheckoutFormTypeOK
    <2> QED BY <2>1, <2>4
  <1>5. ASSUME NEW county \in Counties, NEW fee \in DeliveryFees \cup {Unpriced},
               DeployTariff(county, fee)
        PROVE  CheckoutFormTypeOK' /\ LinesFresh'
    BY <1>1, <1>5 DEF DeployTariff, CheckoutFormTypeOK, LinesFresh
  <1> QED BY <1>2, <1>3, <1>4, <1>5

LEMMA CheckoutFormStays == CheckoutFormInv /\ [CheckoutFormNext]_checkoutVars => CheckoutFormInv'
  <1> SUFFICES ASSUME CheckoutFormInv, [CheckoutFormNext]_checkoutVars PROVE CheckoutFormInv'
    OBVIOUS
  <1>1. CASE CheckoutFormNext
    BY <1>1, FormFilled, PageLoaded, OrderRequested, OrderHandled, OrdersMade, OrderEnds,
       PaymentOpens, MarketMoves DEF CheckoutFormNext
  <1>2. CASE UNCHANGED checkoutVars
    BY <1>2 DEF checkoutVars, CheckoutFormInv, CheckoutFormTypeOK, FormSound, MyCalls,
                FeeAsAgreed, OneOrderPerLine, FieldSound, CallsSound, LinesFresh
  <1> QED BY <1>1, <1>2

\* Whatever the counties, sellers and requests are: the variables keep their types,
\* every order costs the delivery that was ticked for it and goes where the buyer
\* said, a line of the cart is ordered once, and the page shows the fee of the county
\* in the field, one request at a time, and orders that exist.
THEOREM CheckoutPageSound ==
    CheckoutFormSpec => [](CheckoutFormTypeOK /\ FeeAsAgreed /\ OneOrderPerLine /\ FormSound)
  <1>1. CheckoutFormInv => CheckoutFormTypeOK /\ FeeAsAgreed /\ OneOrderPerLine /\ FormSound
    BY DEF CheckoutFormInv
  <1> QED BY <1>1, CheckoutFormStart, CheckoutFormStays, PTL DEF CheckoutFormSpec
-------------------------------------------------------------------------------
(***************************************************************************)
(* The answer about cookies (CookieConsent).  Both copies of an answer     *)
(* that storage took are that answer or gone, a page measures exactly      *)
(* while it shows "all", and a page that does so against what is stored    *)
(* is about to be told.                                                    *)
(***************************************************************************)
CopiesSound ==
    /\ storage = "blocked" => stored = Removed
    /\ kept => /\ {stored, mirror} \subseteq {Removed, latest}
               /\ latest = "unset" <=> stored = Removed /\ mirror = Removed

Withdrawn == storage # "blocked" /\ (stored = "essential" \/ (kept /\ latest = "essential"))

PagesSound ==
    \A p \in Pages :
        /\ pages[p].view = "closed" => pages[p] = NoPage
        /\ Tracks(p) <=> pages[p].view = "all"
        /\ kept /\ p \notin unheard /\ pages[p].view # "closed" => pages[p].view = latest
        /\ Withdrawn /\ pages[p].view = "all" => p \in events

ConsentInv == ConsentTypeOK /\ CopiesSound /\ PagesSound

LEMMA ConsentStart == ConsentInit => ConsentInv
  <1> SUFFICES ASSUME ConsentInit PROVE ConsentInv
    OBVIOUS
  <1>1. ConsentTypeOK
    <2>1. NoPage \in ConsentPage BY DEF NoPage, ConsentPage
    <2>2. choices \in 0 .. MaxChoices BY ConsentAssumption DEF ConsentInit
    <2> QED BY <2>1, <2>2 DEF ConsentInit, ConsentTypeOK, ConsentState
  <1>2. CopiesSound
    BY DEF ConsentInit, CopiesSound, Removed
  <1>3. PagesSound
    BY DEF ConsentInit, PagesSound, Withdrawn, Tracks, NoPage, Removed
  <1> QED BY <1>1, <1>2, <1>3 DEF ConsentInv

\* What a page makes of an answer it reads.
LEMMA PageReads ==
    ASSUME ConsentInv, NEW p \in Pages, NEW consent \in ConsentState
    PROVE  LET page == ConsentGatedAnalytics(p, consent)
           IN  /\ page \in ConsentPage /\ page.view = consent
               /\ page.loaded /\ ~page.barred <=> consent = "all"
  <1>1. pages[p] \in ConsentPage /\ (Tracks(p) <=> pages[p].view = "all")
    BY DEF ConsentInv, ConsentTypeOK, PagesSound
  <1>2. CASE pages[p].view = consent
    BY <1>1, <1>2 DEF ConsentGatedAnalytics, Tracks
  <1>3. CASE pages[p].view # consent
    BY <1>1, <1>3 DEF ConsentGatedAnalytics, ConsentPage
  <1> QED BY <1>2, <1>3

\* An answer that storage took is the one that is read.
LEMMA AnswerRead ==
    ASSUME ConsentInv
    PROVE  /\ Consent \in ConsentState
           /\ kept => Consent = latest
           /\ storage # "blocked" /\ stored # Removed => Consent = stored
           /\ Withdrawn => Consent = "essential"
  BY DEF ConsentInv, ConsentTypeOK, CopiesSound, Withdrawn, Consent, readConsent, parse,
         ConsentState, ConsentChoice, Removed

LEMMA PageRenders ==
    ASSUME ConsentInv, NEW p \in Pages, Render(p)
    PROVE  ConsentInv'
  <1> DEFINE page == ConsentGatedAnalytics(p, Consent)
  <1>1. /\ page \in ConsentPage /\ page.view = Consent
        /\ page.loaded /\ ~page.barred <=> Consent = "all"
    BY PageReads, AnswerRead
  <1>2. pages' = [pages EXCEPT ![p] = page] /\ pages \in [Pages -> ConsentPage]
    BY DEF Render, ConsentInv, ConsentTypeOK
  <1>3. analytics' \in BOOLEAN
    BY DEF Render, clearAnalyticsCookies, ConsentInv, ConsentTypeOK
  <1> HIDE DEF page
  <1>4. ConsentTypeOK' /\ CopiesSound'
    BY <1>1, <1>2, <1>3 DEF Render, ConsentInv, ConsentTypeOK, CopiesSound
  <1>5. Withdrawn' <=> Withdrawn
    BY DEF Render, Withdrawn
  <1>6. PagesSound'
    BY <1>1, <1>2, <1>5, AnswerRead
       DEF Render, ConsentInv, PagesSound, Tracks, ConsentState, ConsentChoice
  <1> QED BY <1>4, <1>6 DEF ConsentInv

LEMMA AnswerGiven ==
    ASSUME ConsentInv, NEW p \in Pages, NEW choice \in ConsentChoice, writeConsent(p, choice)
    PROVE  ConsentInv'
  <1> DEFINE read == readConsent(stored', mirror')
             page == ConsentGatedAnalytics(p, read)
  <1>1. /\ stored' = (IF storage = "works" THEN choice ELSE stored)
        /\ mirror' = choice /\ latest' = choice /\ kept' = (storage # "full")
        /\ storage' = storage /\ unheard' = OpenPages \ {p}
        /\ events' = (IF stored' = stored THEN events ELSE OpenPages) \ {p}
        /\ pages' = [pages EXCEPT ![p] = page]
        /\ analytics' = clearAnalyticsCookies(p, read)
        /\ choices < MaxChoices /\ choices' = choices + 1
    BY DEF writeConsent
  <1>2. CopiesSound'
    BY <1>1, ConsentAssumption
       DEF ConsentInv, ConsentTypeOK, CopiesSound, ConsentChoice, Removed, StorageKinds
  <1>3. /\ read \in ConsentState
        /\ kept' => read = choice
        /\ Withdrawn' => read = "essential"
    BY <1>1, <1>2
       DEF ConsentInv, ConsentTypeOK, CopiesSound, Withdrawn, readConsent, parse,
           ConsentState, ConsentChoice, Removed
  <1>4. /\ page \in ConsentPage /\ page.view = read
        /\ page.loaded /\ ~page.barred <=> read = "all"
    BY <1>3, PageReads
  <1>5. analytics' \in BOOLEAN
    BY <1>1 DEF clearAnalyticsCookies, ConsentInv, ConsentTypeOK
  <1> HIDE DEF page, read
  <1>6. ConsentTypeOK'
    BY <1>1, <1>4, <1>5, ConsentAssumption
       DEF ConsentInv, ConsentTypeOK, OpenPages, ConsentState, ConsentChoice
  <1>7. \A q \in Pages \ {p} : pages'[q] = pages[q]
    BY <1>1 DEF ConsentInv, ConsentTypeOK
  <1>8. pages'[p] = page
    BY <1>1 DEF ConsentInv, ConsentTypeOK
  <1>9. \A q \in Pages \ {p} : Withdrawn' /\ pages[q].view = "all" => q \in events'
    <2> SUFFICES ASSUME NEW q \in Pages \ {p}, Withdrawn', pages[q].view = "all"
                 PROVE  q \in events'
      OBVIOUS
    <2>1. q \in OpenPages BY DEF OpenPages
    <2>2. CASE stored' # stored BY <1>1, <2>1, <2>2
    <2>3. CASE stored' = stored
      <3>1. storage # "blocked" /\ stored = "essential"
        BY <1>1, <2>3, ConsentAssumption
           DEF Withdrawn, ConsentInv, ConsentTypeOK, ConsentChoice, StorageKinds
      <3>2. q \in events BY <3>1 DEF Withdrawn, ConsentInv, PagesSound
      <3> QED BY <1>1, <2>3, <3>2
    <2> QED BY <2>2, <2>3
  <1>10. PagesSound'
    <2> SUFFICES ASSUME NEW q \in Pages
                 PROVE  /\ pages'[q].view = "closed" => pages'[q] = NoPage
                        /\ Tracks(q)' <=> pages'[q].view = "all"
                        /\ kept' /\ q \notin unheard' /\ pages'[q].view # "closed"
                              => pages'[q].view = latest'
                        /\ Withdrawn' /\ pages'[q].view = "all" => q \in events'
      BY DEF PagesSound
    <2>1. CASE q = p
      BY <1>1, <1>3, <1>4, <1>8, <2>1 DEF Tracks, ConsentState, ConsentChoice
    <2>2. CASE q # p
      BY <1>1, <1>7, <1>9, <2>2 DEF ConsentInv, PagesSound, Tracks, OpenPages
    <2> QED BY <2>1, <2>2
  <1> QED BY <1>2, <1>6, <1>10 DEF ConsentInv

LEMMA PageCloses ==
    ASSUME ConsentInv, NEW p \in Pages, ClosePage(p) \/ WriteAnalyticsCookies(p)
    PROVE  ConsentInv'
  <1>1. CASE ClosePage(p)
    <2>1. /\ pages \in [Pages -> ConsentPage] /\ pages' = [pages EXCEPT ![p] = NoPage]
          /\ NoPage \in ConsentPage
      BY <1>1 DEF ClosePage, ConsentInv, ConsentTypeOK, ConsentPage, NoPage
    <2>2. ConsentTypeOK' /\ CopiesSound'
      BY <1>1, <2>1 DEF ClosePage, ConsentInv, ConsentTypeOK, CopiesSound
    <2>3. Withdrawn' <=> Withdrawn BY <1>1 DEF ClosePage, Withdrawn
    <2>4. PagesSound'
      BY <1>1, <2>1, <2>3 DEF ClosePage, ConsentInv, PagesSound, Tracks, NoPage
    <2> QED BY <2>2, <2>4 DEF ConsentInv
  <1>2. CASE WriteAnalyticsCookies(p)
    BY <1>2 DEF WriteAnalyticsCookies, ConsentInv, ConsentTypeOK, CopiesSound, PagesSound,
                Withdrawn, Tracks
  <1> QED BY <1>1, <1>2

\* What happens behind the back of the pages.
LEMMA BrowserMoves ==
    ASSUME ConsentInv,
           ClearStorage \/ ClearCookies \/ \E kind \in Storages : StorageTurns(kind)
    PROVE  ConsentInv'
  <1>1. CASE ClearStorage
    <2>1. CopiesSound' /\ ConsentTypeOK'
      BY <1>1 DEF ClearStorage, Cleared, ConsentInv, CopiesSound, ConsentTypeOK, ConsentState,
                  ConsentChoice, Removed, OpenPages
    <2>2. Withdrawn' => Withdrawn
      BY <1>1 DEF ClearStorage, Cleared, Withdrawn, Removed
    <2>3. PagesSound'
      BY <1>1, <2>2 DEF ClearStorage, Cleared, ConsentInv, PagesSound, Tracks, OpenPages
    <2> QED BY <2>1, <2>3 DEF ConsentInv
  <1>2. CASE ClearCookies
    <2>1. CopiesSound' /\ ConsentTypeOK'
      BY <1>2 DEF ClearCookies, Cleared, ConsentInv, CopiesSound, ConsentTypeOK, ConsentState,
                  ConsentChoice, Removed, OpenPages
    <2>2. Withdrawn' => Withdrawn
      BY <1>2 DEF ClearCookies, Cleared, Withdrawn, Removed
    <2>3. PagesSound'
      BY <1>2, <2>2 DEF ClearCookies, Cleared, ConsentInv, PagesSound, Tracks, OpenPages
    <2> QED BY <2>1, <2>3 DEF ConsentInv
  <1>3. ASSUME NEW kind \in Storages, StorageTurns(kind) PROVE ConsentInv'
    BY <1>3 DEF StorageTurns, ConsentInv, CopiesSound, ConsentTypeOK, PagesSound, Withdrawn, Tracks
  <1> QED BY <1>1, <1>2, <1>3

LEMMA ConsentStays == ConsentInv /\ [ConsentNext]_consentVars => ConsentInv'
  <1> SUFFICES ASSUME ConsentInv, [ConsentNext]_consentVars PROVE ConsentInv'
    OBVIOUS
  <1>1. CASE ConsentNext
    BY <1>1, PageRenders, AnswerGiven, PageCloses, BrowserMoves
       DEF ConsentNext, OpenPage, useConsent, HearStorage, CookieBanner, CookiePreferencesDialog
  <1>2. CASE UNCHANGED consentVars
    BY <1>2 DEF consentVars, ConsentInv, ConsentTypeOK, CopiesSound, PagesSound, Withdrawn, Tracks
  <1> QED BY <1>1, <1>2

LEMMA ConsentObeyed == ConsentInv => ConsentTypeOK /\ ChoiceSurvives /\ ConsentHonoured
  <1> SUFFICES ASSUME ConsentInv PROVE ChoiceSurvives /\ ConsentHonoured
    BY DEF ConsentInv
  <1>1. ChoiceSurvives BY AnswerRead DEF ChoiceSurvives
  <1>2. ConsentHonoured
    BY DEF ConsentHonoured, ConsentInv, PagesSound, Withdrawn
  <1> QED BY <1>1, <1>2

\* Whatever the storage is like and however many tabs are open: an answer that
\* storage took is the one that is read until both copies are cleared, and Google
\* Analytics runs only in tabs that are about to be told of an answer against it, or
\* that nothing in the browser tells.
THEOREM CookieConsentSound ==
    ConsentSpec => [](ConsentTypeOK /\ ChoiceSurvives /\ ConsentHonoured)
  BY ConsentStart, ConsentStays, ConsentObeyed, PTL DEF ConsentSpec
-------------------------------------------------------------------------------
(***************************************************************************)
(* The notices (Notifications).  What a request of the bell has gathered   *)
(* is true as long as no row has changed since it was asked.               *)
(***************************************************************************)
PollSound ==
    poll.quiet =>
        /\ poll.listed => poll.list = View(ListSize)
        /\ poll.count # NotYet => poll.count = Cardinality(unread)

NoticesInv == NoticesTypeOK /\ EmailHasNotice /\ BellHonest /\ PollSound

LEMMA NoticesCounted ==
    ASSUME NoticesTypeOK
    PROVE  /\ Cardinality(unread) \in Nat
           /\ \A size \in Nat : Newest(size) \subseteq NoticeIds /\ View(size) \in Views
  <1>1. IsFiniteSet(1 .. created)
    BY FS_Interval DEF NoticesTypeOK
  <1>2. unread \in SUBSET (1 .. created)
    BY DEF NoticesTypeOK
  <1>3. Cardinality(unread) \in Nat
    BY <1>1, <1>2, FS_Subset, FS_CardinalityType
  <1>4. ASSUME NEW size \in Nat PROVE Newest(size) \subseteq NoticeIds /\ View(size) \in Views
    BY NoticesAssumption DEF NoticesTypeOK, Newest, View, Views, NoticeIds
  <1> QED BY <1>3, <1>4

LEMMA NothingShown == NoView \in Views /\ NoPoll \in Poll /\ NoBell \in Bell /\ NoCentre \in Centre
  <1>1. NoView \in Views BY DEF NoView, Views
  <1> QED BY <1>1 DEF NoPoll, NoBell, NoCentre, NotYet, Poll, Bell, Centre

LEMMA NoticesStart == NoticesInit => NoticesInv
  <1> SUFFICES ASSUME NoticesInit PROVE NoticesInv
    OBVIOUS
  <1>1. NoticesTypeOK
    BY NothingShown, NoticesAssumption DEF NoticesInit, NoticesTypeOK
  <1>2. EmailHasNotice /\ BellHonest /\ PollSound
    BY DEF NoticesInit, EmailHasNotice, BellHonest, PollSound, NoPoll, NoBell
  <1> QED BY <1>1, <1>2 DEF NoticesInv

\* A step that leaves the rows alone keeps what is true of the request and the bell.
LEMMA RowsKept ==
    ASSUME NoticesInv, UNCHANGED <<noticeRows, poll, bell>>
    PROVE  EmailHasNotice' /\ BellHonest' /\ PollSound'
  BY DEF noticeRows, NoticesInv, EmailHasNotice, BellHonest, BellFresh, PollSound, View, Newest

\* A step that changes them vouches for nothing that was read before.
LEMMA RowsChanged ==
    ASSUME NoticesInv, RowsChange
    PROVE  /\ poll' \in Poll /\ bell' \in Bell
           /\ BellHonest' /\ PollSound'
  BY DEF Poll, Bell, RowsChange, NoticesInv, NoticesTypeOK, BellHonest, PollSound

LEMMA NoticeWritten ==
    ASSUME NoticesInv, NEW shouldEmail \in BOOLEAN, notifyUser(shouldEmail)
    PROVE  NoticesInv'
  <1>1. created \in Nat /\ created + 1 \in NoticeIds /\ created' = created + 1
    BY NoticesAssumption DEF notifyUser, NoticesInv, NoticesTypeOK, NoticeIds
  <1>2. created + 1 \notin emailed
    BY <1>1 DEF NoticesInv, EmailHasNotice
  <1>3. unread' \subseteq 1 .. created' /\ EmailHasNotice'
    BY <1>1, <1>2 DEF notifyUser, NoticesInv, NoticesTypeOK, EmailHasNotice
  <1>4. NoticesTypeOK'
    BY <1>1, <1>3, RowsChanged DEF notifyUser, NoticesInv, NoticesTypeOK, NoticeIds
  <1> QED BY <1>3, <1>4, RowsChanged DEF notifyUser, NoticesInv

LEMMA EmailSent ==
    ASSUME NoticesInv, ServerStops \/ \E n \in NoticeIds : sendEmail(n)
    PROVE  NoticesInv'
  <1>1. /\ UNCHANGED <<created, unread, noticeViews>>
        /\ emailing' \subseteq emailing /\ emailed' \subseteq emailed \cup (emailing \ emailing')
    BY DEF ServerStops, sendEmail
  <1>2. NoticesTypeOK' /\ EmailHasNotice'
    BY <1>1 DEF noticeViews, NoticesInv, NoticesTypeOK, EmailHasNotice
  <1>3. BellHonest' /\ PollSound'
    BY <1>1 DEF noticeViews, NoticesInv, BellHonest, BellFresh, PollSound, View, Newest
  <1> QED BY <1>2, <1>3 DEF NoticesInv

LEMMA PollBegins ==
    ASSUME NoticesInv, useNotifications \/ PollFails
    PROVE  NoticesInv'
  <1>1. /\ UNCHANGED <<noticeRows, tabVisible, bell, centre, clicks>>
        /\ poll' \in {Asked(FALSE), Asked(TRUE), NoPoll}
    BY DEF useNotifications, PollFails
  <1>2. poll' \in Poll /\ ~poll'.listed /\ poll'.count = NotYet
    <2>1. Asked(FALSE) \in Poll /\ Asked(TRUE) \in Poll
      BY NothingShown DEF Asked, Poll
    <2>2. /\ ~Asked(FALSE).listed /\ ~Asked(TRUE).listed /\ ~NoPoll.listed
          /\ Asked(FALSE).count = NotYet /\ Asked(TRUE).count = NotYet /\ NoPoll.count = NotYet
      BY DEF Asked, NoPoll
    <2> QED BY <1>1, <2>1, <2>2, NothingShown
  <1>3. NoticesTypeOK'
    BY <1>1, <1>2 DEF noticeRows, NoticesInv, NoticesTypeOK
  <1>4. EmailHasNotice' /\ BellHonest' /\ PollSound'
    BY <1>1, <1>2 DEF noticeRows, NoticesInv, EmailHasNotice, BellHonest, BellFresh, PollSound,
                      View, Newest
  <1> QED BY <1>3, <1>4 DEF NoticesInv

LEMMA PollGathers ==
    ASSUME NoticesInv, findNewest \/ getUnreadNotificationCount
    PROVE  NoticesInv'
  <1>1. UNCHANGED <<noticeRows, tabVisible, bell, centre, clicks>>
    BY DEF findNewest, getUnreadNotificationCount
  <1>2. View(ListSize) \in Views /\ Cardinality(unread) \in Nat
    BY NoticesCounted, NoticesAssumption DEF NoticesInv
  <1>3. View(ListSize)' = View(ListSize) /\ unread' = unread
    BY <1>1 DEF noticeRows, View, Newest
  <1>4. NoticesTypeOK'
    BY <1>1, <1>2
       DEF noticeRows, findNewest, getUnreadNotificationCount, NoticesInv, NoticesTypeOK, Poll
  <1>5. PollSound'
    BY <1>2, <1>3 DEF findNewest, getUnreadNotificationCount, NoticesInv, NoticesTypeOK,
                       Poll, PollSound
  <1>6. EmailHasNotice' /\ BellHonest'
    BY <1>1, <1>3 DEF noticeRows, NoticesInv, EmailHasNotice, BellHonest, BellFresh
  <1> QED BY <1>4, <1>5, <1>6 DEF NoticesInv

LEMMA BellRings ==
    ASSUME NoticesInv, PollAnswered
    PROVE  NoticesInv'
  <1>1. UNCHANGED <<noticeRows, tabVisible, centre, clicks>> /\ poll' = NoPoll
    BY DEF PollAnswered
  <1>2. View(ListSize)' = View(ListSize) /\ unread' = unread
    BY <1>1 DEF noticeRows, View, Newest
  <1>3. poll.count \in Nat
    BY DEF PollAnswered, AnswerReady, NoticesInv, NoticesTypeOK, Poll
  <1>4. NoticesTypeOK'
    BY <1>1, <1>3, NothingShown
       DEF noticeRows, PollAnswered, NoticesInv, NoticesTypeOK, Poll, Bell
  <1>5. BellHonest'
    BY <1>2 DEF PollAnswered, AnswerReady, NoticesInv, BellHonest, BellFresh, PollSound
  <1>6. PollSound' /\ EmailHasNotice'
    BY <1>1 DEF noticeRows, NoticesInv, EmailHasNotice, PollSound, NoPoll
  <1> QED BY <1>4, <1>5, <1>6 DEF NoticesInv

\* The centre, the tab and the clicks that are on their way.
LEMMA UserReads ==
    ASSUME NoticesInv,
           \/ SwitchTab \/ NotificationsPage \/ LeaveCentre \/ MarkAllReadButton
           \/ \E n \in NoticeIds : handleClick(n)
           \/ \E click \in clicks : LoseClick(click)
    PROVE  NoticesInv'
  <1>1. UNCHANGED <<noticeRows, poll, bell>>
    BY DEF SwitchTab, NotificationsPage, LeaveCentre, MarkAllReadButton, handleClick, LoseClick
  <1>2. View(PageSize) \in Views
    BY NoticesCounted, NoticesAssumption DEF NoticesInv
  <1>3. tabVisible' \in BOOLEAN /\ clicks' \subseteq NoticeIds \cup {AllOfThem}
    BY DEF SwitchTab, NotificationsPage, LeaveCentre, MarkAllReadButton, handleClick, LoseClick,
           NoticesInv, NoticesTypeOK
  <1>4. centre' \in Centre
    <2>1. [open |-> TRUE, list |-> View(PageSize)] \in Centre
      BY <1>2 DEF Centre
    <2>2. centre' \in {centre, NoCentre, [open |-> TRUE, list |-> View(PageSize)]}
      BY DEF SwitchTab, NotificationsPage, LeaveCentre, MarkAllReadButton, handleClick, LoseClick
    <2> QED BY <2>1, <2>2, NothingShown DEF NoticesInv, NoticesTypeOK
  <1>5. NoticesTypeOK'
    BY <1>1, <1>3, <1>4 DEF noticeRows, NoticesInv, NoticesTypeOK
  <1> QED BY <1>1, <1>5, RowsKept DEF NoticesInv

LEMMA NoticeRead ==
    ASSUME NoticesInv, NEW click \in clicks, MarkRead(click)
    PROVE  NoticesInv'
  <1>1. UNCHANGED <<created, emailing, emailed, tabVisible>> /\ unread' \subseteq unread
        /\ clicks' \subseteq clicks
    BY DEF MarkRead
  <1>2. centre' \in Centre
    <2> DEFINE seen == [top |-> Newest(PageSize), unread |-> unread' \cap Newest(PageSize)]
    <2>1. seen \in Views
      BY NoticesCounted, NoticesAssumption DEF NoticesInv, Views
    <2>2. [open |-> TRUE, list |-> seen] \in Centre
      BY <2>1 DEF Centre
    <2>3. centre' \in {centre, [open |-> TRUE, list |-> seen]}
      BY DEF MarkRead
    <2> QED BY <2>2, <2>3 DEF NoticesInv, NoticesTypeOK
  <1>3. EmailHasNotice'
    BY <1>1 DEF NoticesInv, EmailHasNotice
  <1>4. CASE RowsChange
    BY <1>1, <1>2, <1>3, <1>4, RowsChanged DEF NoticesInv, NoticesTypeOK
  <1>5. CASE UNCHANGED <<unread, poll, bell>>
    <2>1. NoticesTypeOK'
      BY <1>1, <1>2, <1>5 DEF NoticesInv, NoticesTypeOK
    <2> QED BY <1>1, <1>5, <2>1, RowsKept DEF noticeRows, NoticesInv
  <1> QED BY <1>4, <1>5 DEF MarkRead

LEMMA NoticesStay == NoticesInv /\ [NoticesNext]_noticeVars => NoticesInv'
  <1> SUFFICES ASSUME NoticesInv, [NoticesNext]_noticeVars PROVE NoticesInv'
    OBVIOUS
  <1>1. CASE NoticesNext
    BY <1>1, NoticeWritten, EmailSent, PollBegins, PollGathers, BellRings, UserReads, NoticeRead
       DEF NoticesNext
  <1>2. CASE UNCHANGED noticeVars
    BY <1>2, RowsKept DEF noticeVars, noticeRows, noticeViews, NoticesInv, NoticesTypeOK
  <1> QED BY <1>1, <1>2

\* However many notices there are and however long the lists: an email is sent once and
\* of a notice that is in the centre, and the bell shows the newest notices and the count of
\* all that are unread, unless a row has changed since it asked.
THEOREM NotificationsSound ==
    NoticesSpec => [](NoticesTypeOK /\ EmailHasNotice /\ BellHonest)
  <1>1. NoticesInv => NoticesTypeOK /\ EmailHasNotice /\ BellHonest
    BY DEF NoticesInv
  <1> QED BY <1>1, NoticesStart, NoticesStay, PTL DEF NoticesSpec
-------------------------------------------------------------------------------
\* Each step of the composition is a step of each part, or a stutter of it.
LEMMA PartsMove ==
    /\ Init => CheckoutFormInit /\ ConsentInit /\ NoticesInit
    /\ [Next]_vars => /\ [CheckoutFormNext]_checkoutVars
                      /\ [ConsentNext]_consentVars
                      /\ [NoticesNext]_noticeVars
  BY DEF Init, Next, vars

LEMMA StorefrontInvariant == Spec => [](CheckoutFormInv /\ ConsentInv /\ NoticesInv)
  <1>1. Init => CheckoutFormInv /\ ConsentInv /\ NoticesInv
    BY PartsMove, CheckoutFormStart, ConsentStart, NoticesStart
  <1>2. CheckoutFormInv /\ ConsentInv /\ NoticesInv /\ [Next]_vars
            => (CheckoutFormInv /\ ConsentInv /\ NoticesInv)'
    BY PartsMove, CheckoutFormStays, ConsentStays, NoticesStay
  <1> QED BY <1>1, <1>2, PTL DEF Spec

\* Every variable of the three parts keeps its type.
THEOREM StorefrontTyped == Spec => []StorefrontTypeOK
  <1>1. CheckoutFormInv /\ ConsentInv /\ NoticesInv => StorefrontTypeOK
    BY DEF CheckoutFormInv, ConsentInv, NoticesInv, StorefrontTypeOK
  <1> QED BY <1>1, StorefrontInvariant, PTL

\* An order is made once, for the fee that was ticked, and the page says so.
THEOREM CheckoutIsSound == Spec => []CheckoutSound
  <1>1. CheckoutFormInv => CheckoutSound
    BY DEF CheckoutFormInv, CheckoutSound
  <1> QED BY <1>1, StorefrontInvariant, PTL

\* The answer about cookies survives and is obeyed.
THEOREM ConsentIsSound == Spec => []ConsentSound
  <1>1. ConsentInv => ConsentSound
    BY ConsentObeyed DEF ConsentSound
  <1> QED BY <1>1, StorefrontInvariant, PTL

\* An email is never all there is, and the bell is honest.
THEOREM NoticesAreSound == Spec => []NoticesSound
  <1>1. NoticesInv => NoticesSound
    BY DEF NoticesInv, NoticesSound
  <1> QED BY <1>1, StorefrontInvariant, PTL
===============================================================================
