------------------------------ MODULE MCStorefront ------------------------------
(***************************************************************************)
(* What a buyer's browser keeps about the shop, checked in one run: the    *)
(* checkout page, the answer about cookies and the notices.  They share no *)
(* state: in every behaviour only the part in focus moves.                 *)
(***************************************************************************)
EXTENDS CheckoutForm, CookieConsent, Notifications

CONSTANT Focus

VARIABLE focus

vars == <<focus, checkoutVars, consentVars, noticeVars>>

\* One initial state for a part that is not in focus; a tab that is never on top
\* never asks.  The first tariff charges every county the same.
Init ==
    /\ focus \in Focus
    /\ CheckoutFormInit /\ ConsentInit /\ NoticesInit
    /\ tariff = [k \in Counties |-> MaxFee]
    /\ focus # "consent" => storage = "works"
    /\ tabVisible = (focus = "notices")

\* Once the orders are made the buyer leaves the form alone.
FormLeftAlone ==
    sheet.made # {} => sheet' = sheet \/ sheet'.stage \in {"review", "paying"} \ {sheet.stage}

\* One email is under way or was sent.
OneEmail == Cardinality(emailing' \cup emailed') <= 1

Next ==
    /\ UNCHANGED focus
    /\ \/ /\ focus = "checkout" /\ CheckoutFormNext /\ FormLeftAlone
          /\ UNCHANGED <<consentVars, noticeVars>>
       \/ /\ focus = "consent" /\ ConsentNext
          /\ UNCHANGED <<checkoutVars, noticeVars>>
       \/ /\ focus = "notices" /\ NoticesNext /\ OneEmail
          /\ UNCHANGED <<checkoutVars, consentVars>>

Spec == Init /\ [][Next]_vars /\ ConsentFairness /\ NoticesFairness

\* Every variable has its type.
StorefrontTypeOK == CheckoutFormTypeOK /\ ConsentTypeOK /\ NoticesTypeOK

(***************************************************************************)
(* An order is made once, of what was in the cart, for the fee the buyer   *)
(* saw and ticked, and the page says what goes on (checkout-view.tsx,      *)
(* orders/service.ts).                                                     *)
(***************************************************************************)
CheckoutSound == FeeAsAgreed /\ OneOrderPerLine /\ FormSound

\* The answer about cookies survives and is obeyed (cookie-consent.tsx).
ConsentSound == ChoiceSurvives /\ ConsentHonoured

\* An email is never all there is, and the bell shows what it asked for
\* (notifications/service.ts, notification-bell.tsx).
NoticesSound == EmailHasNotice /\ BellHonest

\* A withdrawn consent reaches every tab, and a bell in sight is right in the end.
NewsArrives == WithdrawalReachesPages /\ BellCatchesUp
===============================================================================
