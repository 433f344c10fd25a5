-------------------------- MODULE MCCheckoutInventory --------------------------
(***************************************************************************)
(* CheckoutInventory on small instances: who sells what, and who starts    *)
(* with which cart.  In every behaviour one of two scenes is played: two   *)
(* buyers check out while their orders are paid and cancelled, or a third  *)
(* one checks out twice while the cart and the listings are edited.        *)
(***************************************************************************)
EXTENDS CheckoutInventory, TLC

CONSTANTS Scenes, b1, b2, b3, c1, c2, c3, c4, A, B

VARIABLE scene

\* Four listings of two sellers whose ids interleave: ids are random, so nothing
\* keeps those of a seller together.
Four        == 1 .. 4
Interleaved == (1 :> A) @@ (2 :> B) @@ (3 :> A) @@ (4 :> A)

\* One checkout of b1 and of b2 each, and a double click of b3.
Senders == (c1 :> b1) @@ (c2 :> b2) @@ (c3 :> b3) @@ (c4 :> b3)

\* The last unit of listing 4, two of the others.
Scarce == [p \in Four |-> IF p = 4 THEN 1 ELSE 2]

\* The carts of b1 and b2 share the listings 2, 3 and 4.
Carts ==
    (b1 :> [p \in Four |-> 1]) @@
    (b2 :> [p \in Four |-> IF p = 1 THEN 0 ELSE 1]) @@
    (b3 :> [p \in Four |-> IF p \in {1, 2} THEN 1 ELSE 0])

Playing == IF scene = "edits" THEN {c3, c4} ELSE {c1, c2}

\* What stays as it is in a scene.  Only b3 edits a cart, and only listing 1 is
\* edited; only the orders of b1 are paid and cancelled, those of b2 take stock.
Stays ==
    /\ \A c \in Checkouts \ Playing : co'[c] = co[c]
    /\ IF scene = "edits"
       THEN /\ UNCHANGED cx
            /\ \A b \in {b1, b2} : cart'[b] = cart[b]
            /\ \A p \in {3, 4} : cart'[b3][p] = cart[b3][p]
            /\ \A p \in 2 .. 4 : status'[p] = status[p] /\ form'[p] = form[p]
       ELSE /\ UNCHANGED <<listingVars, editsLeft>>
            /\ \A n \in Cancels : cx'[n].order \in OrderIds => cx'[n].order[1] = c1
            /\ \A s \in Sellers : orders'[<<c2, s>>] # "PAID"

MCInit == scene \in Scenes /\ Init
MCNext == UNCHANGED scene /\ Next /\ Stays
MCSpec == MCInit /\ [][MCNext]_<<vars, scene>>

\* The fairness of CheckoutInventory, for the requests of the scene.
MCFairness ==
    /\ \A c \in Checkouts :
        WF_vars(c \in Playing /\ (CheckoutStep(c) \/ (BlockedBy(c) # {} /\ LoseCheckout(c))))
    /\ \A n \in Cancels :
        WF_vars(scene # "edits" /\ (CancelStep(n) \/ (BlockedBy(n) # {} /\ LoseCancel(n))))

MCFairSpec == MCSpec /\ MCFairness
===============================================================================
