----------------------- MODULE CheckoutInventory_proofs -----------------------
(***************************************************************************)
(* Proofs about CheckoutInventory, for any listings, buyers, requests and  *)
(* carts.                                                                  *)
(***************************************************************************)
EXTENDS CheckoutInventory, FiniteSetTheorems, WellFoundedInduction, TLAPS

CheckoutRequests == [pc : CheckoutPcs, lines : [Products -> 0 .. MaxQuantity],
                     done : SUBSET Products, runs : 0 .. MaxRuns]

Typed == TypeOK /\ form \in [Products -> SUBSET Nat]

\* Only an open transaction has taken rows, and it has a run left before it.
CheckoutPhase(q) ==
    /\ q.pc # "reserve" => q.done = {}
    /\ q.pc \in {"idle", "read", "claim"} => q.runs < MaxRuns

Phases ==
    /\ \A c \in Checkouts : CheckoutPhase(co[c])
    /\ \A n \in Cancels : cx[n].pc # "restore" => cx[n].done = {}

\* The row locks keep what a transaction has claimed as it was.
LinesHeld(c) ==
    /\ co[c].done \subseteq Ids(co[c].lines)
    /\ \A p \in co[c].done : co[c].lines[p] <= stock[p]
    /\ \A p \in Ids(co[c].lines) : cart[BuyerOf[c]][p] = co[c].lines[p]

Reserving(c) == co[c].pc = "reserve"
Restoring(n) == cx[n].pc = "restore"

Holds == \A c \in Checkouts : Reserving(c) => LinesHeld(c)

\* A row is locked by one transaction at a time.
CheckoutsApart ==
    \A c, d \in Checkouts : c # d /\ Reserving(c) /\ Reserving(d) =>
        /\ co[c].done \cap co[d].done = {}
        /\ BuyerOf[c] = BuyerOf[d] => Ids(co[c].lines) \cap Ids(co[d].lines) = {}

MixedApart ==
    \A c \in Checkouts, n \in Cancels : Reserving(c) /\ Restoring(n) =>
        co[c].done \cap cx[n].done = {}

CancelsApart ==
    \A m, n \in Cancels : m # n /\ Restoring(m) /\ Restoring(n) =>
        cx[m].done \cap cx[n].done = {} /\ cx[m].order # cx[n].order

\* An order exists once its checkout has ended, and stays pending while a
\* cancellation holds it.
OrdersRest ==
    /\ \A o \in OrderIds : orders[o] # "NONE" => co[o[1]].pc = "ended"
    /\ \A n \in Cancels : cx[n].pc \in {"claim", "restore"} => cx[n].order \in OrderIds
    /\ \A n \in Cancels : Restoring(n) => orders[cx[n].order] = "PENDING"

InventoryInv ==
    /\ Typed /\ Phases /\ Holds
    /\ CheckoutsApart /\ MixedApart /\ CancelsApart /\ OrdersRest

\* One checkout at a time holds a row that another cancels or updates.
OneHolder ==
    \A p \in Products : \A s, t \in ProductHolders(p) : s = t

-------------------------------------------------------------------------------
LEMMA InventoryStart == Init => InventoryInv
<1>. SUFFICES ASSUME Init PROVE InventoryInv
  OBVIOUS
<1>1. Typed
  BY InventoryAssumption DEF Init, Typed, TypeOK, NoLines, CheckoutPcs, CancelPcs, MaxRuns,
     ListingStatus
<1>2. Phases
  BY DEF Init, Phases, CheckoutPhase, MaxRuns
<1>3. /\ \A c \in Checkouts : ~Reserving(c)
      /\ \A n \in Cancels : ~Restoring(n) /\ cx[n].pc = "idle"
      /\ \A o \in OrderIds : orders[o] = "NONE"
  BY DEF Init, Reserving, Restoring
<1>. QED
  BY <1>1, <1>2, <1>3 DEF InventoryInv, Holds, CheckoutsApart, MixedApart, CancelsApart,
     OrdersRest

-------------------------------------------------------------------------------
\* What a request is, and which of them a new record leaves as they were.
LEMMA OneCheckout ==
    ASSUME Typed, NEW c \in Checkouts, NEW r \in CheckoutRequests,
           co' = [co EXCEPT ![c] = r]
    PROVE  /\ co' \in [Checkouts -> CheckoutRequests]
           /\ co'[c] = r
           /\ \A d \in Checkouts \ {c} : co'[d] = co[d]
  BY DEF Typed, TypeOK, CheckoutRequests

LEMMA CheckoutTyped ==
    ASSUME Typed, NEW c \in Checkouts
    PROVE  co[c] \in CheckoutRequests
  BY DEF Typed, TypeOK, CheckoutRequests

LEMMA LinesTyped ==
    ASSUME NEW r \in CheckoutRequests, NEW p
    PROVE  /\ p \in Products => r.lines[p] \in Nat
           /\ p \in r.done => p \in Products
<1>1. r.lines \in [Products -> 0 .. MaxQuantity] /\ r.done \subseteq Products
  BY DEF CheckoutRequests
<1>2. p \in Products => r.lines[p] \in 0 .. MaxQuantity
  BY <1>1
<1>3. 0 .. MaxQuantity \subseteq Nat
  BY InventoryAssumption
<1>. QED
  BY <1>1, <1>2, <1>3

LEMMA OrderIdParts ==
    ASSUME NEW o \in OrderIds
    PROVE  o[1] \in Checkouts /\ o[2] \in Sellers /\ o = <<o[1], o[2]>>
  BY DEF OrderIds

\* A checkout outside its transaction, or leaving it, holds nothing.
LEMMA CheckoutLeaves ==
    ASSUME InventoryInv, NEW c \in Checkouts, NEW r \in CheckoutRequests,
           co' = [co EXCEPT ![c] = r],
           CheckoutPhase(r), r.pc # "reserve", co[c].pc # "ended",
           UNCHANGED <<stock, cart, orders, cx, listingVars, editsLeft>>
    PROVE  InventoryInv'
<1>. USE DEF InventoryInv
<1>1. /\ co' \in [Checkouts -> CheckoutRequests]
      /\ co'[c] = r
      /\ \A d \in Checkouts \ {c} : co'[d] = co[d]
  BY OneCheckout
<1>2. Typed'
  BY <1>1 DEF Typed, TypeOK, listingVars, CheckoutRequests
<1>3. Phases'
  BY <1>1 DEF Phases, CheckoutPhase
<1>4. \A d \in Checkouts : Reserving(d)' => d # c /\ Reserving(d) /\ co'[d] = co[d]
  BY <1>1 DEF Reserving
<1>5. Holds'
  BY <1>4 DEF Holds, LinesHeld, Ids
<1>6. CheckoutsApart'
  BY <1>4 DEF CheckoutsApart, Ids
<1>7. MixedApart' /\ CancelsApart'
  BY <1>4 DEF MixedApart, CancelsApart, Restoring
<1>8. OrdersRest'
  BY <1>1, OrderIdParts DEF OrdersRest, Restoring
<1>. QED
  BY <1>2, <1>3, <1>5, <1>6, <1>7, <1>8

LEMMA CheckoutEnds ==
    ASSUME InventoryInv, NEW c \in Checkouts, EndCheckout(c), co[c].pc # "ended",
           UNCHANGED <<stock, cart, orders, cx, listingVars, editsLeft>>
    PROVE  InventoryInv'
<1>. DEFINE r == [co[c] EXCEPT !.pc = "ended", !.done = {}]
<1>1. r \in CheckoutRequests
  <2>1. co[c] \in CheckoutRequests
    BY CheckoutTyped DEF InventoryInv
  <2>. QED
    BY <2>1 DEF CheckoutRequests, CheckoutPcs
<1>2. r.pc = "ended" /\ r.done = {}
  BY DEF InventoryInv, Typed, TypeOK
<1>3. CheckoutPhase(r)
  BY <1>2 DEF CheckoutPhase
<1>4. co' = [co EXCEPT ![c] = r]
  BY DEF EndCheckout
<1>. QED
  BY <1>1, <1>2, <1>3, <1>4, CheckoutLeaves

LEMMA ReadCartStep ==
    ASSUME InventoryInv, NEW c \in Checkouts, ReadCart(c)
    PROVE  InventoryInv'
<1>. DEFINE lines == cart[BuyerOf[c]]
            r == [co[c] EXCEPT !.lines = lines, !.pc = IF Ids(lines) = {} THEN "ended" ELSE "read"]
<1>1. lines \in [Products -> 0 .. MaxQuantity]
  BY InventoryAssumption DEF InventoryInv, Typed, TypeOK
<1>2. r \in CheckoutRequests
  <2>1. co[c] \in CheckoutRequests
    BY CheckoutTyped DEF InventoryInv
  <2>. HIDE DEF lines
  <2>. QED
    BY <1>1, <2>1 DEF CheckoutRequests, CheckoutPcs
<1>4. r.pc \in {"read", "ended"} /\ r.done = {} /\ r.runs < MaxRuns
  BY DEF InventoryInv, Typed, TypeOK, Phases, CheckoutPhase, ReadCart
<1>3. co' = [co EXCEPT ![c] = r]
  BY DEF ReadCart
<1>. QED
  BY <1>2, <1>3, <1>4, CheckoutLeaves DEF ReadCart, CheckoutPhase

LEMMA ReadProductsStep ==
    ASSUME InventoryInv, NEW c \in Checkouts, ReadProducts(c)
    PROVE  InventoryInv'
<1>1. CASE EndCheckout(c)
  BY <1>1, CheckoutEnds DEF ReadProducts
<1>2. CASE co' = [co EXCEPT ![c].pc = "claim"]
  <2>. DEFINE r == [co[c] EXCEPT !.pc = "claim"]
  <2>1. r \in CheckoutRequests /\ CheckoutPhase(r) /\ r.pc = "claim"
    BY DEF InventoryInv, Typed, TypeOK, CheckoutRequests, CheckoutPhase, CheckoutPcs,
       Phases, ReadProducts
  <2>2. co' = [co EXCEPT ![c] = r]
    BY <1>2
  <2>. QED
    BY <2>1, <2>2, CheckoutLeaves DEF ReadProducts
<1>. QED
  BY <1>1, <1>2 DEF ReadProducts

LEMMA CollideStep ==
    ASSUME InventoryInv, NEW c \in Checkouts, OrderNumberCollides(c)
    PROVE  InventoryInv'
<1>1. CASE EndCheckout(c)
  BY <1>1, CheckoutEnds DEF OrderNumberCollides
<1>2. CASE co[c].runs < MaxRuns /\ co' = [co EXCEPT ![c].pc = "claim", ![c].done = {}]
  <2>. DEFINE r == [co[c] EXCEPT !.pc = "claim", !.done = {}]
  <2>1. r \in CheckoutRequests /\ CheckoutPhase(r) /\ r.pc = "claim"
    BY <1>2 DEF InventoryInv, Typed, TypeOK, CheckoutRequests, CheckoutPhase, CheckoutPcs
  <2>2. co' = [co EXCEPT ![c] = r]
    BY <1>2
  <2>. QED
    BY <2>1, <2>2, CheckoutLeaves DEF OrderNumberCollides
<1>. QED
  BY <1>1, <1>2 DEF OrderNumberCollides

LEMMA LoseCheckoutStep ==
    ASSUME InventoryInv, NEW c \in Checkouts, LoseCheckout(c)
    PROVE  InventoryInv'
  BY CheckoutEnds DEF LoseCheckout

\* A claim that succeeds takes every line, as it is in the cart, from nobody.
LEMMA ClaimCartStep ==
    ASSUME InventoryInv, NEW c \in Checkouts, ClaimCart(c)
    PROVE  InventoryInv'
<1>. DEFINE b     == BuyerOf[c]
            ids   == Ids(co[c].lines)
            lines == [p \in Products |-> IF p \in ids THEN cart[b][p] ELSE 0]
            r     == [co[c] EXCEPT !.pc = "reserve", !.runs = @ + 1, !.lines = lines]
<1>. USE DEF InventoryInv
<1>1. CASE EndCheckout(c)
  BY <1>1, CheckoutEnds DEF ClaimCart
<1>2. CASE (\A p \in ids : cart[b][p] > 0) /\ co' = [co EXCEPT ![c] = r]
  <2>1. b \in Buyers /\ cart[b] \in [Products -> 0 .. MaxQuantity]
    BY InventoryAssumption DEF Typed, TypeOK
  <2>2. lines \in [Products -> 0 .. MaxQuantity]
    BY <2>1, InventoryAssumption
  <2>3. co[c].done = {} /\ co[c].runs + 1 \in 0 .. MaxRuns
    BY DEF Phases, CheckoutPhase, ClaimCart, Typed, TypeOK, MaxRuns
  <2>4. r \in CheckoutRequests /\ r.pc = "reserve" /\ r.lines = lines /\ r.done = {}
    BY <2>2, <2>3 DEF Typed, TypeOK, CheckoutRequests, CheckoutPcs
  <2>5. /\ co' \in [Checkouts -> CheckoutRequests]
        /\ co'[c] = r
        /\ \A d \in Checkouts \ {c} : co'[d] = co[d]
    BY <1>2, <2>4, OneCheckout
  <2>6. ids = Ids(lines) /\ \A p \in ids : cart[b][p] = lines[p]
    BY <1>2, <2>1, InventoryAssumption DEF Ids
  <2>. HIDE DEF lines, r
  <2>7. Typed' /\ Phases'
    BY <2>4, <2>5 DEF Typed, TypeOK, listingVars, CheckoutRequests, Phases, CheckoutPhase, ClaimCart
  <2>8. LinesHeld(c)'
    BY <2>4, <2>5, <2>6 DEF LinesHeld, ClaimCart, Ids
  <2>9. Holds'
    BY <2>5, <2>8 DEF Holds, LinesHeld, Reserving, Ids, ClaimCart
  <2>10. ASSUME NEW d \in Checkouts \ {c}, Reserving(d), BuyerOf[d] = b
         PROVE  Ids(co[d].lines) \cap ids = {}
    <3>1. d \in CartHolders(b)
      BY <2>10 DEF CartHolders, Reserving
    <3>. QED
      BY <3>1 DEF ClaimCart, ClaimedLines
  <2>11. CheckoutsApart'
    BY <2>4, <2>5, <2>6, <2>10 DEF CheckoutsApart, Reserving, Ids
  <2>12. MixedApart' /\ CancelsApart'
    BY <2>4, <2>5 DEF MixedApart, CancelsApart, Restoring, Reserving, ClaimCart
  <2>13. OrdersRest'
    BY <2>5, OrderIdParts DEF OrdersRest, Restoring, ClaimCart
  <2>. QED
    BY <2>7, <2>9, <2>11, <2>12, <2>13
<1>3. (\A p \in ids : cart[b][p] > 0) => co' = [co EXCEPT ![c] = r]
  BY DEF ClaimCart
<1>. QED
  BY <1>1, <1>2, <1>3 DEF ClaimCart

-------------------------------------------------------------------------------
\* Sets of naturals have a least element.
LEMMA LeastExists ==
    ASSUME NEW T \in SUBSET Nat, T # {}
    PROVE  \E m \in T : \A t \in T : m <= t
<1>1. PICK m \in T : \A t \in T : <<t, m>> \notin OpToRel(<, Nat)
  BY WFMin, NatLessThanWellFounded
<1>2. \A t \in T : ~(t < m)
  BY <1>1 DEF OpToRel
<1>. QED
  BY <1>2

LEMMA MinIsLeast ==
    ASSUME NEW T \in SUBSET Nat, T # {}
    PROVE  Min(T) \in T /\ \A t \in T : Min(T) <= t
  BY LeastExists DEF Min

LEMMA FirstOfGroup ==
    ASSUME NEW ids \in SUBSET Products, NEW p \in ids
    PROVE  /\ FirstOf(ids, p) \in ids
           /\ SellerOf[FirstOf(ids, p)] = SellerOf[p]
           /\ \A q \in ids : SellerOf[q] = SellerOf[p] => FirstOf(ids, p) <= q
<1>. DEFINE T == {q \in ids : SellerOf[q] = SellerOf[p]}
<1>1. T \in SUBSET Nat /\ p \in T
  BY InventoryAssumption
<1>2. Min(T) \in T /\ \A t \in T : Min(T) <= t
  BY <1>1, MinIsLeast
<1>. QED
  BY <1>2 DEF FirstOf

\* The row updated next is one that is left, the first in the order of the code.
LEMMA NextLineIsLeft ==
    ASSUME NEW c \in Checkouts, ToReserve(c) # {}
    PROVE  /\ NextLine(c) \in ToReserve(c)
           /\ \A q \in ToReserve(c) :
                \/ FirstOf(Ids(co[c].lines), NextLine(c)) < FirstOf(Ids(co[c].lines), q)
                \/ /\ FirstOf(Ids(co[c].lines), NextLine(c)) = FirstOf(Ids(co[c].lines), q)
                   /\ NextLine(c) <= q
<1>. DEFINE ids  == Ids(co[c].lines)
            left == ToReserve(c)
            F    == {FirstOf(ids, p) : p \in left}
<1>1. left \subseteq ids /\ ids \subseteq Products /\ left # {}
  BY DEF ToReserve, Ids
<1>2. \A p \in left : FirstOf(ids, p) \in Nat
  <2>. HIDE DEF ids, left
  <2>1. ASSUME NEW p \in left PROVE FirstOf(ids, p) \in ids
    BY <1>1, FirstOfGroup
  <2>. QED
    BY <1>1, <2>1, InventoryAssumption
<1>3. PICK f \in F : \A g \in F : f <= g
  <2>1. F \in SUBSET Nat /\ F # {}
    BY <1>1, <1>2
  <2>. QED
    BY <2>1, LeastExists
<1>. DEFINE G == {p \in left : FirstOf(ids, p) = f}
<1>4. PICK m \in G : \A p \in G : m <= p
  <2>1. G \in SUBSET Nat /\ G # {}
    BY <1>1, <1>3, InventoryAssumption
  <2>. QED
    BY <2>1, LeastExists
<1>5. ASSUME NEW q \in left
      PROVE  \/ FirstOf(ids, m) < FirstOf(ids, q)
             \/ FirstOf(ids, m) = FirstOf(ids, q) /\ m <= q
  <2>1. FirstOf(ids, m) = f /\ f <= FirstOf(ids, q)
    BY <1>3, <1>4
  <2>2. CASE FirstOf(ids, q) = f
    BY <2>1, <2>2, <1>4
  <2>3. CASE FirstOf(ids, q) # f
    BY <2>1, <2>3, <1>2, <1>4
  <2>. QED
    BY <2>2, <2>3
<1>6. m \in left
  BY <1>4
<1>. HIDE DEF F, G
<1>. QED
  BY <1>5, <1>6 DEF NextLine, ToReserve

\* A row is updated when nobody holds it and there are units for it.
LEMMA ReserveLineStep ==
    ASSUME InventoryInv, NEW c \in Checkouts, ReserveLine(c)
    PROVE  InventoryInv'
<1>. DEFINE p == NextLine(c)
            r == [co[c] EXCEPT !.done = @ \cup {p}]
<1>. USE DEF InventoryInv
<1>1. CASE EndCheckout(c)
  BY <1>1, CheckoutEnds DEF ReserveLine
<1>2. CASE co[c].lines[p] <= stock[p] /\ co' = [co EXCEPT ![c] = r]
  <2>1. p \in Ids(co[c].lines) \ co[c].done /\ p \in Products /\ ProductHolders(p) = {}
    BY NextLineIsLeft DEF ReserveLine, ToReserve, Ids
  <2>2. co[c] \in CheckoutRequests /\ Reserving(c)
    BY CheckoutTyped DEF ReserveLine, Reserving
  <2>. HIDE DEF p
  <2>3. /\ r \in CheckoutRequests /\ r.pc = "reserve" /\ r.lines = co[c].lines
        /\ r.done = co[c].done \cup {p} /\ r.runs = co[c].runs
    BY <2>1, <2>2 DEF CheckoutRequests, Reserving
  <2>4. /\ co' \in [Checkouts -> CheckoutRequests]
        /\ co'[c] = r
        /\ \A d \in Checkouts \ {c} : co'[d] = co[d]
    BY <1>2, <2>3, OneCheckout
  <2>. HIDE DEF r
  <2>5. Typed' /\ Phases'
    BY <2>3, <2>4 DEF Typed, TypeOK, listingVars, CheckoutRequests, Phases, CheckoutPhase,
       ReserveLine
  <2>6. LinesHeld(c)
    BY <2>2 DEF Holds
  <2>7. LinesHeld(c)'
    BY <1>2, <2>1, <2>3, <2>4, <2>6 DEF LinesHeld, ReserveLine, Ids
  <2>8. Holds'
    BY <2>4, <2>7 DEF Holds, LinesHeld, Reserving, Ids, ReserveLine
  <2>9. /\ \A d \in Checkouts : Reserving(d) => p \notin co[d].done
        /\ \A n \in Cancels : Restoring(n) => p \notin cx[n].done
    BY <2>1 DEF ProductHolders, Reserving, Restoring
  <2>10. CheckoutsApart'
    BY <2>2, <2>3, <2>4, <2>9 DEF CheckoutsApart, Reserving, Ids
  <2>11. MixedApart' /\ CancelsApart'
    BY <2>2, <2>3, <2>4, <2>9 DEF MixedApart, CancelsApart, Restoring, Reserving, ReserveLine
  <2>12. OrdersRest'
    BY <2>3, <2>4, OrderIdParts DEF OrdersRest, Restoring, ReserveLine
  <2>. QED
    BY <2>5, <2>8, <2>10, <2>11, <2>12
<1>3. EndCheckout(c) \/ (co[c].lines[p] <= stock[p] /\ co' = [co EXCEPT ![c] = r])
  BY DEF ReserveLine
<1>. QED
  BY <1>1, <1>2, <1>3

\* At the commit every line was taken: stock covers it, and the cart held it.
LEMMA CommitCheckoutStep ==
    ASSUME InventoryInv, NEW c \in Checkouts, CommitCheckout(c)
    PROVE  InventoryInv'
<1>. DEFINE b     == BuyerOf[c]
            lines == co[c].lines
            r     == [co[c] EXCEPT !.pc = "ended", !.done = {}]
<1>. USE DEF InventoryInv
<1>1. co[c] \in CheckoutRequests /\ Reserving(c) /\ LinesHeld(c) /\ b \in Buyers
  BY CheckoutTyped, InventoryAssumption DEF CommitCheckout, Reserving, Holds
<1>2. lines \in [Products -> 0 .. MaxQuantity] /\ co[c].done = Ids(lines)
  BY <1>1 DEF CheckoutRequests, LinesHeld, CommitCheckout, ToReserve
<1>3. r \in CheckoutRequests /\ r.pc = "ended" /\ r.done = {} /\ r.lines = lines
  BY <1>1 DEF CheckoutRequests, CheckoutPcs
<1>4. /\ co' \in [Checkouts -> CheckoutRequests]
      /\ co'[c] = r
      /\ \A d \in Checkouts \ {c} : co'[d] = co[d]
  <2>1. co' = [co EXCEPT ![c] = r]
    BY DEF CommitCheckout, EndCheckout
  <2>. QED
    BY <1>3, <2>1, OneCheckout
<1>5. \A p \in Products : stock'[p] = stock[p] - lines[p] /\ lines[p] \in Nat
                          /\ stock[p] \in Nat /\ lines[p] <= stock[p]
  BY <1>1, <1>2, InventoryAssumption DEF CommitCheckout, Typed, TypeOK, LinesHeld, Ids
<1>6. stock' \in [Products -> Nat]
  BY <1>5 DEF CommitCheckout
<1>7. /\ cart' \in [Buyers -> [Products -> 0 .. MaxQuantity]]
      /\ \A a \in Buyers, p \in Products :
            a # b \/ p \notin Ids(lines) => cart'[a][p] = cart[a][p]
  BY <1>1, <1>2, InventoryAssumption DEF CommitCheckout, Typed, TypeOK, Ids
<1>8. /\ orders' \in [OrderIds -> {"NONE", "PENDING", "PAID", "CANCELLED"}]
      /\ \A o \in OrderIds : o[1] # c => orders'[o] = orders[o]
  BY DEF CommitCheckout, Typed, TypeOK
<1>9. \A d \in Checkouts : Reserving(d)' => d # c /\ Reserving(d) /\ co'[d] = co[d]
  BY <1>3, <1>4 DEF Reserving
<1>. HIDE DEF r
<1>10. Typed'
  BY <1>4, <1>6, <1>7, <1>8 DEF Typed, TypeOK, listingVars, CheckoutRequests, CommitCheckout
<1>11. Phases'
  BY <1>3, <1>4 DEF Phases, CheckoutPhase, CommitCheckout
<1>12. ASSUME NEW d \in Checkouts, Reserving(d)'
       PROVE  LinesHeld(d)'
  <2>1. d # c /\ Reserving(d) /\ co'[d] = co[d] /\ LinesHeld(d) /\ BuyerOf[d] \in Buyers
    BY <1>9, <1>12, InventoryAssumption DEF Holds
  <2>2. co[d].done \cap Ids(lines) = {} /\ co[d].done \subseteq Products
    BY <1>1, <1>2, <2>1, CheckoutTyped DEF CheckoutsApart, CheckoutRequests
  <2>3. \A p \in co[d].done : stock'[p] = stock[p]
    BY <1>5, <2>2 DEF Ids
  <2>4. \A p \in Ids(co[d].lines) : cart'[BuyerOf[d]][p] = cart[BuyerOf[d]][p]
    BY <1>1, <1>7, <2>1 DEF CheckoutsApart, Ids
  <2>. QED
    BY <2>1, <2>3, <2>4 DEF LinesHeld, Ids
<1>13. Holds'
  BY <1>12 DEF Holds
<1>14. CheckoutsApart'
  BY <1>9 DEF CheckoutsApart, Ids
<1>15. MixedApart' /\ CancelsApart'
  BY <1>9 DEF MixedApart, CancelsApart, Restoring, CommitCheckout
<1>16. OrdersRest'
  <2>1. \A n \in Cancels : Restoring(n) => cx[n].order[1] # c
    BY <1>1, OrderIdParts DEF OrdersRest, Reserving, Restoring
  <2>. QED
    BY <1>3, <1>4, <1>8, <2>1, OrderIdParts DEF OrdersRest, Restoring, CommitCheckout
<1>. QED
  BY <1>10, <1>11, <1>13, <1>14, <1>15, <1>16

-------------------------------------------------------------------------------
\* The row of a claimed cart line is not written by anybody else.
LEMMA EditCartStep ==
    ASSUME InventoryInv, NEW b \in Buyers, NEW p \in Products, EditCart(b, p)
    PROVE  InventoryInv'
<1>. USE DEF InventoryInv
<1>1. /\ cart' \in [Buyers -> [Products -> 0 .. MaxQuantity]]
      /\ \A a \in Buyers, q \in Products : a # b \/ q # p => cart'[a][q] = cart[a][q]
  BY DEF EditCart, Typed, TypeOK
<1>2. Typed'
  <2>1. editsLeft' \in 0 .. MaxEdits
    BY InventoryAssumption DEF EditCart, Typed, TypeOK
  <2>. QED
    BY <1>1, <2>1 DEF Typed, TypeOK, EditCart, listingVars
<1>3. ASSUME NEW c \in Checkouts, Reserving(c)
      PROVE  LinesHeld(c)'
  <2>1. LinesHeld(c) /\ BuyerOf[c] \in Buyers
    BY <1>3, InventoryAssumption DEF Holds
  <2>2. BuyerOf[c] = b => p \notin Ids(co[c].lines)
    BY <1>3 DEF EditCart, ClaimedLines, CartHolders, Reserving
  <2>3. \A q \in Ids(co[c].lines) : cart'[BuyerOf[c]][q] = cart[BuyerOf[c]][q]
    BY <1>1, <2>1, <2>2 DEF Ids
  <2>. QED
    BY <2>1, <2>3 DEF LinesHeld, Ids, EditCart
<1>4. Holds'
  BY <1>3 DEF Holds, Reserving, EditCart
<1>5. Phases' /\ CheckoutsApart' /\ MixedApart' /\ CancelsApart' /\ OrdersRest'
  BY DEF EditCart, Phases, CheckoutPhase, CheckoutsApart, MixedApart, CancelsApart, OrdersRest,
     Reserving, Restoring, Ids
<1>. QED
  BY <1>2, <1>4, <1>5

\* What a cancel request is.
CancelRequests == [pc : CancelPcs, order : OrderIds \cup {NoOrder},
                   done : SUBSET Products, next : Products \cup {NoProduct}]

LEMMA CancelTyped ==
    ASSUME Typed, NEW n \in Cancels
    PROVE  cx[n] \in CancelRequests
  BY DEF Typed, TypeOK, CancelRequests

LEMMA OneCancel ==
    ASSUME Typed, NEW n \in Cancels, NEW r \in CancelRequests,
           cx' = [cx EXCEPT ![n] = r]
    PROVE  /\ cx' \in [Cancels -> CancelRequests]
           /\ cx'[n] = r
           /\ \A m \in Cancels \ {n} : cx'[m] = cx[m]
  BY DEF Typed, TypeOK, CancelRequests

\* A cancellation outside its transaction, or leaving it, holds nothing.
LEMMA CancelLeaves ==
    ASSUME InventoryInv, NEW n \in Cancels, NEW r \in CancelRequests,
           cx' = [cx EXCEPT ![n] = r],
           r.pc # "restore", r.done = {}, r.pc = "claim" => r.order \in OrderIds,
           UNCHANGED <<stock, cart, orders, co, listingVars, editsLeft>>
    PROVE  InventoryInv'
<1>. USE DEF InventoryInv
<1>1. /\ cx' \in [Cancels -> CancelRequests]
      /\ cx'[n] = r
      /\ \A m \in Cancels \ {n} : cx'[m] = cx[m]
  BY OneCancel
<1>2. Typed'
  BY <1>1 DEF Typed, TypeOK, listingVars, CancelRequests
<1>3. \A m \in Cancels : Restoring(m)' => m # n /\ Restoring(m) /\ cx'[m] = cx[m]
  BY <1>1 DEF Restoring
<1>4. Phases' /\ OrdersRest'
  BY <1>1 DEF Phases, CheckoutPhase, OrdersRest, Restoring
<1>5. Holds' /\ CheckoutsApart'
  BY DEF Holds, LinesHeld, CheckoutsApart, Reserving, Ids
<1>6. MixedApart' /\ CancelsApart'
  BY <1>3 DEF MixedApart, CancelsApart, Reserving
<1>. QED
  BY <1>2, <1>4, <1>5, <1>6

LEMMA CancelEnds ==
    ASSUME InventoryInv, NEW n \in Cancels, EndCancel(n),
           UNCHANGED <<stock, cart, orders, co, listingVars, editsLeft>>
    PROVE  InventoryInv'
<1>. DEFINE r == [cx[n] EXCEPT !.pc = "ended", !.done = {}, !.next = NoProduct]
<1>1. cx[n] \in CancelRequests
  BY CancelTyped DEF InventoryInv
<1>2. r \in CancelRequests /\ r.pc = "ended" /\ r.done = {}
  BY <1>1 DEF CancelRequests, CancelPcs
<1>3. cx' = [cx EXCEPT ![n] = r]
  BY DEF EndCancel
<1>. HIDE DEF r
<1>. QED
  BY <1>2, <1>3, CancelLeaves

LEMMA CancelReadStep ==
    ASSUME InventoryInv, NEW n \in Cancels, NEW o \in OrderIds, CancelRead(n, o)
    PROVE  InventoryInv'
<1>. DEFINE r == [cx[n] EXCEPT !.pc = "claim", !.order = o]
<1>1. cx[n] \in CancelRequests /\ cx[n].done = {}
  BY CancelTyped DEF InventoryInv, Phases, CancelRead
<1>2. r \in CancelRequests /\ r.pc = "claim" /\ r.order = o /\ r.done = {}
  BY <1>1 DEF CancelRequests, CancelPcs
<1>3. cx' = [cx EXCEPT ![n] = r]
  BY DEF CancelRead
<1>. HIDE DEF r
<1>. QED
  BY <1>2, <1>3, CancelLeaves DEF CancelRead

\* The compare-and-swap takes the order from nobody.
LEMMA CancelClaimStep ==
    ASSUME InventoryInv, NEW n \in Cancels, CancelClaim(n)
    PROVE  InventoryInv'
<1>. DEFINE o == cx[n].order
<1>. USE DEF InventoryInv
<1>1. CASE EndCancel(n)
  BY <1>1, CancelEnds DEF CancelClaim
<1>2. CASE orders[o] = "PENDING"
  <2>1. PICK p \in LinesOf(o) : cx' = [cx EXCEPT ![n].pc = "restore", ![n].next = p]
    BY <1>2 DEF CancelClaim
  <2>. DEFINE r == [cx[n] EXCEPT !.pc = "restore", !.next = p]
  <2>2. cx[n] \in CancelRequests /\ o \in OrderIds /\ cx[n].done = {} /\ p \in Products
    BY <2>1, CancelTyped DEF OrdersRest, Phases, CancelClaim, LinesOf, Ids
  <2>3. r \in CancelRequests /\ r.pc = "restore" /\ r.order = o /\ r.done = {}
    BY <2>2 DEF CancelRequests, CancelPcs
  <2>4. cx' = [cx EXCEPT ![n] = r]
    BY <2>1
  <2>. HIDE DEF r
  <2>5. /\ cx' \in [Cancels -> CancelRequests]
        /\ cx'[n] = r
        /\ \A m \in Cancels \ {n} : cx'[m] = cx[m]
    BY <2>3, <2>4, OneCancel
  <2>6. Typed'
    BY <2>5 DEF Typed, TypeOK, listingVars, CancelRequests, CancelClaim
  <2>7. Phases' /\ OrdersRest'
    BY <1>2, <2>2, <2>3, <2>5 DEF Phases, CheckoutPhase, OrdersRest, Restoring, CancelClaim
  <2>8. Holds' /\ CheckoutsApart'
    BY DEF Holds, LinesHeld, CheckoutsApart, Reserving, Ids, CancelClaim
  <2>9. MixedApart'
    BY <2>3, <2>5 DEF MixedApart, Reserving, Restoring, CancelClaim
  <2>10. \A m \in Cancels : Restoring(m) => cx[m].order # o
    BY DEF CancelClaim, OrderHolders, Restoring
  <2>11. CancelsApart'
    BY <2>3, <2>5, <2>10 DEF CancelsApart, Restoring
  <2>. QED
    BY <2>6, <2>7, <2>8, <2>9, <2>11
<1>. QED
  BY <1>1, <1>2 DEF CancelClaim

LEMMA CancelRestoreStep ==
    ASSUME InventoryInv, NEW n \in Cancels, CancelRestore(n)
    PROVE  InventoryInv'
<1>. DEFINE p    == cx[n].next
            rest == LinesOf(cx[n].order) \ (cx[n].done \cup {p})
<1>. USE DEF InventoryInv
<1>1. PICK q \in IF rest = {} THEN {NoProduct} ELSE rest :
        cx' = [cx EXCEPT ![n].done = @ \cup {p}, ![n].next = q]
  BY DEF CancelRestore
<1>. DEFINE r == [cx[n] EXCEPT !.done = @ \cup {p}, !.next = q]
<1>2. cx[n] \in CancelRequests /\ p \in Products /\ Restoring(n) /\ cx[n].pc = "restore"
  BY CancelTyped DEF CancelRestore, CancelRequests, Restoring
<1>3. q \in Products \cup {NoProduct}
  BY <1>1 DEF LinesOf, Ids
<1>4. /\ r \in CancelRequests /\ r.pc = "restore" /\ r.order = cx[n].order
      /\ r.done = cx[n].done \cup {p}
  <2>. HIDE DEF p
  <2>. QED
    BY <1>2, <1>3 DEF CancelRequests
<1>5. cx' = [cx EXCEPT ![n] = r]
  BY <1>1
<1>6. ProductHolders(p) = {}
  BY DEF CancelRestore
<1>. HIDE DEF r, p
<1>7. /\ cx' \in [Cancels -> CancelRequests]
      /\ cx'[n] = r
      /\ \A m \in Cancels \ {n} : cx'[m] = cx[m]
  BY <1>4, <1>5, OneCancel
<1>8. Typed'
  BY <1>7 DEF Typed, TypeOK, listingVars, CancelRequests, CancelRestore
<1>9. Phases' /\ OrdersRest'
  BY <1>2, <1>4, <1>7 DEF Phases, CheckoutPhase, OrdersRest, Restoring, CancelRestore
<1>10. Holds' /\ CheckoutsApart'
  BY DEF Holds, LinesHeld, CheckoutsApart, Reserving, Ids, CancelRestore
<1>11. /\ \A d \in Checkouts : Reserving(d) => p \notin co[d].done
       /\ \A m \in Cancels : Restoring(m) => p \notin cx[m].done
  BY <1>6 DEF ProductHolders, Reserving, Restoring
<1>12. MixedApart'
  <2>1. co' = co
    BY DEF CancelRestore
  <2>. QED
    BY <1>2, <1>4, <1>7, <1>11, <2>1 DEF MixedApart, Reserving, Restoring
<1>13. CancelsApart'
  BY <1>2, <1>4, <1>7, <1>11 DEF CancelsApart, Restoring
<1>. QED
  BY <1>8, <1>9, <1>10, <1>12, <1>13

\* The commit gives back the units of an order that nobody else touches.
LEMMA CancelCommitStep ==
    ASSUME InventoryInv, NEW n \in Cancels, CancelCommit(n)
    PROVE  InventoryInv'
<1>. DEFINE o == cx[n].order
            r == [cx[n] EXCEPT !.pc = "ended", !.done = {}, !.next = NoProduct]
<1>. USE DEF InventoryInv
<1>1. cx[n] \in CancelRequests /\ o \in OrderIds /\ Restoring(n) /\ orders[o] = "PENDING"
  BY CancelTyped DEF OrdersRest, CancelCommit, Restoring
<1>2. r \in CancelRequests /\ r.pc = "ended" /\ r.done = {}
  BY <1>1 DEF CancelRequests, CancelPcs
<1>3. /\ cx' \in [Cancels -> CancelRequests]
      /\ cx'[n] = r
      /\ \A m \in Cancels \ {n} : cx'[m] = cx[m]
  <2>1. cx' = [cx EXCEPT ![n] = r]
    BY DEF CancelCommit, EndCancel
  <2>. QED
    BY <1>2, <2>1, OneCancel
<1>. HIDE DEF r
<1>4. \A p \in Products : UnitsOf(o, p) \in Nat
  <2>1. co[o[1]] \in CheckoutRequests
    BY <1>1, OrderIdParts, CheckoutTyped
  <2>. QED
    BY <2>1, LinesTyped DEF UnitsOf, LinesOf, Ids
<1>5. /\ stock' \in [Products -> Nat]
      /\ \A p \in Products : stock[p] \in Nat /\ stock[p] <= stock'[p]
  <2>1. /\ \A p \in Products : stock[p] \in Nat
        /\ stock' = [p \in Products |-> stock[p] + UnitsOf(o, p)]
    BY DEF CancelCommit, Typed, TypeOK
  <2>. HIDE DEF o
  <2>2. \A p \in Products : stock'[p] = stock[p] + UnitsOf(o, p)
    BY <2>1
  <2>. QED
    BY <1>4, <2>1, <2>2
<1>6. /\ orders' \in [OrderIds -> {"NONE", "PENDING", "PAID", "CANCELLED"}]
      /\ \A q \in OrderIds \ {o} : orders'[q] = orders[q]
  BY <1>1 DEF CancelCommit, Typed, TypeOK
<1>7. UNCHANGED <<status, cart, co, form, editsLeft, listingEditsLeft>>
  BY DEF CancelCommit, listingVars
<1>8. Typed'
  BY <1>3, <1>5, <1>6, <1>7 DEF Typed, TypeOK, CancelRequests
<1>9. Phases'
  BY <1>2, <1>3, <1>7 DEF Phases, CheckoutPhase
<1>10. ASSUME NEW c \in Checkouts, Reserving(c)
       PROVE  LinesHeld(c)'
  <2>1. LinesHeld(c) /\ co[c] \in CheckoutRequests
    BY <1>10, CheckoutTyped DEF Holds
  <2>2. \A p \in co[c].done : co[c].lines[p] <= stock'[p]
    <3>1. ASSUME NEW p \in co[c].done
          PROVE  co[c].lines[p] <= stock'[p]
      <4>1. p \in Products /\ co[c].lines[p] \in Nat /\ co[c].lines[p] <= stock[p]
        BY <2>1, <3>1, LinesTyped DEF CheckoutRequests, LinesHeld
      <4>2. stock[p] \in Nat /\ stock'[p] \in Nat /\ stock[p] <= stock'[p]
        BY <1>5, <4>1
      <4>. QED
        BY <4>1, <4>2
    <3>. QED
      BY <3>1
  <2>. QED
    BY <1>7, <2>1, <2>2 DEF LinesHeld, Ids
<1>11. Holds'
  BY <1>7, <1>10 DEF Holds, Reserving
<1>12. CheckoutsApart'
  BY <1>7 DEF CheckoutsApart, Reserving, Ids
<1>13. \A m \in Cancels : Restoring(m)' => m # n /\ Restoring(m) /\ cx'[m] = cx[m]
  BY <1>2, <1>3 DEF Restoring
<1>14. MixedApart' /\ CancelsApart'
  BY <1>7, <1>13 DEF MixedApart, CancelsApart, Reserving
<1>15. OrdersRest'
  <2>1. \A q \in OrderIds : orders'[q] # "NONE" => orders[q] # "NONE"
    BY <1>1, <1>6
  <2>2. \A m \in Cancels : Restoring(m)' => cx[m].order # o
    BY <1>1, <1>13 DEF CancelsApart
  <2>3. \A m \in Cancels : cx'[m].pc \in {"claim", "restore"} => cx'[m].order \in OrderIds
    BY <1>2, <1>3 DEF OrdersRest
  <2>4. \A m \in Cancels : Restoring(m)' => orders'[cx'[m].order] = "PENDING"
    BY <1>6, <1>13, <2>2 DEF OrdersRest, Restoring
  <2>. QED
    BY <1>7, <2>1, <2>3, <2>4 DEF OrdersRest, Restoring
<1>. QED
  BY <1>8, <1>9, <1>11, <1>12, <1>14, <1>15

LEMMA LoseCancelStep ==
    ASSUME InventoryInv, NEW n \in Cancels, LoseCancel(n)
    PROVE  InventoryInv'
  BY CancelEnds DEF LoseCancel

\* A payment needs the order for itself, so it never meets a restore.
LEMMA MarkPaidStep ==
    ASSUME InventoryInv, NEW o \in OrderIds, MarkPaid(o)
    PROVE  InventoryInv'
<1>. USE DEF InventoryInv
<1>1. UNCHANGED <<stock, cart, co, cx, status, form, editsLeft, listingEditsLeft>>
  BY DEF MarkPaid, listingVars
<1>2. /\ orders' \in [OrderIds -> {"NONE", "PENDING", "PAID", "CANCELLED"}]
      /\ \A q \in OrderIds \ {o} : orders'[q] = orders[q]
      /\ orders[o] # "NONE"
  BY DEF MarkPaid, Typed, TypeOK
<1>3. Typed' /\ Phases' /\ Holds' /\ CheckoutsApart' /\ MixedApart' /\ CancelsApart'
  BY <1>1, <1>2 DEF Typed, TypeOK, Phases, CheckoutPhase, Holds, LinesHeld, CheckoutsApart,
     MixedApart, CancelsApart, Reserving, Restoring, Ids
<1>4. \A n \in Cancels : Restoring(n) => cx[n].order # o
  BY DEF MarkPaid, OrderHolders, Restoring
<1>5. OrdersRest'
  BY <1>1, <1>2, <1>4 DEF OrdersRest, Restoring
<1>. QED
  BY <1>3, <1>5

\* What the rows of products and forms may become without disturbing a request.
LEMMA ListingWrite ==
    ASSUME InventoryInv, NEW p \in Products,
           UNCHANGED <<cart, orders, co, cx, editsLeft>>,
           stock' \in [Products -> Nat], status' \in [Products -> ListingStatus],
           form' \in [Products -> SUBSET Nat], listingEditsLeft' \in 0 .. MaxListingEdits,
           \A q \in Products \ {p} : stock'[q] = stock[q],
           stock'[p] = stock[p] \/ ProductHolders(p) = {}
    PROVE  InventoryInv'
<1>. USE DEF InventoryInv
<1>1. Typed'
  BY DEF Typed, TypeOK
<1>2. Phases' /\ CheckoutsApart' /\ MixedApart' /\ CancelsApart' /\ OrdersRest'
  BY DEF Phases, CheckoutPhase, CheckoutsApart, MixedApart, CancelsApart, OrdersRest,
     Reserving, Restoring, Ids
<1>3. ASSUME NEW c \in Checkouts, Reserving(c)
      PROVE  LinesHeld(c)'
  <2>1. LinesHeld(c) /\ co[c] \in CheckoutRequests
    BY <1>3, CheckoutTyped DEF Holds
  <2>2. ASSUME NEW q \in co[c].done PROVE stock'[q] = stock[q]
    BY <1>3, <2>1, <2>2 DEF ProductHolders, Reserving, CheckoutRequests
  <2>. QED
    BY <2>1, <2>2 DEF LinesHeld, Ids
<1>4. Holds'
  BY <1>3 DEF Holds, Reserving
<1>. QED
  BY <1>1, <1>2, <1>4

LEMMA ListingStep ==
    ASSUME InventoryInv, NEW p \in Products,
           SetListingStatus(p) \/ OpenListingForm(p) \/ UpdateListing(p)
    PROVE  InventoryInv'
<1>1. /\ stock \in [Products -> Nat] /\ status \in [Products -> ListingStatus]
      /\ form \in [Products -> SUBSET Nat] /\ listingEditsLeft \in 0 .. MaxListingEdits
  BY DEF InventoryInv, Typed, TypeOK
<1>2. listingEditsLeft > 0 => listingEditsLeft - 1 \in 0 .. MaxListingEdits
  BY <1>1, InventoryAssumption
<1>3. CASE SetListingStatus(p)
  <2>1. status' \in [Products -> ListingStatus]
    BY <1>1, <1>3 DEF SetListingStatus
  <2>. QED
    BY <1>1, <1>2, <1>3, <2>1, ListingWrite DEF SetListingStatus
<1>4. CASE OpenListingForm(p)
  <2>1. form' \in [Products -> SUBSET Nat]
    BY <1>1, <1>4 DEF OpenListingForm
  <2>. QED
    BY <1>1, <1>4, <2>1, ListingWrite DEF OpenListingForm
<1>5. CASE UpdateListing(p)
  <2>1. PICK filled \in form[p] : \E quantity \in {filled, filled + 1} :
            stock' = [stock EXCEPT ![p] = quantity]
    BY <1>5 DEF UpdateListing
  <2>2. stock' \in [Products -> Nat] /\ \A q \in Products \ {p} : stock'[q] = stock[q]
    BY <1>1, <2>1
  <2>3. status' \in [Products -> ListingStatus] /\ form' \in [Products -> SUBSET Nat]
    BY <1>1, <1>5 DEF UpdateListing
  <2>. QED
    BY <1>1, <1>2, <1>5, <2>2, <2>3, ListingWrite DEF UpdateListing
<1>. QED
  BY <1>3, <1>4, <1>5

-------------------------------------------------------------------------------
LEMMA InventoryStep == InventoryInv /\ [Next]_vars => InventoryInv'
<1>. SUFFICES ASSUME InventoryInv, [Next]_vars PROVE InventoryInv'
  OBVIOUS
<1>1. ASSUME NEW c \in Checkouts, CheckoutStep(c) \/ LoseCheckout(c) PROVE InventoryInv'
  BY <1>1, ReadCartStep, ReadProductsStep, ClaimCartStep, ReserveLineStep, CollideStep,
     CommitCheckoutStep, LoseCheckoutStep DEF CheckoutStep
<1>2. ASSUME NEW n \in Cancels,
             CancelStep(n) \/ LoseCancel(n) \/ \E o \in OrderIds : CancelRead(n, o)
      PROVE  InventoryInv'
  BY <1>2, CancelReadStep, CancelClaimStep, CancelRestoreStep, CancelCommitStep, LoseCancelStep
     DEF CancelStep
<1>3. CASE UNCHANGED vars
  BY <1>3 DEF vars, InventoryInv, Typed, TypeOK, Phases, CheckoutPhase, Holds, LinesHeld,
     CheckoutsApart, MixedApart, CancelsApart, OrdersRest, Reserving, Restoring, Ids
<1>. QED
  BY <1>1, <1>2, <1>3, EditCartStep, MarkPaidStep, ListingStep DEF Next

\* The inductive invariant: what each transaction has read or written is locked by
\* it alone and is still as it was, whatever the others do (checkoutCart and
\* cancelOrder, modules/orders/service.ts:181-422 and order-transition-service.ts).
THEOREM InventoryInvariant == Spec => []InventoryInv
<1>. QED
  BY InventoryStart, InventoryStep, PTL DEF Spec

\* No stock is ever negative, in any number of checkouts, cancellations, cart edits
\* and listing edits: the guarded decrement and the row lock are enough.
THEOREM InventoryTyped == Spec => []TypeOK
<1>1. InventoryInv => TypeOK
  BY DEF InventoryInv, Typed
<1>. QED
  BY <1>1, InventoryInvariant, PTL

\* No product row is held by two transactions, and nobody restores the units of an
\* order twice.
THEOREM RowsLockedOnce == Spec => [](OneHolder /\ CancelsApart)
<1>1. InventoryInv => OneHolder /\ CancelsApart
  <2>. SUFFICES ASSUME InventoryInv PROVE OneHolder
    BY DEF InventoryInv
  <2>. SUFFICES ASSUME NEW p \in Products, NEW s \in ProductHolders(p),
                       NEW t \in ProductHolders(p), s # t
                PROVE  FALSE
    BY DEF OneHolder
  <2>1. CASE s \in Checkouts /\ t \in Checkouts
    BY <2>1, InventoryAssumption DEF InventoryInv, CheckoutsApart, ProductHolders, Reserving
  <2>2. CASE s \in Checkouts /\ t \in Cancels
    BY <2>2, InventoryAssumption DEF InventoryInv, MixedApart, ProductHolders, Reserving,
       Restoring
  <2>3. CASE s \in Cancels /\ t \in Checkouts
    BY <2>3, InventoryAssumption DEF InventoryInv, MixedApart, ProductHolders, Reserving,
       Restoring
  <2>4. CASE s \in Cancels /\ t \in Cancels
    BY <2>4, InventoryAssumption DEF InventoryInv, CancelsApart, ProductHolders, Restoring
  <2>. QED
    BY <2>1, <2>2, <2>3, <2>4 DEF ProductHolders
<1>. QED
  BY <1>1, InventoryInvariant, PTL

\* An order is created with exactly the quantities the cart holds at that moment,
\* and takes those lines out of the cart (modules/orders/service.ts:280-306).
THEOREM OrdersAreCarts == Spec => OrdersMatchCart
<1>. DEFINE Created(o) == orders[o] = "NONE" /\ orders'[o] # "NONE"
            Moved(o) == \A p \in LinesOf(o) :
                            /\ cart[BuyerOf[o[1]]][p] = UnitsOf(o, p)
                            /\ cart'[BuyerOf[o[1]]][p] = 0
<1>1. ASSUME InventoryInv, [Next]_vars, NEW o \in OrderIds, Created(o)
      PROVE  Moved(o)
  <2>1. CASE \E c \in Checkouts : CommitCheckout(c)
    <3>1. PICK c \in Checkouts : CommitCheckout(c)
      BY <2>1
    <3>2. o[1] = c /\ LinesHeld(c) /\ BuyerOf[c] \in Buyers
      BY <1>1, <3>1, InventoryAssumption
         DEF CommitCheckout, InventoryInv, Holds, Reserving, Typed, TypeOK
    <3>3. ASSUME NEW p \in LinesOf(o)
          PROVE  /\ cart[BuyerOf[c]][p] = UnitsOf(o, p)
                 /\ cart'[BuyerOf[c]][p] = 0
      <4>1. p \in Products /\ co[c].lines[p] > 0 /\ UnitsOf(o, p) = co[c].lines[p]
        BY <3>2, <3>3 DEF LinesOf, Ids, UnitsOf
      <4>2. cart[BuyerOf[c]][p] = co[c].lines[p]
        BY <3>2, <4>1 DEF LinesHeld, Ids
      <4>3. cart'[BuyerOf[c]][p] = 0
        BY <1>1, <3>1, <3>2, <4>1 DEF CommitCheckout, InventoryInv, Typed, TypeOK
      <4>. QED
        BY <4>1, <4>2, <4>3
    <3>. QED
      BY <3>2, <3>3
  <2>2. CASE ~\E c \in Checkouts : CommitCheckout(c)
    <3>1. orders' = orders \/ (\E n \in Cancels : CancelCommit(n)) \/ \E q \in OrderIds : MarkPaid(q)
      BY <1>1, <2>2 DEF Next, CheckoutStep, CancelStep, vars, ReadCart, ReadProducts, ClaimCart,
         ReserveLine, OrderNumberCollides, LoseCheckout, CancelRead, CancelClaim, CancelRestore,
         LoseCancel, EditCart, SetListingStatus, OpenListingForm, UpdateListing
    <3>2. CASE \E n \in Cancels : CancelCommit(n)
      <4>1. PICK n \in Cancels : CancelCommit(n)
        BY <3>2
      <4>2. orders[cx[n].order] = "PENDING"
        BY <1>1, <4>1 DEF InventoryInv, OrdersRest, Restoring, CancelCommit
      <4>. QED
        BY <1>1, <4>1, <4>2 DEF CancelCommit, InventoryInv, Typed, TypeOK
    <3>3. CASE \E q \in OrderIds : MarkPaid(q)
      BY <1>1, <3>3 DEF MarkPaid, InventoryInv, Typed, TypeOK
    <3>. QED
      BY <1>1, <3>1, <3>2, <3>3
  <2>. QED
    BY <2>1, <2>2
<1>2. InventoryInv /\ [Next]_vars => [\A o \in OrderIds : Created(o) => Moved(o)]_vars
  BY <1>1
<1>. QED
  BY <1>2, InventoryInvariant, PTL DEF Spec, OrdersMatchCart

-------------------------------------------------------------------------------
\* The numbered units of one order, and the units of all of them.
LEMMA UnitsCounted ==
    ASSUME NEW o, NEW k \in Nat
    PROVE  IsFiniteSet({o} \X (1 .. k)) /\ Cardinality({o} \X (1 .. k)) = k
<1>1. IsFiniteSet({o}) /\ Cardinality({o}) = 1
  BY FS_Singleton
<1>2. IsFiniteSet(1 .. k) /\ Cardinality(1 .. k) = k
  BY FS_Interval
<1>3. /\ IsFiniteSet({o} \X (1 .. k))
      /\ Cardinality({o} \X (1 .. k)) = Cardinality({o}) * Cardinality(1 .. k)
  BY <1>1, <1>2, FS_Product
<1>. QED
  BY <1>1, <1>2, <1>3

LEMMA UnitsSoldFinite ==
    ASSUME NEW p \in Products
    PROVE  IsFiniteSet(UnitsSold(p))
<1>1. IsFiniteSet(Sellers)
  <2>. DEFINE f == [q \in Products |-> SellerOf[q]]
  <2>1. f \in Surjection(Products, Sellers)
    BY DEF Surjection, Sellers
  <2>. QED
    BY <2>1, FS_Surjection, InventoryAssumption
<1>2. IsFiniteSet(OrderIds \X (1 .. MaxQuantity))
  <2>1. IsFiniteSet(OrderIds)
    BY <1>1, FS_Product, InventoryAssumption DEF OrderIds
  <2>2. IsFiniteSet(1 .. MaxQuantity)
    BY FS_Interval, InventoryAssumption
  <2>. QED
    BY <2>1, <2>2, FS_Product
<1>. QED
  BY <1>2, FS_Subset DEF UnitsSold

LEMMA UnitsTyped ==
    ASSUME Typed, NEW o \in OrderIds, NEW p \in Products
    PROVE  UnitsOf(o, p) \in 0 .. MaxQuantity
<1>1. co[o[1]].lines \in [Products -> 0 .. MaxQuantity]
  BY OrderIdParts, CheckoutTyped DEF CheckoutRequests
<1>2. 0 \in 0 .. MaxQuantity
  BY InventoryAssumption
<1>. QED
  BY <1>1, <1>2 DEF UnitsOf

\* The lines of a request that has ended do not change any more.
LEMMA EndedStays ==
    ASSUME InventoryInv, [Next]_vars, NEW c \in Checkouts, co[c].pc = "ended"
    PROVE  co'[c] = co[c]
<1>1. ASSUME NEW d \in Checkouts, CheckoutStep(d) \/ LoseCheckout(d)
      PROVE  d # c /\ \E r : co' = [co EXCEPT ![d] = r]
  BY <1>1 DEF CheckoutStep, LoseCheckout, ReadCart, ReadProducts, ClaimCart, ReserveLine,
     OrderNumberCollides, CommitCheckout, EndCheckout
<1>2. ASSUME NEW d \in Checkouts, CheckoutStep(d) \/ LoseCheckout(d)
      PROVE  co'[c] = co[c]
  BY <1>1, <1>2 DEF InventoryInv, Typed, TypeOK
<1>. QED
  BY <1>2 DEF Next, vars, CancelStep, CancelRead, CancelClaim, CancelRestore, CancelCommit,
     LoseCancel, EditCart, MarkPaid, SetListingStatus, OpenListingForm, UpdateListing

LEMMA UnitsStay ==
    ASSUME InventoryInv, [Next]_vars, NEW o \in OrderIds, orders[o] # "NONE", NEW p \in Products
    PROVE  UnitsOf(o, p)' = UnitsOf(o, p)
<1>1. co'[o[1]] = co[o[1]]
  BY OrderIdParts, EndedStays DEF InventoryInv, OrdersRest
<1>. QED
  BY <1>1 DEF UnitsOf, LinesOf, Ids

\* The commit of a checkout moves the units of its lines from stock to orders.
LEMMA CommitConserves ==
    ASSUME InventoryInv, UnitsConserved, NEW c \in Checkouts, CommitCheckout(c),
           NEW p \in Products
    PROVE  (stock[p] + Cardinality(UnitsSold(p)) = InitialStock[p])'
<1>. DEFINE o    == <<c, SellerOf[p]>>
            k    == co[c].lines[p]
            new  == {o} \X (1 .. k)
<1>1. o \in OrderIds /\ co[c] \in CheckoutRequests /\ Reserving(c) /\ Typed /\ OrdersRest
  BY CheckoutTyped DEF OrderIds, Sellers, InventoryInv, CommitCheckout, Reserving
<1>2. k \in 0 .. MaxQuantity /\ k \in Nat
  BY <1>1, InventoryAssumption DEF CheckoutRequests
<1>3. /\ stock'[p] = stock[p] - k
      /\ co' = [co EXCEPT ![c].pc = "ended", ![c].done = {}]
      /\ \A q \in OrderIds : orders'[q] = IF q[1] = c /\ LinesOf(q) # {} THEN "PENDING" ELSE orders[q]
  BY DEF CommitCheckout, EndCheckout
<1>4. \A q \in OrderIds : UnitsOf(q, p)' = UnitsOf(q, p)
  BY <1>3, OrderIdParts DEF UnitsOf, LinesOf, Ids, InventoryInv, Typed, TypeOK
<1>5. \A q \in OrderIds : q[1] = c => ~Live(q)
  BY <1>1, OrderIdParts DEF OrdersRest, Reserving, Live
<1>6. \A q \in OrderIds : q[1] # c => (Live(q)' <=> Live(q))
  BY <1>3 DEF Live
<1>7. \A q \in OrderIds : UnitsOf(q, p) # 0 => p \in LinesOf(q)
  BY DEF UnitsOf
<1>8. \A q \in OrderIds : q[1] = c /\ p \in LinesOf(q) => q = o
  BY OrderIdParts DEF LinesOf
<1>9. p \in LinesOf(o) => Live(o)' /\ UnitsOf(o, p) = k
  BY <1>1, <1>3 DEF Live, UnitsOf
<1>10. p \notin LinesOf(o) => k = 0
  BY <1>2 DEF LinesOf, Ids
<1>11. UnitsSold(p)' = UnitsSold(p) \cup new
  <2>1. ASSUME NEW u \in OrderIds \X (1 .. MaxQuantity)
        PROVE  Live(u[1])' /\ u[2] <= UnitsOf(u[1], p)
                 <=> (Live(u[1]) /\ u[2] <= UnitsOf(u[1], p)) \/ u \in new
    <3>1. u[1] \in OrderIds /\ u[2] \in 1 .. MaxQuantity /\ u = <<u[1], u[2]>>
      OBVIOUS
    <3>2. UnitsOf(u[1], p) \in 0 .. MaxQuantity
      BY <1>1, <3>1, UnitsTyped
    <3>3. u[2] <= UnitsOf(u[1], p) => p \in LinesOf(u[1])
      BY <1>7, <3>1, <3>2
    <3>4. u \in new <=> u[1] = o /\ u[2] <= k
      BY <1>2, <3>1
    <3>5. CASE u[1][1] # c
      BY <1>6, <3>1, <3>4, <3>5
    <3>6. CASE u[1][1] = c
      <4>1. ~Live(u[1])
        BY <1>5, <3>1, <3>6
      <4>2. CASE u[1] = o
        <5>1. CASE p \in LinesOf(o)
          BY <1>9, <3>4, <4>1, <4>2, <5>1
        <5>2. CASE p \notin LinesOf(o)
          BY <1>10, <3>1, <3>3, <3>4, <4>1, <4>2, <5>2
        <5>. QED
          BY <5>1, <5>2
      <4>3. CASE u[1] # o
        BY <1>8, <3>1, <3>3, <3>4, <3>6, <4>1, <4>3
      <4>. QED
        BY <4>2, <4>3
    <3>. QED
      BY <3>5, <3>6
  <2>2. new \subseteq OrderIds \X (1 .. MaxQuantity)
    <3>1. 1 .. k \subseteq 1 .. MaxQuantity
      BY <1>2, InventoryAssumption
    <3>. QED
      BY <1>1, <3>1
  <2>3. UnitsSold(p)' = {u \in OrderIds \X (1 .. MaxQuantity) :
                            Live(u[1])' /\ u[2] <= UnitsOf(u[1], p)}
    BY <1>4 DEF UnitsSold
  <2>. HIDE DEF new
  <2>. QED
    BY <2>1, <2>2, <2>3 DEF UnitsSold
<1>12. UnitsSold(p) \cap new = {}
  BY <1>5, <1>1 DEF UnitsSold
<1>13. /\ IsFiniteSet(new) /\ Cardinality(new) = k
       /\ IsFiniteSet(UnitsSold(p)) /\ Cardinality(UnitsSold(p)) \in Nat
  BY <1>2, UnitsCounted, UnitsSoldFinite, FS_CardinalityType
<1>14. Cardinality(UnitsSold(p))' = Cardinality(UnitsSold(p)) + k
  <2>. HIDE DEF new, k
  <2>1. Cardinality(UnitsSold(p) \cap new) = 0
    BY <1>12, FS_EmptySet
  <2>2. Cardinality(UnitsSold(p) \cup new)
            = Cardinality(UnitsSold(p)) + Cardinality(new) - Cardinality(UnitsSold(p) \cap new)
    BY <1>13, FS_Union
  <2>. QED
    BY <1>11, <1>12, <1>13, <1>2, <2>1, <2>2
<1>15. stock[p] \in Nat /\ stock[p] + Cardinality(UnitsSold(p)) = InitialStock[p]
  BY <1>1 DEF Typed, TypeOK, UnitsConserved
<1>. QED
  BY <1>2, <1>3, <1>13, <1>14, <1>15

\* The commit of a cancellation moves the units of the order back.
LEMMA CancelConserves ==
    ASSUME InventoryInv, UnitsConserved, NEW n \in Cancels, CancelCommit(n),
           NEW p \in Products
    PROVE  (stock[p] + Cardinality(UnitsSold(p)) = InitialStock[p])'
<1>0. PICK o \in OrderIds : o = cx[n].order
  BY DEF InventoryInv, OrdersRest, CancelCommit
<1>. DEFINE k   == UnitsOf(o, p)
            old == {o} \X (1 .. k)
<1>1. o \in OrderIds /\ orders[o] = "PENDING" /\ Typed
  BY <1>0 DEF InventoryInv, OrdersRest, CancelCommit, Restoring
<1>2. k \in 0 .. MaxQuantity /\ k \in Nat
  BY <1>1, UnitsTyped, InventoryAssumption
<1>3. /\ stock'[p] = stock[p] + k
      /\ co' = co
      /\ orders' = [orders EXCEPT ![o] = "CANCELLED"]
  BY <1>0 DEF CancelCommit
<1>4. Live(o) /\ ~Live(o)' /\ \A q \in OrderIds \ {o} : Live(q)' <=> Live(q)
  BY <1>1, <1>3 DEF Live, Typed, TypeOK
<1>5. \A q \in OrderIds : UnitsOf(q, p)' = UnitsOf(q, p)
  BY <1>3 DEF UnitsOf, LinesOf, Ids
<1>6. UnitsSold(p)' = UnitsSold(p) \ old
  <2>1. ASSUME NEW u \in OrderIds \X (1 .. MaxQuantity)
        PROVE  Live(u[1])' /\ u[2] <= UnitsOf(u[1], p)
                 <=> (Live(u[1]) /\ u[2] <= UnitsOf(u[1], p)) /\ u \notin old
    <3>1. u[1] \in OrderIds /\ u[2] \in 1 .. MaxQuantity /\ u = <<u[1], u[2]>>
      OBVIOUS
    <3>2. u \in old <=> u[1] = o /\ u[2] <= k
      BY <1>2, <3>1
    <3>3. CASE u[1] = o
      BY <1>4, <3>2, <3>3
    <3>4. CASE u[1] # o
      BY <1>4, <3>1, <3>2, <3>4
    <3>. QED
      BY <3>3, <3>4
  <2>2. UnitsSold(p)' = {u \in OrderIds \X (1 .. MaxQuantity) :
                            Live(u[1])' /\ u[2] <= UnitsOf(u[1], p)}
    BY <1>5 DEF UnitsSold
  <2>. HIDE DEF old
  <2>. QED
    BY <2>1, <2>2 DEF UnitsSold
<1>7. UnitsSold(p) \cap old = old
  <2>1. ASSUME NEW i \in 1 .. k
        PROVE  <<o, i>> \in UnitsSold(p)
    BY <1>1, <1>2, <1>4, InventoryAssumption DEF UnitsSold
  <2>. QED
    BY <2>1
<1>8. /\ IsFiniteSet(old) /\ Cardinality(old) = k
      /\ IsFiniteSet(UnitsSold(p)) /\ Cardinality(UnitsSold(p)) \in Nat
  BY <1>2, UnitsCounted, UnitsSoldFinite, FS_CardinalityType
<1>. HIDE DEF old
<1>9. Cardinality(UnitsSold(p))' = Cardinality(UnitsSold(p)) - k
  <2>. HIDE DEF k
  <2>1. Cardinality(UnitsSold(p) \ old)
            = Cardinality(UnitsSold(p)) - Cardinality(UnitsSold(p) \cap old)
    BY <1>8, FS_Difference
  <2>. QED
    BY <1>6, <1>7, <1>8, <2>1
<1>10. stock[p] \in Nat /\ stock[p] + Cardinality(UnitsSold(p)) = InitialStock[p]
  BY <1>1 DEF Typed, TypeOK, UnitsConserved
<1>. HIDE DEF k
<1>. QED
  BY <1>2, <1>3, <1>8, <1>9, <1>10

\* Every other step moves no unit: an order that is paid keeps them.
LEMMA OtherStepsConserve ==
    ASSUME InventoryInv, UnitsConserved, [Next]_vars, NEW p \in Products,
           stock' = stock, \A o \in OrderIds : Live(o)' <=> Live(o)
    PROVE  (stock[p] + Cardinality(UnitsSold(p)) = InitialStock[p])'
<1>1. \A o \in OrderIds : Live(o) => UnitsOf(o, p)' = UnitsOf(o, p)
  BY UnitsStay DEF Live
<1>2. UnitsSold(p)' = UnitsSold(p)
  BY <1>1 DEF UnitsSold
<1>. QED
  BY <1>2 DEF UnitsConserved

LEMMA NoEditConserves ==
    ASSUME InventoryInv, UnitsConserved, [Next]_vars,
           [\A p \in Products : ~UpdateListing(p)]_vars
    PROVE  UnitsConserved'
<1>1. CASE \E c \in Checkouts : CommitCheckout(c)
  BY <1>1, CommitConserves DEF UnitsConserved
<1>2. CASE \E n \in Cancels : CancelCommit(n)
  BY <1>2, CancelConserves DEF UnitsConserved
<1>3. CASE \E o \in OrderIds : MarkPaid(o)
  <2>1. PICK o \in OrderIds : MarkPaid(o)
    BY <1>3
  <2>2. orders[o] = "PENDING"
    BY <2>1 DEF MarkPaid, CanTransitionOrder, ORDER_TRANSITIONS, OrderStatus, InventoryInv,
       Typed, TypeOK
  <2>3. stock' = stock /\ orders' = [orders EXCEPT ![o] = "PAID"]
    BY <2>1 DEF MarkPaid
  <2>4. \A q \in OrderIds : Live(q)' <=> Live(q)
    BY <2>2, <2>3 DEF Live, InventoryInv, Typed, TypeOK
  <2>. QED
    BY <2>3, <2>4, OtherStepsConserve DEF UnitsConserved
<1>4. CASE stock' = stock /\ orders' = orders
  BY <1>4, OtherStepsConserve DEF UnitsConserved, Live
<1>5. \/ \E c \in Checkouts : CommitCheckout(c)
      \/ \E n \in Cancels : CancelCommit(n)
      \/ \E o \in OrderIds : MarkPaid(o)
      \/ stock' = stock /\ orders' = orders
  BY DEF Next, CheckoutStep, CancelStep, vars, ReadCart, ReadProducts, ClaimCart,
     ReserveLine, OrderNumberCollides, LoseCheckout, CancelRead, CancelClaim, CancelRestore,
     LoseCancel, EditCart, SetListingStatus, OpenListingForm
<1>. QED
  BY <1>1, <1>2, <1>3, <1>4, <1>5

LEMMA UnitsStart == Init => UnitsConserved
<1>. SUFFICES ASSUME Init, NEW p \in Products
              PROVE  stock[p] + Cardinality(UnitsSold(p)) = InitialStock[p]
  BY DEF UnitsConserved
<1>1. UnitsSold(p) = {}
  BY OrderIdParts DEF Init, UnitsSold, Live
<1>2. Cardinality(UnitsSold(p)) = 0
  BY <1>1, FS_EmptySet
<1>. QED
  BY <1>2, InventoryAssumption DEF Init

\* Units are conserved, in any number of checkouts, cancellations, payments, retries
\* and rollbacks, as long as no seller writes a quantity over what was sold
\* meanwhile (cancelOrder, order-transition-service.ts:50-57; checkoutCart,
\* modules/orders/service.ts:192-199; updateListing is the exception).
THEOREM StockIsConserved ==
    Spec /\ [][\A p \in Products : ~UpdateListing(p)]_vars => []UnitsConserved
<1>1. Init => UnitsConserved
  BY UnitsStart
<1>2. InventoryInv /\ UnitsConserved /\ [Next]_vars /\ [\A p \in Products : ~UpdateListing(p)]_vars
        => UnitsConserved'
  BY NoEditConserves
<1>. QED
  BY <1>1, <1>2, InventoryInvariant, PTL DEF Spec

\* Until the first edit of a listing, units are conserved in every behaviour.
THEOREM StockStaysConserved == Spec => []StockConserved
<1>1. Init => StockConserved
  BY UnitsStart DEF StockConserved
<1>2. InventoryInv /\ StockConserved /\ [Next]_vars => StockConserved'
  <2>. SUFFICES ASSUME InventoryInv, StockConserved, [Next]_vars,
                       listingEditsLeft' = MaxListingEdits
                PROVE  UnitsConserved'
    BY DEF StockConserved
  <2>1. listingEditsLeft \in 0 .. MaxListingEdits
    BY DEF InventoryInv, Typed, TypeOK
  <2>2. \/ listingEditsLeft' = listingEditsLeft
        \/ listingEditsLeft > 0 /\ listingEditsLeft' = listingEditsLeft - 1
    BY DEF Next, CheckoutStep, CancelStep, vars, listingVars, ReadCart, ReadProducts,
       ClaimCart, ReserveLine, OrderNumberCollides, CommitCheckout, LoseCheckout,
       CancelRead, CancelClaim, CancelRestore, CancelCommit, LoseCancel, MarkPaid,
       EditCart, SetListingStatus, OpenListingForm, UpdateListing
  <2>3. listingEditsLeft = MaxListingEdits /\ listingEditsLeft' = listingEditsLeft
    BY <2>1, <2>2, InventoryAssumption
  <2>4. [\A p \in Products : ~UpdateListing(p)]_vars
    BY <2>1, <2>3 DEF UpdateListing
  <2>. QED
    BY <2>3, <2>4, NoEditConserves DEF StockConserved
<1>. QED
  BY <1>1, <1>2, InventoryInvariant, PTL DEF Spec

-------------------------------------------------------------------------------
\* Within one seller, a checkout takes its rows in ascending order.
LockOrder ==
    \A c \in Checkouts : Reserving(c) =>
        \A p \in co[c].done, q \in ToReserve(c) : SellerOf[p] = SellerOf[q] => p < q

LEMMA GreatestExists ==
    ASSUME NEW T \in SUBSET Nat, IsFiniteSet(T), T # {}
    PROVE  \E m \in T : \A t \in T : t <= m
<1>. DEFINE Above(t) == {s \in T : s > t}
            sizes    == {Cardinality(Above(t)) : t \in T}
<1>1. \A t \in T : IsFiniteSet(Above(t)) /\ Cardinality(Above(t)) \in Nat
  <2>1. ASSUME NEW t \in T PROVE IsFiniteSet(Above(t))
    BY FS_Subset
  <2>. HIDE DEF Above
  <2>. QED
    BY <2>1, FS_CardinalityType
<1>2. PICK n \in sizes : \A k \in sizes : n <= k
  <2>. HIDE DEF Above
  <2>1. sizes \in SUBSET Nat /\ sizes # {}
    BY <1>1
  <2>. QED
    BY <2>1, LeastExists
<1>3. PICK m \in T : n = Cardinality(Above(m))
  OBVIOUS
<1>4. ASSUME NEW s \in T, ~(s <= m)
      PROVE  FALSE
  <2>0. s \in Nat /\ m \in Nat /\ s > m
    BY <1>4
  <2>1. Above(s) \in SUBSET Above(m) /\ s \in Above(m) /\ s \notin Above(s)
    <3>1. \A t \in T : t > s => t > m
      BY <2>0
    <3>2. \A x \in Above(s) : x \in Above(m)
      BY <3>1
    <3>3. s \in Above(m)
      BY <2>0
    <3>4. s \notin Above(s)
      BY <2>0
    <3>. QED
      BY <3>2, <3>3, <3>4, Zenon
  <2>. HIDE DEF Above
  <2>2. Cardinality(Above(s)) <= Cardinality(Above(m)) /\ Cardinality(Above(s)) # Cardinality(Above(m))
    BY <1>1, <2>1, FS_Subset
  <2>3. Cardinality(Above(m)) <= Cardinality(Above(s))
    BY <1>2, <1>3
  <2>. QED
    BY <1>1, <2>2, <2>3
<1>. QED
  BY <1>4

LEMMA NextLineIsLeast ==
    ASSUME NEW c \in Checkouts, NEW q \in ToReserve(c), SellerOf[NextLine(c)] = SellerOf[q]
    PROVE  NextLine(c) <= q
<1>. DEFINE ids == Ids(co[c].lines)
            m   == NextLine(c)
<1>1. /\ m \in ToReserve(c)
      /\ \/ FirstOf(ids, m) < FirstOf(ids, q)
         \/ FirstOf(ids, m) = FirstOf(ids, q) /\ m <= q
  BY NextLineIsLeft
<1>2. ids \subseteq Products /\ m \in ids
  BY <1>1 DEF ToReserve, Ids
<1>3. FirstOf(ids, m) = FirstOf(ids, q)
  BY DEF FirstOf
<1>. HIDE DEF ids, m
<1>4. FirstOf(ids, m) \in Nat
  BY <1>2, FirstOfGroup, InventoryAssumption
<1>. QED
  BY <1>1, <1>3, <1>4 DEF m

LEMMA LockOrderStep ==
    ASSUME InventoryInv, LockOrder, [Next]_vars
    PROVE  LockOrder'
<1>1. ASSUME NEW c \in Checkouts, Reserving(c)',
             NEW p \in co'[c].done, NEW q \in ToReserve(c)', SellerOf[p] = SellerOf[q]
      PROVE  p < q
  <2>1. CASE ClaimCart(c)
    <3>1. co[c].done = {}
      BY <2>1 DEF ClaimCart, InventoryInv, Phases, CheckoutPhase
    <3>. QED
      BY <1>1, <2>1, <3>1 DEF ClaimCart, EndCheckout, Reserving, InventoryInv, Typed, TypeOK
  <2>2. CASE ReserveLine(c)
    <3>. DEFINE m == NextLine(c)
    <3>1. m \in ToReserve(c)
      BY <2>2, NextLineIsLeft DEF ReserveLine
    <3>. HIDE DEF m
    <3>2. co' = [co EXCEPT ![c].done = @ \cup {m}]
      BY <1>1, <2>2 DEF ReserveLine, EndCheckout, Reserving, InventoryInv, Typed, TypeOK, m
    <3>3. Reserving(c) /\ p \in co[c].done \cup {m} /\ q \in ToReserve(c) /\ q # m
      BY <1>1, <2>2, <3>2 DEF ReserveLine, Reserving, ToReserve, Ids, InventoryInv, Typed, TypeOK
    <3>4. CASE p = m
      <4>1. m <= q /\ m \in Products /\ q \in Products
        BY <1>1, <3>1, <3>3, <3>4, NextLineIsLeast DEF ToReserve, Ids, m
      <4>. QED
        BY <3>3, <3>4, <4>1, InventoryAssumption
    <3>5. CASE p \in co[c].done
      BY <1>1, <3>3, <3>5 DEF LockOrder
    <3>. QED
      BY <3>3, <3>4, <3>5
  <2>3. CASE co'[c] = co[c]
    BY <1>1, <2>3 DEF LockOrder, Reserving, ToReserve, Ids
  <2>4. ClaimCart(c) \/ ReserveLine(c) \/ co'[c] = co[c]
    <3>1. ASSUME NEW d \in Checkouts,
                 ReadCart(d) \/ ReadProducts(d) \/ OrderNumberCollides(d) \/ CommitCheckout(d)
                    \/ LoseCheckout(d)
          PROVE  d # c /\ \E r : co' = [co EXCEPT ![d] = r]
      BY <1>1, <3>1 DEF ReadCart, ReadProducts, OrderNumberCollides, CommitCheckout,
         LoseCheckout, EndCheckout, Reserving, InventoryInv, Typed, TypeOK
    <3>2. ASSUME NEW d \in Checkouts, ClaimCart(d) \/ ReserveLine(d)
          PROVE  \E r : co' = [co EXCEPT ![d] = r]
      BY <3>2 DEF ClaimCart, ReserveLine, EndCheckout
    <3>3. ASSUME NEW d \in Checkouts, d # c, \E r : co' = [co EXCEPT ![d] = r]
          PROVE  co'[c] = co[c]
      BY <3>3 DEF InventoryInv, Typed, TypeOK
    <3>4. ASSUME NEW d \in Checkouts, CheckoutStep(d) \/ LoseCheckout(d)
          PROVE  ClaimCart(c) \/ ReserveLine(c) \/ co'[c] = co[c]
      BY <3>1, <3>2, <3>3, <3>4 DEF CheckoutStep
    <3>. QED
      BY <3>4 DEF Next, vars, CancelStep, CancelRead, CancelClaim, CancelRestore, CancelCommit,
         LoseCancel, EditCart, MarkPaid, SetListingStatus, OpenListingForm, UpdateListing
  <2>. QED
    BY <2>1, <2>2, <2>3, <2>4
<1>. QED
  BY <1>1 DEF LockOrder

\* Whatever the ids and the carts are: checkouts that wait for each other in a
\* circle wait for listings of two sellers, because within one seller every
\* checkout takes its rows in ascending order.  modules/orders/service.ts:301-306
\* promises it of all rows, which the grouping by seller undoes.
THEOREM DeadlockTakesTwoSellers == Spec => []NoDeadlockWithinSeller
<1>1. Init => LockOrder
  BY DEF Init, LockOrder, Reserving
<1>2. InventoryInv /\ LockOrder /\ [Next]_vars => LockOrder'
  BY LockOrderStep
<1>3. InventoryInv /\ LockOrder => NoDeadlockWithinSeller
  <2>. SUFFICES ASSUME InventoryInv, LockOrder,
                       NEW S \in SUBSET Checkouts, S # {},
                       \A t \in S : S \cap BlockedBy(t) # {},
                       \A t, u \in S : SellerOf[NextLine(t)] = SellerOf[NextLine(u)]
                PROVE  FALSE
    BY DEF NoDeadlockWithinSeller
  <2>. DEFINE wanted == {NextLine(t) : t \in S}
  <2>1. ASSUME NEW t \in S
        PROVE  /\ Reserving(t) /\ ToReserve(t) # {} /\ NextLine(t) \in ToReserve(t)
               /\ NextLine(t) \in Products
               /\ \E u \in S : Reserving(u) /\ NextLine(t) \in co[u].done
    <3>1. Reserving(t) /\ ToReserve(t) # {} /\ S \cap ProductHolders(NextLine(t)) # {}
      BY DEF BlockedBy, Reserving
    <3>2. NextLine(t) \in ToReserve(t) /\ NextLine(t) \in Products
      BY <3>1, NextLineIsLeft DEF ToReserve, Ids
    <3>3. \E u \in S : Reserving(u) /\ NextLine(t) \in co[u].done
      BY <3>1, InventoryAssumption DEF ProductHolders, Reserving
    <3>. QED
      BY <3>1, <3>2, <3>3
  <2>2. wanted \in SUBSET Products /\ wanted # {}
    BY <2>1
  <2>3. PICK m \in wanted : \A w \in wanted : w <= m
    <3>1. wanted \in SUBSET Nat /\ IsFiniteSet(wanted)
      BY <2>2, FS_Subset, InventoryAssumption
    <3>. QED
      BY <2>2, <3>1, GreatestExists
  <2>4. PICK t \in S : m = NextLine(t)
    BY <2>3
  <2>5. PICK u \in S : Reserving(u) /\ NextLine(t) \in co[u].done
    BY <2>1
  <2>6. m < NextLine(u)
    BY <2>1, <2>4, <2>5 DEF LockOrder
  <2>7. NextLine(u) <= m /\ NextLine(u) \in Nat /\ m \in Nat
    BY <2>1, <2>2, <2>3, InventoryAssumption
  <2>. QED
    BY <2>6, <2>7
<1>. QED
  BY <1>1, <1>2, <1>3, InventoryInvariant, PTL DEF Spec
===============================================================================
