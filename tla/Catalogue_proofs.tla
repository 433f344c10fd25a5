--------------------------- MODULE Catalogue_proofs ---------------------------
(***************************************************************************)
(* Proofs about the catalogue: the line of a cart, the life of a listing,  *)
(* its likes and views, and the directory of categories and sellers.       *)
(***************************************************************************)
EXTENDS Cart, ListingLifecycle, ListingEngagement, MarketDirectory, FiniteSetTheorems, TLAPS

-------------------------------------------------------------------------------
(***************************************************************************)
(* The line of a cart (Cart).                                              *)
(***************************************************************************)
Kinds == {"add", "set"}

Reading == [pc : {"line"}, kind : Kinds, units : Nat \ {0}, stock : 0 .. Listed]

\* Whoever is about to write checked the quantity against what was listed.
Creating == [pc : {"create", "merge"}, kind : Kinds, id : 0 .. MaxRows,
             units : 1 .. Listed, stock : 0 .. Listed]

Writing == [pc : {"write"}, kind : Kinds, id : 1 .. MaxRows,
            units : 1 .. Listed, stock : 0 .. Listed]

CartRequests == {NoCall} \cup Reading \cup Creating \cup Writing

LineTyped == row \in Line /\ (row.id = 0 <=> row.units = 0)

CartInv ==
    /\ stock \in 0 .. Listed /\ onSale \in BOOLEAN /\ ids \in 0 .. MaxRows
    /\ shown \in [CartTabs -> 0 .. Listed]
    /\ LineTyped
    /\ cartRequest \in [CartTabs -> CartRequests]

-------------------------------------------------------------------------------
LEMMA CartStart == CartInit => CartInv
  BY CartAssumption DEF CartInit, CartInv, LineTyped, Line, NoRow, CartRequests, NoCall

\* The record of a request tells which kind of request it is.
LEMMA Stage ==
    ASSUME CartInv, NEW t \in CartTabs
    PROVE  /\ cartRequest[t] \in CartRequests
           /\ cartRequest[t].pc = "line" => cartRequest[t] \in Reading
           /\ cartRequest[t].pc \in {"create", "merge"} => cartRequest[t] \in Creating
           /\ cartRequest[t].pc = "write" => cartRequest[t] \in Writing
           /\ cartRequest[t].pc \in {"idle", "line", "write", "create", "merge"}
<1>1. cartRequest[t] \in CartRequests
  BY DEF CartInv
<1>. QED
  BY <1>1 DEF CartRequests, NoCall, Reading, Creating, Writing

\* A request that only changes its own record keeps the rest.
LEMMA OneCartRequest ==
    ASSUME CartInv, NEW t \in CartTabs, NEW r \in CartRequests,
           cartRequest' = [cartRequest EXCEPT ![t] = r],
           UNCHANGED <<stock, onSale, row, ids, shown>>
    PROVE  CartInv'
  BY DEF CartInv, LineTyped

\* A line that is there has an identifier of its own.
LEMMA LineIsThere ==
    ASSUME CartInv, row # NoRow
    PROVE  row.id \in 1 .. MaxRows /\ row.units \in 1 .. Listed
<1>1. row \in [id : 0 .. MaxRows, units : 0 .. Listed]
  BY DEF CartInv, LineTyped, Line
<1>2. row = [id |-> row.id, units |-> row.units]
  BY <1>1
<1>3. row.id # 0 \/ row.units # 0
  BY <1>2 DEF NoRow
<1>. QED
  BY <1>1, <1>3, CartAssumption DEF CartInv, LineTyped

LEMMA ReadProductStep ==
    ASSUME CartInv, NEW t \in CartTabs, ReadProduct(t)
    PROVE  CartInv'
<1>. stock \in 0 .. Listed /\ shown[t] \in 0 .. Listed
  BY DEF CartInv
<1>1. CASE cartRequest' = [cartRequest EXCEPT ![t] =
               [pc |-> "line", kind |-> "add", units |-> 1, stock |-> stock]]
  <2>1. [pc |-> "line", kind |-> "add", units |-> 1, stock |-> stock] \in CartRequests
    BY DEF CartRequests, Reading, Kinds
  <2>. QED
    BY <1>1, <2>1, OneCartRequest DEF ReadProduct
<1>2. ASSUME shown[t] > 0, NEW units \in {shown[t] - 1, shown[t] + 1} \ {0},
             cartRequest' = [cartRequest EXCEPT ![t] =
                 [pc |-> "line", kind |-> "set", units |-> units, stock |-> stock]]
      PROVE  CartInv'
  <2>1. units \in Nat \ {0}
    BY <1>2, CartAssumption
  <2>2. [pc |-> "line", kind |-> "set", units |-> units, stock |-> stock] \in CartRequests
    BY <2>1 DEF CartRequests, Reading, Kinds
  <2>. QED
    BY <1>2, <2>2, OneCartRequest DEF ReadProduct
<1>. QED
  BY <1>1, <1>2 DEF ReadProduct

LEMMA ReadLineStep ==
    ASSUME CartInv, NEW t \in CartTabs, ReadLine(t)
    PROVE  CartInv'
<1>. DEFINE q     == cartRequest[t]
            units == IF q.kind = "add" THEN row.units + q.units ELSE q.units
            next  == [pc |-> IF row = NoRow THEN "create" ELSE "write", kind |-> q.kind,
                      id |-> row.id, units |-> units, stock |-> q.stock]
<1>1. q.kind \in Kinds /\ q.units \in Nat \ {0} /\ q.stock \in 0 .. Listed
  BY Stage DEF ReadLine, Reading
<1>2. row.id \in 0 .. MaxRows /\ row.units \in 0 .. Listed
  BY DEF CartInv, LineTyped, Line
<1>3. units <= q.stock /\ cartRequest' = [cartRequest EXCEPT ![t] = next]
  BY DEF ReadLine
<1>4. units \in 1 .. Listed
  BY <1>1, <1>2, <1>3, CartAssumption
<1>5. next \in CartRequests
  <2>1. CASE row = NoRow
    BY <1>1, <1>2, <1>4, <2>1 DEF CartRequests, Creating
  <2>2. CASE row # NoRow
    BY <1>1, <1>4, <2>2, LineIsThere DEF CartRequests, Writing
  <2>. QED
    BY <2>1, <2>2
<1>. QED
  BY <1>3, <1>5, OneCartRequest DEF ReadLine

LEMMA MergeLineStep ==
    ASSUME CartInv, NEW t \in CartTabs, MergeLine(t)
    PROVE  CartInv'
<1>. DEFINE q    == cartRequest[t]
            next == [q EXCEPT !.pc = "write", !.id = row.id, !.units = q.units + row.units]
<1>1. q \in Creating /\ row # NoRow /\ row.units + q.units <= q.stock
  BY Stage DEF MergeLine
<1>2. row.id \in 1 .. MaxRows /\ row.units \in 1 .. Listed
  BY <1>1, LineIsThere
<1>3. q.units + row.units \in 1 .. Listed
  BY <1>1, <1>2, CartAssumption DEF Creating
<1>4. next \in Writing
  BY <1>1, <1>2, <1>3 DEF Creating, Writing
<1>5. cartRequest' = [cartRequest EXCEPT ![t] = next]
  BY DEF MergeLine
<1>. QED
  BY <1>4, <1>5, OneCartRequest DEF MergeLine, CartRequests

LEMMA CreateLineStep ==
    ASSUME CartInv, NEW t \in CartTabs, CreateLine(t)
    PROVE  CartInv'
<1>1. cartRequest[t] \in Creating
  BY Stage DEF CreateLine
<1>2. CASE row = NoRow
  <2>1. ids + 1 \in 1 .. MaxRows /\ ids' = ids + 1 /\ cartRequest[t].units \in 1 .. Listed
    BY <1>1, <1>2, CartAssumption DEF CreateLine, CartInv, Creating
  <2>2. row' = [id |-> ids + 1, units |-> cartRequest[t].units]
    BY <1>2 DEF CreateLine
  <2>3. LineTyped'
    BY <2>1, <2>2, CartAssumption DEF LineTyped, Line
  <2>4. cartRequest' \in [CartTabs -> CartRequests]
    BY <1>2 DEF CreateLine, CartAnswer, CartInv, CartRequests
  <2>. QED
    BY <2>1, <2>3, <2>4 DEF CreateLine, CartInv
<1>3. CASE row # NoRow
  <2>1. [cartRequest[t] EXCEPT !.pc = "merge"] \in CartRequests
    BY <1>1 DEF Creating, CartRequests
  <2>2. cartRequest' = [cartRequest EXCEPT ![t] = [cartRequest[t] EXCEPT !.pc = "merge"]]
    BY <1>3 DEF CreateLine
  <2>. QED
    BY <1>3, <2>1, <2>2, OneCartRequest DEF CreateLine
<1>. QED
  BY <1>2, <1>3

LEMMA WriteLineStep ==
    ASSUME CartInv, NEW t \in CartTabs, WriteLine(t)
    PROVE  CartInv' /\ row'.id = row.id
<1>1. cartRequest[t] \in Writing /\ row \in Line
  BY Stage DEF WriteLine, CartInv, LineTyped
<1>2. LineTyped' /\ row'.id = row.id
  <2>1. CASE row.id = cartRequest[t].id
    <3>1. row' = [row EXCEPT !.units = cartRequest[t].units]
      BY <2>1 DEF WriteLine
    <3>. QED
      BY <1>1, <2>1, <3>1, CartAssumption DEF Writing, Line, LineTyped
  <2>2. CASE row.id # cartRequest[t].id
    BY <2>2 DEF WriteLine, CartInv, LineTyped
  <2>. QED
    BY <2>1, <2>2
<1>3. cartRequest' \in [CartTabs -> CartRequests]
  BY DEF WriteLine, CartAnswer, CartInv, CartRequests
<1>. QED
  BY <1>2, <1>3 DEF WriteLine, CartInv

\* Requests that end, pages rendered again, and what happens to the listing.
LEMMA OtherSteps ==
    ASSUME CartInv,
           \/ \E t \in CartTabs : Refresh(t) \/ Refuse(t) \/ RemoveLine(t)
           \/ CheckoutLine \/ SellElsewhere \/ Withdraw
    PROVE  CartInv'
<1>0. NoRow \in Line /\ (NoRow.id = 0 <=> NoRow.units = 0)
  BY CartAssumption DEF NoRow, Line
<1>1. ASSUME NEW t \in CartTabs, Refresh(t) PROVE CartInv'
  <2>1. row.units \in 0 .. Listed
    BY DEF CartInv, LineTyped, Line
  <2>. QED
    BY <1>1, <2>1 DEF Refresh, CartInv, LineTyped
<1>2. ASSUME NEW t \in CartTabs, Refuse(t) PROVE CartInv'
  BY <1>2, OneCartRequest DEF Refuse, CartAnswer, CartRequests
<1>3. ASSUME NEW t \in CartTabs, RemoveLine(t) PROVE CartInv'
  BY <1>0, <1>3 DEF RemoveLine, CartInv, LineTyped
<1>4. CASE CheckoutLine
  <2>1. row.units \in 0 .. Listed /\ stock \in 0 .. Listed
    BY DEF CartInv, LineTyped, Line
  <2>2. stock - row.units \in 0 .. Listed
    BY <1>4, <2>1, CartAssumption DEF CheckoutLine
  <2>. QED
    BY <1>0, <1>4, <2>2 DEF CheckoutLine, CartInv, LineTyped
<1>5. CASE SellElsewhere
  BY <1>5, CartAssumption DEF SellElsewhere, CartInv, LineTyped
<1>6. CASE Withdraw
  BY <1>6 DEF Withdraw, CartInv, LineTyped
<1>. QED
  BY <1>1, <1>2, <1>3, <1>4, <1>5, <1>6

\* The invariant is inductive.
LEMMA CartStep == CartInv /\ [CartNext]_cartVars => CartInv'
<1>. SUFFICES ASSUME CartInv, [CartNext]_cartVars PROVE CartInv'
  OBVIOUS
<1>1. CASE UNCHANGED cartVars
  BY <1>1 DEF cartVars, CartInv, LineTyped
<1>2. CASE CartNext
  BY <1>2, ReadProductStep, ReadLineStep, WriteLineStep, CreateLineStep, MergeLineStep, OtherSteps
     DEF CartNext
<1>. QED
  BY <1>1, <1>2

-------------------------------------------------------------------------------
\* However adds, updates and removals of the buyer's tabs overlap, each request
\* that is about to write holds a quantity within what the seller listed, for the
\* row it has read (addToCart and updateCartItem).
THEOREM CartInvariant == CartSpec => []CartInv
  BY CartStart, CartStep, PTL DEF CartSpec

\* The line never asks for more than was listed (cart-service.ts:181), and every
\* variable has its type.
THEOREM NeverOvershoots == CartSpec => []CartTypeOK
<1>1. CartInv => CartTypeOK
  <2>. SUFFICES ASSUME CartInv PROVE CartTypeOK
    OBVIOUS
  <2>1. \A t \in CartTabs :
           cartRequest[t].pc \in {"idle", "line", "write", "create", "merge"}
    BY Stage
  <2>. QED
    BY <2>1 DEF CartInv, LineTyped, CartTypeOK
<1>. QED
  BY <1>1, CartInvariant, PTL

\* A line that was removed or checked out is not brought back by an update that
\* was under way (updateCartItem, removeCartItem).
THEOREM RemovedStays == CartSpec => RemovedLineStaysRemoved
<1>. DEFINE Kept == row' # row /\ row' # NoRow =>
                        row'.id = row.id \/ (row = NoRow /\ row'.id = ids + 1)
<1>1. CartInv /\ [CartNext]_cartVars => [Kept]_cartVars
  <2>. SUFFICES ASSUME CartInv, CartNext PROVE Kept
    OBVIOUS
  <2>1. ASSUME NEW t \in CartTabs, WriteLine(t) PROVE Kept
    BY <2>1, WriteLineStep
  <2>2. ASSUME NEW t \in CartTabs, CreateLine(t) PROVE Kept
    BY <2>2 DEF CreateLine
  <2>3. ASSUME NEW t \in CartTabs,
               Refresh(t) \/ Refuse(t) \/ ReadProduct(t) \/ ReadLine(t) \/ MergeLine(t)
                 \/ RemoveLine(t)
        PROVE Kept
    BY <2>3 DEF Refresh, Refuse, ReadProduct, ReadLine, MergeLine, RemoveLine
  <2>4. CASE CheckoutLine \/ SellElsewhere \/ Withdraw
    BY <2>4 DEF CheckoutLine, SellElsewhere, Withdraw
  <2>. QED
    BY <2>1, <2>2, <2>3, <2>4 DEF CartNext
<1>. QED
  BY <1>1, CartInvariant, PTL DEF CartSpec, RemovedLineStaysRemoved

-------------------------------------------------------------------------------
(***************************************************************************)
(* Listings and moderation (ListingLifecycle). A request that puts a       *)
(* listing on sale was begun by somebody entitled to it.                   *)
(***************************************************************************)
Moderation == {"approve", "reject", "suspend", "restore"}
Decisions  == {"VERIFIED", "REJECTED", "UNVERIFIED"}
FormEdits  == {"edit", "publish"}

SellingRecords ==
    {Ready} \cup [pc : {"apply"}]
            \cup [pc : {"existing"}, action : FormEdits, entitled : BOOLEAN]
            \cup [pc : {"provision", "write"}, action : SellerActions \ FormEdits,
                  entitled : BOOLEAN]
            \cup [pc : {"write"}, action : FormEdits, entitled : BOOLEAN,
                  status : ListingStatus \cup {"NONE"}, published : BOOLEAN]

AdminRecords ==
    {Ready} \cup [pc : {"moderate"}, action : Moderation, published : BOOLEAN]
            \cup [pc : {"decide", "role"}, decision : Decisions]

\* What brings a listing on sale was begun by a verified seller, or by staff.
BegunByRight(request) ==
    request.pc \in {"existing", "provision", "write"}
      /\ request.action \in {"create", "publish", "duplicate", "unarchive"}
    => request.entitled

LifecycleInv ==
    /\ status \in ListingStatus \cup {"NONE"}
    /\ published \in BOOLEAN
    /\ verification \in Verification \cup {"NONE"}
    /\ role \in {"BUYER", "SELLER", "ADMIN"}
    /\ selling \in [SellerTabs -> SellingRecords]
    /\ admin \in [Moderators -> AdminRecords]
    /\ \A t \in SellerTabs : BegunByRight(selling[t])

LEMMA ModerationRules ==
    /\ DOMAIN LISTING_TRANSITIONS = Moderation
    /\ \A action \in Moderation :
          /\ LISTING_TRANSITIONS[action].to \in ListingStatus
          /\ LISTING_TRANSITIONS[action].stamps \in BOOLEAN
<1>1. DOMAIN LISTING_TRANSITIONS = Moderation
  BY DEF LISTING_TRANSITIONS, Moderation
<1>2. ASSUME NEW action \in Moderation
      PROVE  /\ LISTING_TRANSITIONS[action].to \in ListingStatus
             /\ LISTING_TRANSITIONS[action].stamps \in BOOLEAN
  <2>1. /\ LISTING_TRANSITIONS.approve.to = "ACTIVE" /\ LISTING_TRANSITIONS.approve.stamps = TRUE
        /\ LISTING_TRANSITIONS.reject.to = "REMOVED" /\ LISTING_TRANSITIONS.reject.stamps = FALSE
        /\ LISTING_TRANSITIONS.suspend.to = "SUSPENDED"
        /\ LISTING_TRANSITIONS.suspend.stamps = FALSE
        /\ LISTING_TRANSITIONS.restore.to = "ACTIVE" /\ LISTING_TRANSITIONS.restore.stamps = TRUE
    BY DEF LISTING_TRANSITIONS
  <2>. QED
    BY <1>2, <2>1 DEF Moderation, ListingStatus
<1>. QED
  BY <1>1, <1>2

LEMMA DecisionRules == DOMAIN SELLER_TRANSITIONS = Decisions
  BY DEF SELLER_TRANSITIONS, Decisions

LEMMA AtReady == Ready \in SellingRecords /\ Ready \in AdminRecords /\ BegunByRight(Ready)
  BY DEF SellingRecords, AdminRecords, Ready, BegunByRight

LEMMA LifecycleStart == LifecycleInit => LifecycleInv
<1>. SUFFICES ASSUME LifecycleInit PROVE LifecycleInv
  OBVIOUS
<1>1. /\ selling \in [SellerTabs -> SellingRecords] /\ admin \in [Moderators -> AdminRecords]
      /\ \A t \in SellerTabs : selling[t] = Ready
  BY AtReady DEF LifecycleInit
<1>. QED
  BY <1>1, AtReady DEF LifecycleInit, LifecycleInv, ListingStatus, Verification

\* A step of one tab that leaves a well-formed request behind.
LEMMA TabMoves ==
    ASSUME LifecycleInv, NEW t \in SellerTabs, NEW next \in SellingRecords, BegunByRight(next),
           selling' = [selling EXCEPT ![t] = next]
    PROVE  /\ selling' \in [SellerTabs -> SellingRecords]
           /\ \A u \in SellerTabs : BegunByRight(selling'[u])
<1>1. \A u \in SellerTabs : selling'[u] = IF u = t THEN next ELSE selling[u]
  BY DEF LifecycleInv
<1>. QED
  BY <1>1 DEF LifecycleInv

LEMMA TabRests ==
    ASSUME LifecycleInv, NEW t \in SellerTabs, selling' = [selling EXCEPT ![t] = Ready]
    PROVE  /\ selling' \in [SellerTabs -> SellingRecords]
           /\ \A u \in SellerTabs : BegunByRight(selling'[u])
  BY AtReady, TabMoves

LEMMA TabWrites ==
    ASSUME LifecycleInv, NEW t \in SellerTabs, selling[t].pc = "write"
    PROVE  /\ selling[t].entitled \in BOOLEAN
           /\ selling[t].action \in FormEdits => selling[t].published \in BOOLEAN
           /\ selling[t].action \in {"create", "publish", "duplicate", "unarchive"} =>
                 selling[t].entitled
<1>1. selling[t] \in SellingRecords /\ BegunByRight(selling[t])
  BY DEF LifecycleInv
<1>. QED
  BY <1>1 DEF SellingRecords, Ready, BegunByRight

LEMMA SellerAsksStep == ASSUME LifecycleInv, NEW t \in SellerTabs, SellerAsks(t) PROVE LifecycleInv'
<1>. DEFINE Request(action) ==
              [pc |-> FirstStep(action), action |-> action,
               entitled |-> verification = "VERIFIED" \/ StaffLists(action)]
<1>1. PICK action \in SellerActions :
        MayList(action) /\ selling' = [selling EXCEPT ![t] = Request(action)]
  BY DEF SellerAsks
<1>. DEFINE next == Request(action)
<1>2. next \in SellingRecords
  <2>1. CASE action \in FormEdits
    <3>1. next.pc = "existing" /\ next.action \in FormEdits
      BY <1>1, <2>1 DEF FormEdits, FirstStep
    <3>. QED
      BY <3>1 DEF SellingRecords
  <2>2. CASE action \notin FormEdits
    <3>1. next.pc \in {"provision", "write"} /\ next.action \in SellerActions \ FormEdits
      BY <1>1, <2>2 DEF FormEdits, FirstStep
    <3>. QED
      BY <3>1 DEF SellingRecords
  <2>. QED
    BY <2>1, <2>2
<1>3. BegunByRight(next)
  BY <1>1 DEF BegunByRight, MayList, StaffLists
<1>4. selling' \in [SellerTabs -> SellingRecords] /\ \A u \in SellerTabs : BegunByRight(selling'[u])
  BY <1>1, <1>2, <1>3, TabMoves
<1>. QED
  BY <1>4 DEF LifecycleInv, SellerAsks

LEMMA ProvisionSellerStep ==
    ASSUME LifecycleInv, NEW t \in SellerTabs, ProvisionSeller(t) PROVE LifecycleInv'
<1>. DEFINE old  == selling[t]
            next == [old EXCEPT !.pc = "write"]
<1>1. /\ old \in [pc : {"provision", "write"}, action : SellerActions \ FormEdits,
                  entitled : BOOLEAN]
      /\ old.pc = "provision" /\ BegunByRight(old)
  BY DEF ProvisionSeller, LifecycleInv, SellingRecords, Ready
<1>2. next \in SellingRecords
  BY <1>1 DEF SellingRecords
<1>3. BegunByRight(next)
  BY <1>1 DEF BegunByRight
<1>4. selling' \in [SellerTabs -> SellingRecords] /\ \A u \in SellerTabs : BegunByRight(selling'[u])
  BY <1>2, <1>3, TabMoves DEF ProvisionSeller
<1>5. verification' \in Verification \cup {"NONE"}
  BY DEF ProvisionSeller, LifecycleInv, Verification
<1>. QED
  BY <1>4, <1>5 DEF LifecycleInv, ProvisionSeller

LEMMA ReadExistingStep ==
    ASSUME LifecycleInv, NEW t \in SellerTabs, ReadExisting(t) PROVE LifecycleInv'
<1>. DEFINE old  == selling[t]
            next == [pc |-> "write", action |-> old.action, entitled |-> old.entitled,
                     status |-> status, published |-> published]
<1>1. /\ old.pc = "existing" /\ old.action \in FormEdits /\ old.entitled \in BOOLEAN
      /\ BegunByRight(old)
  BY DEF ReadExisting, LifecycleInv, SellingRecords, Ready
<1>2. next \in SellingRecords
  BY <1>1 DEF SellingRecords, LifecycleInv
<1>3. BegunByRight(next)
  BY <1>1 DEF BegunByRight
<1>4. selling' = [selling EXCEPT ![t] = next]
  BY DEF ReadExisting
<1>5. selling' \in [SellerTabs -> SellingRecords] /\ \A u \in SellerTabs : BegunByRight(selling'[u])
  BY <1>2, <1>3, <1>4, TabMoves
<1>. QED
  BY <1>5 DEF LifecycleInv, ReadExisting

LEMMA WriteNewStep == ASSUME LifecycleInv, NEW t \in SellerTabs, WriteNew(t) PROVE LifecycleInv'
<1>1. selling' \in [SellerTabs -> SellingRecords] /\ \A u \in SellerTabs : BegunByRight(selling'[u])
  BY TabRests DEF WriteNew
<1>2. status' \in ListingStatus /\ published' \in BOOLEAN
  BY DEF WriteNew, ListingStatus
<1>. QED
  BY <1>1, <1>2 DEF LifecycleInv, WriteNew

LEMMA WriteEditStep == ASSUME LifecycleInv, NEW t \in SellerTabs, WriteEdit(t) PROVE LifecycleInv'
<1>1. selling' \in [SellerTabs -> SellingRecords] /\ \A u \in SellerTabs : BegunByRight(selling'[u])
  BY TabRests DEF WriteEdit
<1>2. status' \in ListingStatus
  BY DEF WriteEdit, ListingStatus
<1>3. published' \in BOOLEAN
  BY TabWrites DEF WriteEdit, FormEdits
<1>. QED
  BY <1>1, <1>2, <1>3 DEF LifecycleInv, WriteEdit

LEMMA WriteStatusStep == ASSUME LifecycleInv, NEW t \in SellerTabs, WriteStatus(t) PROVE LifecycleInv'
<1>1. selling' \in [SellerTabs -> SellingRecords] /\ \A u \in SellerTabs : BegunByRight(selling'[u])
  BY TabRests DEF WriteStatus
<1>2. status' \in ListingStatus
  BY DEF WriteStatus, ListingStatus
<1>3. published' \in BOOLEAN
  BY DEF WriteStatus, LifecycleInv
<1>. QED
  BY <1>1, <1>2, <1>3 DEF LifecycleInv, WriteStatus

LEMMA ApplySteps ==
    ASSUME LifecycleInv, NEW t \in SellerTabs, ApplyRead(t) \/ ApplyWrite(t) PROVE LifecycleInv'
<1>1. [pc |-> "apply"] \in SellingRecords /\ BegunByRight([pc |-> "apply"])
  BY DEF SellingRecords, BegunByRight
<1>2. selling' \in [SellerTabs -> SellingRecords] /\ \A u \in SellerTabs : BegunByRight(selling'[u])
  BY <1>1, TabMoves, TabRests DEF ApplyRead, ApplyWrite
<1>. QED
  BY <1>2 DEF LifecycleInv, ApplyRead, ApplyWrite, Verification

LEMMA ModerateSteps ==
    ASSUME LifecycleInv, NEW a \in Moderators, ModerateRead(a) \/ ModerateWrite(a)
    PROVE  LifecycleInv'
<1>1. CASE ModerateRead(a)
  <2>1. PICK action \in Moderation :
          admin' = [admin EXCEPT ![a] =
                      [pc |-> "moderate", action |-> action, published |-> published]]
    BY <1>1, ModerationRules DEF ModerateRead
  <2>2. [pc |-> "moderate", action |-> action, published |-> published] \in AdminRecords
    BY DEF AdminRecords, LifecycleInv
  <2>3. admin' \in [Moderators -> AdminRecords]
    BY <2>1, <2>2 DEF LifecycleInv
  <2>. QED
    BY <1>1, <2>3 DEF LifecycleInv, ModerateRead
<1>2. CASE ModerateWrite(a)
  <2>1. admin[a].pc = "moderate" /\ admin[a] \in AdminRecords
    BY <1>2 DEF ModerateWrite, LifecycleInv
  <2>2. admin[a].action \in Moderation /\ admin[a].published \in BOOLEAN
    BY <2>1 DEF AdminRecords, Ready
  <2>3. status' \in ListingStatus /\ published' \in BOOLEAN
    BY <1>2, <2>2, ModerationRules DEF ModerateWrite, LifecycleInv
  <2>4. admin' \in [Moderators -> AdminRecords]
    BY <1>2 DEF ModerateWrite, LifecycleInv, AdminRecords
  <2>. QED
    BY <1>2, <2>3, <2>4 DEF LifecycleInv, ModerateWrite
<1>. QED
  BY <1>1, <1>2

LEMMA DecideSteps ==
    ASSUME LifecycleInv, NEW a \in Moderators,
           DecideSeller(a) \/ WriteVerification(a) \/ WriteRole(a)
    PROVE  LifecycleInv'
<1>1. CASE DecideSeller(a)
  <2>1. PICK decision \in Decisions :
          admin' = [admin EXCEPT ![a] = [pc |-> "decide", decision |-> decision]]
    BY <1>1, DecisionRules DEF DecideSeller
  <2>2. [pc |-> "decide", decision |-> decision] \in AdminRecords
    BY DEF AdminRecords
  <2>3. admin' \in [Moderators -> AdminRecords]
    BY <2>1, <2>2 DEF LifecycleInv
  <2>. QED
    BY <1>1, <2>3 DEF LifecycleInv, DecideSeller
<1>2. CASE WriteVerification(a)
  <2>1. admin[a].pc = "decide" /\ admin[a] \in AdminRecords
    BY <1>2 DEF WriteVerification, LifecycleInv
  <2>2. admin[a] \in [pc : {"decide", "role"}, decision : Decisions]
    BY <2>1 DEF AdminRecords, Ready
  <2>3. [admin[a] EXCEPT !.pc = "role"] \in AdminRecords
    BY <2>2 DEF AdminRecords
  <2>4. admin' \in [Moderators -> AdminRecords]
    BY <1>2, <2>3 DEF WriteVerification, LifecycleInv
  <2>5. verification' \in Verification
    BY <1>2, <2>2 DEF WriteVerification, Verification, Decisions
  <2>. QED
    BY <1>2, <2>4, <2>5 DEF LifecycleInv, WriteVerification
<1>3. CASE WriteRole(a)
  <2>1. admin' \in [Moderators -> AdminRecords]
    BY <1>3 DEF WriteRole, LifecycleInv, AdminRecords
  <2>. QED
    BY <1>3, <2>1 DEF LifecycleInv, WriteRole
<1>. QED
  BY <1>1, <1>2, <1>3

LEMMA ListingSteps ==
    ASSUME LifecycleInv, EnableSelling \/ RemoveListing \/ LoseRequest PROVE LifecycleInv'
<1>1. CASE EnableSelling
  BY <1>1 DEF LifecycleInv, EnableSelling, Verification
<1>2. CASE RemoveListing
  BY <1>2 DEF LifecycleInv, RemoveListing, ListingStatus
<1>3. CASE LoseRequest
  <2>1. ASSUME NEW t \in SellerTabs, selling' = [selling EXCEPT ![t] = Ready], UNCHANGED admin
        PROVE  LifecycleInv'
    BY <1>3, <2>1, TabRests DEF LifecycleInv, LoseRequest
  <2>2. ASSUME NEW a \in Moderators, admin' = [admin EXCEPT ![a] = Ready], UNCHANGED selling
        PROVE  LifecycleInv'
    <3>1. admin' \in [Moderators -> AdminRecords]
      BY <2>2 DEF LifecycleInv, AdminRecords
    <3>. QED
      BY <1>3, <2>2, <3>1 DEF LifecycleInv, LoseRequest
  <2>. QED
    BY <1>3, <2>1, <2>2 DEF LoseRequest
<1>. QED
  BY <1>1, <1>2, <1>3

\* The invariant is inductive.
LEMMA LifecycleStep == LifecycleInv /\ [LifecycleNext]_lifecycleVars => LifecycleInv'
<1>. SUFFICES ASSUME LifecycleInv, [LifecycleNext]_lifecycleVars PROVE LifecycleInv'
  OBVIOUS
<1>1. CASE UNCHANGED lifecycleVars
  BY <1>1 DEF lifecycleVars, LifecycleInv
<1>2. CASE LifecycleNext
  BY <1>2, SellerAsksStep, ProvisionSellerStep, ReadExistingStep, WriteNewStep, WriteEditStep, WriteStatusStep,
     ApplySteps, ModerateSteps, DecideSteps, ListingSteps DEF LifecycleNext
<1>. QED
  BY <1>1, <1>2

LEMMA LifecycleShows == LifecycleInv => LifecycleTypeOK
<1>. SUFFICES ASSUME LifecycleInv PROVE LifecycleTypeOK
  OBVIOUS
<1>1. \A t \in SellerTabs : selling[t].pc \in {"idle", "provision", "existing", "write", "apply"}
  <2>. SUFFICES ASSUME NEW t \in SellerTabs
                PROVE  selling[t].pc \in {"idle", "provision", "existing", "write", "apply"}
    OBVIOUS
  <2>1. selling[t] \in SellingRecords
    BY DEF LifecycleInv
  <2>. QED
    BY <2>1 DEF SellingRecords, Ready
<1>2. \A a \in Moderators : admin[a].pc \in {"idle", "moderate", "decide", "role"}
  BY DEF LifecycleInv, AdminRecords, Ready
<1>. QED
  BY <1>1, <1>2 DEF LifecycleInv, LifecycleTypeOK

(***************************************************************************)
(* The inductive invariant: what each request carries, and that whatever   *)
(* is about to put a listing on sale was begun by a verified seller or, as *)
(* a new listing, by an administrator (seller/listings/actions.ts:73-132). *)
(***************************************************************************)
THEOREM LifecycleInvariant == LifecycleSpec => []LifecycleInv
  BY LifecycleStart, LifecycleStep, PTL DEF LifecycleSpec

(***************************************************************************)
(* For any number of requests of the seller and of administrators at once: *)
(* what comes on sale was published by a seller who was verified when the  *)
(* request began, or as a new listing by an administrator, was on sale     *)
(* when the edit read it, or was moderated (seller/listings/actions.ts:    *)
(* 21-132, admin-service.ts:806-965).                                      *)
(***************************************************************************)
THEOREM OnSaleByRight == LifecycleSpec => PublishedByRight
<1>. DEFINE ByRight ==
              status # "ACTIVE" /\ status' = "ACTIVE" =>
                \/ \E a \in Moderators : ModerateWrite(a)
                \/ \E t \in SellerTabs :
                      /\ selling[t].pc = "write" /\ selling'[t].pc = "idle"
                      /\ \/ selling[t].entitled
                         \/ selling[t].action = "edit" /\ selling[t].status = "ACTIVE"
<1>1. ASSUME LifecycleInv, LifecycleNext PROVE ByRight
  <2>1. ASSUME NEW t \in SellerTabs, WriteNew(t) \/ WriteEdit(t) \/ WriteStatus(t),
               status' = "ACTIVE"
        PROVE  ByRight
    <3>1. selling[t].pc = "write" /\ selling' = [selling EXCEPT ![t] = Ready]
      BY <2>1 DEF WriteNew, WriteEdit, WriteStatus
    <3>2. selling'[t].pc = "idle"
      BY <1>1, <3>1 DEF LifecycleInv, Ready
    <3>3. selling[t].action \in {"create", "publish", "duplicate", "unarchive"} => selling[t].entitled
      BY <1>1, <3>1, TabWrites
    <3>4. \/ selling[t].action \in {"create", "publish", "duplicate", "unarchive"}
          \/ selling[t].action = "edit" /\ selling[t].status = "ACTIVE"
      BY <2>1 DEF WriteNew, WriteEdit, WriteStatus
    <3>. QED
      BY <3>1, <3>2, <3>3, <3>4
  <2>2. ASSUME NEW t \in SellerTabs,
               SellerAsks(t) \/ ProvisionSeller(t) \/ ReadExisting(t) \/ ApplyRead(t)
                 \/ ApplyWrite(t)
        PROVE  status' = status
    BY <2>2 DEF SellerAsks, ProvisionSeller, ReadExisting, ApplyRead, ApplyWrite
  <2>3. ASSUME NEW a \in Moderators,
               ModerateRead(a) \/ DecideSeller(a) \/ WriteVerification(a) \/ WriteRole(a)
        PROVE  status' = status
    BY <2>3 DEF ModerateRead, DecideSeller, WriteVerification, WriteRole
  <2>4. ASSUME EnableSelling \/ RemoveListing \/ LoseRequest PROVE status' # "ACTIVE" \/ status' = status
    BY <2>4 DEF EnableSelling, RemoveListing, LoseRequest
  <2>. QED
    BY <1>1, <2>1, <2>2, <2>3, <2>4 DEF LifecycleNext
<1>2. LifecycleInv /\ [LifecycleNext]_lifecycleVars => [ByRight]_lifecycleVars
  BY <1>1
<1>. QED
  BY LifecycleInvariant, <1>2, PTL DEF LifecycleSpec, PublishedByRight

-------------------------------------------------------------------------------
(***************************************************************************)
(* Likes and views (ListingEngagement). The counters are the sizes of the  *)
(* sets of rows behind them; the views of one viewer and those about to be *)
(* written are never more than the requests at once.                       *)
(***************************************************************************)
EngagementCallRecords ==
    {Free} \cup [pc : {"create", "delete"}, user : Fans, row : 0 .. MaxFavorites]
           \cup [pc : {"view"}, user : Fans]

\* A row that is to be deleted is a row.
RowsToDelete == \A c \in Calls : call[c].pc = "delete" => call[c].row # 0

Viewing(u) == {c \in Calls : call[c].pc = "view" /\ call[c].user = u}

EngagementTyped ==
    /\ wishlist \in [Fans -> 0 .. MaxFavorites] /\ rows \in 0 .. MaxFavorites
    /\ call \in [Calls -> EngagementCallRecords]
    /\ views \in [Fans -> Nat] /\ anonymous \in Nat
    /\ viewCount \in Nat /\ viewCount <= MaxViews

LikesCounted == favoriteCount = Cardinality(Favorites)
ViewsCounted ==
    /\ viewCount = anonymous + Cardinality(RecentViews)
    /\ \A u \in Fans : views[u] <= viewCount

\* Views of one viewer were let in together: before the first was written.
ViewsAtOnce == \A u \in Fans : views[u] + Cardinality(Viewing(u)) <= Cardinality(Calls)

EngagementInv ==
    EngagementTyped /\ RowsToDelete /\ LikesCounted /\ ViewsCounted /\ ViewsAtOnce

-------------------------------------------------------------------------------
LEMMA Bounds ==
    /\ MaxFavorites \in Nat /\ MaxViews \in Nat /\ Cardinality(Calls) \in Nat
    /\ IsFiniteSet(Fans) /\ IsFiniteSet(Calls)
<1>1. Cardinality(Fans) \in Nat /\ Cardinality(Calls) \in Nat
  BY EngagementAssumption, FS_CardinalityType
<1>2. MaxFavorites \in Nat
  BY <1>1 DEF MaxFavorites
<1>. QED
  BY <1>1, <1>2, EngagementAssumption

LEMMA FavoritesFinite == IsFiniteSet(Favorites) /\ Cardinality(Favorites) \in Nat
<1>1. Favorites \in SUBSET Fans
  BY DEF Favorites
<1>. QED
  BY <1>1, Bounds, FS_Subset, FS_CardinalityType

LEMMA ViewingFinite ==
    ASSUME NEW u \in Fans
    PROVE  /\ IsFiniteSet(Viewing(u)) /\ Cardinality(Viewing(u)) \in Nat
           /\ Cardinality(Viewing(u)) <= Cardinality(Calls)
<1>1. Viewing(u) \in SUBSET Calls
  BY DEF Viewing
<1>. QED
  BY <1>1, Bounds, FS_Subset, FS_CardinalityType

LEMMA RecentFinite == IsFiniteSet(RecentViews) /\ Cardinality(RecentViews) \in Nat
<1>1. IsFiniteSet(1 .. MaxViews)
  BY Bounds, FS_Interval
<1>2. IsFiniteSet(Fans \X (1 .. MaxViews))
  BY <1>1, Bounds, FS_Product
<1>3. RecentViews \in SUBSET (Fans \X (1 .. MaxViews))
  BY DEF RecentViews
<1>. QED
  BY <1>2, <1>3, FS_Subset, FS_CardinalityType

LEMMA CallTyping ==
    ASSUME EngagementTyped, NEW c \in Calls
    PROVE  /\ call[c].pc \in {"idle", "create", "delete", "view"}
           /\ call[c].pc # "idle" => call[c].user \in Fans
           /\ call[c].pc \in {"create", "delete"} => call[c].row \in 0 .. MaxFavorites
<1>1. call[c] \in EngagementCallRecords
  BY DEF EngagementTyped
<1>. QED
  BY <1>1 DEF EngagementCallRecords, Free

LEMMA OneCallMoves ==
    ASSUME EngagementTyped, NEW c \in Calls, NEW next \in EngagementCallRecords,
           call' = [call EXCEPT ![c] = next]
    PROVE  /\ call' \in [Calls -> EngagementCallRecords]
           /\ \A d \in Calls : call'[d] = IF d = c THEN next ELSE call[d]
  BY DEF EngagementTyped

\* Of the requests that are to record a view of u, a step adds or takes one at most.
LEMMA ViewingMoves ==
    ASSUME EngagementTyped, NEW c \in Calls, NEW next \in EngagementCallRecords,
           call' = [call EXCEPT ![c] = next], NEW u \in Fans
    PROVE  Viewing(u)' = IF next.pc = "view" /\ next.user = u THEN Viewing(u) \cup {c}
                         ELSE Viewing(u) \ {c}
  BY OneCallMoves DEF Viewing

\* A step that ends a request, or begins one that is no view, lets no view in.
LEMMA NoViewLetIn ==
    ASSUME EngagementTyped, ViewsAtOnce, NEW c \in Calls, NEW next \in EngagementCallRecords,
           next.pc # "view", call' = [call EXCEPT ![c] = next], UNCHANGED views
    PROVE  ViewsAtOnce'
<1>. SUFFICES ASSUME NEW u \in Fans
              PROVE  views[u] + Cardinality(Viewing(u)') <= Cardinality(Calls)
  BY DEF ViewsAtOnce
<1>1. Viewing(u)' = Viewing(u) \ {c}
  BY ViewingMoves
<1>2. /\ Cardinality(Viewing(u) \ {c}) \in Nat
      /\ Cardinality(Viewing(u) \ {c}) <= Cardinality(Viewing(u))
  BY ViewingFinite, FS_RemoveElement, FS_CardinalityType
<1>3. views[u] \in Nat /\ views[u] + Cardinality(Viewing(u)) <= Cardinality(Calls)
  BY DEF EngagementTyped, ViewsAtOnce
<1>. QED
  BY <1>1, <1>2, <1>3, Bounds, ViewingFinite

LEMMA IdleIsRecord == Free \in EngagementCallRecords /\ Free.pc = "idle"
  BY DEF EngagementCallRecords, Free

LEMMA EngagementStart == EngagementInit => EngagementInv
<1>. SUFFICES ASSUME EngagementInit PROVE EngagementInv
  OBVIOUS
<1>1. \A u \in Fans : wishlist[u] = 0 /\ views[u] = 0
  BY DEF EngagementInit
<1>2. \A c \in Calls : call[c].pc = "idle"
  BY DEF EngagementInit, Free
<1>3. Favorites = {} /\ \A u \in Fans : Viewing(u) = {}
  BY <1>1, <1>2 DEF Favorites, Viewing
<1>4. RecentViews = {}
  BY <1>1, Bounds DEF RecentViews
<1>5. EngagementTyped /\ RowsToDelete
  BY <1>2, Bounds DEF EngagementInit, EngagementTyped, RowsToDelete, EngagementCallRecords
<1>6. LikesCounted /\ ViewsCounted
  BY <1>1, <1>3, <1>4, FS_EmptySet DEF EngagementInit, LikesCounted, ViewsCounted
<1>7. ViewsAtOnce
  <2>1. ASSUME NEW u \in Fans PROVE views[u] + Cardinality(Viewing(u)) <= Cardinality(Calls)
    <3>1. views[u] = 0 /\ Cardinality(Viewing(u)) = 0
      BY <1>1, <1>3, FS_EmptySet
    <3>. QED
      BY <3>1, Bounds
  <2>. QED
    BY <2>1 DEF ViewsAtOnce
<1>. QED
  BY <1>5, <1>6, <1>7 DEF EngagementInv

LEMMA ReadSteps ==
    ASSUME EngagementInv, NEW c \in Calls, ToggleRead(c) PROVE EngagementInv'
<1>1. PICK u \in Fans :
        call' = [call EXCEPT ![c] = [pc |-> IF wishlist[u] = 0 THEN "create" ELSE "delete",
                                     user |-> u, row |-> wishlist[u]]]
  BY DEF ToggleRead
<1>. DEFINE next == [pc |-> IF wishlist[u] = 0 THEN "create" ELSE "delete",
                     user |-> u, row |-> wishlist[u]]
<1>2. next \in EngagementCallRecords /\ next.pc # "view" /\ (next.pc = "delete" => next.row # 0)
  BY DEF EngagementCallRecords, EngagementInv, EngagementTyped
<1>. HIDE DEF next
<1>3. call' = [call EXCEPT ![c] = next]
  BY <1>1 DEF next
<1>4. ViewsAtOnce'
  BY <1>2, <1>3, NoViewLetIn DEF EngagementInv, ToggleRead
<1>5. EngagementTyped' /\ RowsToDelete'
  BY <1>2, <1>3, OneCallMoves DEF EngagementInv, EngagementTyped, RowsToDelete, ToggleRead
<1>6. LikesCounted' /\ ViewsCounted'
  BY DEF EngagementInv, LikesCounted, ViewsCounted, Favorites, RecentViews, ToggleRead
<1>. QED
  BY <1>4, <1>5, <1>6 DEF EngagementInv

LEMMA DeleteLikeStep ==
    ASSUME EngagementInv, NEW c \in Calls, ToggleDelete(c) PROVE EngagementInv'
<1>. DEFINE u == call[c].user
<1>1. u \in Fans /\ wishlist[u] # 0
  BY CallTyping DEF EngagementInv, RowsToDelete, ToggleDelete
<1>2. /\ wishlist' \in [Fans -> 0 .. MaxFavorites]
      /\ \A v \in Fans : wishlist'[v] = IF v = u THEN 0 ELSE wishlist[v]
  BY <1>1, Bounds DEF EngagementInv, EngagementTyped, ToggleDelete
<1>3. Favorites' = Favorites \ {u} /\ u \in Favorites
  BY <1>1, <1>2 DEF Favorites
<1>4. Cardinality(Favorites') = Cardinality(Favorites) - 1
  BY <1>3, FavoritesFinite, FS_RemoveElement
<1>5. LikesCounted'
  BY <1>4 DEF EngagementInv, LikesCounted, ToggleDelete
<1>6. EngagementTyped' /\ RowsToDelete'
  BY <1>2, IdleIsRecord, OneCallMoves
     DEF EngagementInv, EngagementTyped, RowsToDelete, ToggleDelete
<1>7. ViewsAtOnce'
  BY IdleIsRecord, NoViewLetIn DEF EngagementInv, ToggleDelete
<1>8. ViewsCounted'
  BY DEF EngagementInv, ViewsCounted, RecentViews, ToggleDelete
<1>. QED
  BY <1>5, <1>6, <1>7, <1>8 DEF EngagementInv

LEMMA CreateLikeStep ==
    ASSUME EngagementInv, NEW c \in Calls, ToggleCreate(c) PROVE EngagementInv'
<1>. DEFINE u == call[c].user
<1>1. u \in Fans /\ wishlist[u] = 0
  BY CallTyping DEF EngagementInv, ToggleCreate
<1>2. rows' \in 1 .. MaxFavorites /\ rows' = rows + 1
  BY Bounds DEF EngagementInv, EngagementTyped, ToggleCreate
<1>3. /\ wishlist' \in [Fans -> 0 .. MaxFavorites]
      /\ \A v \in Fans : wishlist'[v] = IF v = u THEN rows' ELSE wishlist[v]
  BY <1>1, <1>2, Bounds DEF EngagementInv, EngagementTyped, ToggleCreate
<1>4. Favorites' = Favorites \cup {u} /\ u \notin Favorites
  BY <1>1, <1>2, <1>3 DEF Favorites
<1>5. Cardinality(Favorites') = Cardinality(Favorites) + 1
  BY <1>4, FavoritesFinite, FS_AddElement
<1>6. LikesCounted'
  BY <1>5 DEF EngagementInv, LikesCounted, ToggleCreate
<1>7. EngagementTyped' /\ RowsToDelete'
  BY <1>2, <1>3, IdleIsRecord, OneCallMoves
     DEF EngagementInv, EngagementTyped, RowsToDelete, ToggleCreate
<1>8. ViewsAtOnce'
  BY IdleIsRecord, NoViewLetIn DEF EngagementInv, ToggleCreate
<1>9. ViewsCounted'
  BY DEF EngagementInv, ViewsCounted, RecentViews, ToggleCreate
<1>. QED
  BY <1>6, <1>7, <1>8, <1>9 DEF EngagementInv

\* A view is let in when none stands in the window: those let in with it are
\* requests that run now.
LEMMA ViewReadStep == ASSUME EngagementInv, NEW c \in Calls, ViewRead(c) PROVE EngagementInv'
<1>1. PICK u \in Fans : views[u] = 0 /\ call' = [call EXCEPT ![c] = [pc |-> "view", user |-> u]]
  BY DEF ViewRead
<1>. DEFINE next == [pc |-> "view", user |-> u]
<1>2. next \in EngagementCallRecords /\ next.pc = "view" /\ next.user = u
  BY DEF EngagementCallRecords
<1>. HIDE DEF next
<1>3. call' = [call EXCEPT ![c] = next]
  BY <1>1 DEF next
<1>4. ASSUME NEW v \in Fans PROVE views[v] + Cardinality(Viewing(v)') <= Cardinality(Calls)
  <2>1. CASE v = u
    <3>1. Viewing(v)' \in SUBSET Calls
      BY DEF Viewing
    <3>2. /\ Cardinality(Viewing(v)') \in Nat
          /\ Cardinality(Viewing(v)') <= Cardinality(Calls)
      BY <3>1, Bounds, FS_Subset, FS_CardinalityType
    <3>. QED
      BY <1>1, <2>1, <3>2
  <2>2. CASE v # u
    <3>1. Viewing(v)' = Viewing(v) \ {c}
      BY <1>2, <1>3, <2>2, ViewingMoves DEF EngagementInv
    <3>2. c \notin Viewing(v)
      BY DEF Viewing, ViewRead
    <3>3. Viewing(v)' = Viewing(v)
      BY <3>1, <3>2
    <3>. QED
      BY <3>3 DEF EngagementInv, ViewsAtOnce
  <2>. QED
    BY <2>1, <2>2
<1>5. ViewsAtOnce'
  BY <1>4 DEF ViewsAtOnce, ViewRead
<1>6. EngagementTyped' /\ RowsToDelete'
  BY <1>2, <1>3, OneCallMoves DEF EngagementInv, EngagementTyped, RowsToDelete, ViewRead
<1>7. LikesCounted' /\ ViewsCounted'
  BY DEF EngagementInv, LikesCounted, ViewsCounted, Favorites, RecentViews, ViewRead
<1>. QED
  BY <1>5, <1>6, <1>7 DEF EngagementInv

LEMMA ViewWriteStep == ASSUME EngagementInv, NEW c \in Calls, ViewWrite(c) PROVE EngagementInv'
<1>. DEFINE u == call[c].user
<1>1. u \in Fans /\ c \in Viewing(u)
  BY CallTyping DEF EngagementInv, ViewWrite, Viewing
<1>2. /\ views' \in [Fans -> Nat] /\ views[u] \in Nat
      /\ \A v \in Fans : views'[v] = IF v = u THEN views[u] + 1 ELSE views[v]
  BY <1>1 DEF EngagementInv, EngagementTyped, ViewWrite
<1>3. /\ viewCount' = viewCount + 1 /\ viewCount' \in Nat /\ viewCount' <= MaxViews
      /\ views[u] <= viewCount /\ views[u] + 1 \in 1 .. MaxViews
  BY <1>1, <1>2, Bounds DEF EngagementInv, EngagementTyped, ViewsCounted, ViewWrite
<1>4. RecentViews' = RecentViews \cup {<<u, views[u] + 1>>} /\ <<u, views[u] + 1>> \notin RecentViews
  <2>1. ASSUME NEW v \in Fans, NEW n \in 1 .. MaxViews
        PROVE  n <= views'[v] <=> n <= views[v] \/ (v = u /\ n = views[u] + 1)
    BY <1>1, <1>2, <2>1, Bounds
  <2>2. <<u, views[u] + 1>> \in Fans \X (1 .. MaxViews)
    BY <1>1, <1>3
  <2>3. ~(views[u] + 1 <= views[u])
    BY <1>2
  <2>. QED
    BY <2>1, <2>2, <2>3 DEF RecentViews
<1>5. Cardinality(RecentViews') = Cardinality(RecentViews) + 1
  BY <1>4, RecentFinite, FS_AddElement
<1>6. ViewsCounted'
  <2>1. viewCount' = anonymous + Cardinality(RecentViews')
    BY <1>3, <1>5, RecentFinite DEF EngagementInv, EngagementTyped, ViewsCounted
  <2>2. ASSUME NEW v \in Fans PROVE views'[v] <= viewCount'
    BY <1>2, <1>3, <2>2 DEF EngagementInv, EngagementTyped, ViewsCounted
  <2>. QED
    BY <2>1, <2>2 DEF ViewsCounted, ViewWrite
<1>7. ASSUME NEW v \in Fans PROVE views'[v] + Cardinality(Viewing(v)') <= Cardinality(Calls)
  <2>1. Viewing(v)' = Viewing(v) \ {c}
    BY IdleIsRecord, ViewingMoves DEF EngagementInv, ViewWrite
  <2>2. /\ Cardinality(Viewing(v) \ {c}) \in Nat
        /\ Cardinality(Viewing(v) \ {c}) =
              IF c \in Viewing(v) THEN Cardinality(Viewing(v)) - 1 ELSE Cardinality(Viewing(v))
    BY ViewingFinite, FS_RemoveElement, FS_CardinalityType
  <2>3. views[v] \in Nat /\ views[v] + Cardinality(Viewing(v)) <= Cardinality(Calls)
    BY DEF EngagementInv, EngagementTyped, ViewsAtOnce
  <2>4. v # u => views'[v] = views[v]
    BY <1>2
  <2>5. v = u => views'[v] = views[v] + 1 /\ c \in Viewing(v)
    BY <1>1, <1>2
  <2>. QED
    BY <2>1, <2>2, <2>3, <2>4, <2>5, ViewingFinite, Bounds
<1>8. ViewsAtOnce'
  BY <1>7 DEF ViewsAtOnce
<1>9. EngagementTyped' /\ RowsToDelete' /\ LikesCounted'
  BY <1>2, <1>3, IdleIsRecord, OneCallMoves
     DEF EngagementInv, EngagementTyped, RowsToDelete, LikesCounted, Favorites, ViewWrite
<1>. QED
  BY <1>6, <1>8, <1>9 DEF EngagementInv

LEMMA ViewAnonymousStep == ASSUME EngagementInv, ViewAnonymous PROVE EngagementInv'
<1>1. RecentViews' = RecentViews /\ \A u \in Fans : Viewing(u)' = Viewing(u)
  BY DEF RecentViews, Viewing, ViewAnonymous
<1>2. EngagementTyped' /\ RowsToDelete' /\ LikesCounted'
  BY Bounds DEF EngagementInv, EngagementTyped, RowsToDelete, LikesCounted, Favorites, ViewAnonymous
<1>3. ViewsCounted'
  BY <1>1, RecentFinite DEF EngagementInv, EngagementTyped, ViewsCounted, ViewAnonymous
<1>4. ViewsAtOnce'
  BY <1>1 DEF EngagementInv, ViewsAtOnce, ViewAnonymous
<1>. QED
  BY <1>2, <1>3, <1>4 DEF EngagementInv

LEMMA UpTo == \A n \in Nat : IsFiniteSet(1 .. n) /\ Cardinality(1 .. n) = n
  BY FS_Interval

\* What leaves the window of one viewer are as many rows as were in it.
LEMMA RowsInWindow ==
    ASSUME EngagementInv, NEW u \in Fans,
           views' = [views EXCEPT ![u] = 0]
    PROVE  /\ Cardinality(RecentViews') \in Nat
           /\ Cardinality(RecentViews) = Cardinality(RecentViews') + views[u]
<1>. DEFINE Hers == {u} \X (1 .. views[u])
<1>1. /\ views[u] \in Nat /\ views[u] <= MaxViews
      /\ \A v \in Fans : views'[v] = IF v = u THEN 0 ELSE views[v]
  BY Bounds DEF EngagementInv, EngagementTyped, ViewsCounted
<1>2. IsFiniteSet(1 .. views[u]) /\ Cardinality(1 .. views[u]) = views[u]
  BY <1>1, UpTo
<1>3. IsFiniteSet({u}) /\ Cardinality({u}) = 1
  BY FS_Singleton
<1>4. IsFiniteSet(Hers) /\ Cardinality(Hers) = Cardinality({u}) * Cardinality(1 .. views[u])
  BY <1>2, <1>3, FS_Product
<1>5. Cardinality(Hers) = views[u]
  BY <1>1, <1>2, <1>3, <1>4
<1>6. Hers \subseteq RecentViews
  BY <1>1, Bounds DEF RecentViews
<1>7. RecentViews' = RecentViews \ Hers
  <2>1. ASSUME NEW v \in Fans, NEW n \in 1 .. MaxViews
        PROVE  n <= views'[v] <=> n <= views[v] /\ ~(v = u /\ n \in 1 .. views[u])
    BY <1>1, <2>1, Bounds
  <2>2. RecentViews' = {pair \in Fans \X (1 .. MaxViews) : pair[2] <= views'[pair[1]]}
    BY DEF RecentViews
  <2>3. ASSUME NEW pair \in Fans \X (1 .. MaxViews)
        PROVE  pair[2] <= views'[pair[1]] <=> pair[2] <= views[pair[1]] /\ pair \notin Hers
    <3>1. PICK v \in Fans, n \in 1 .. MaxViews : pair = <<v, n>>
      OBVIOUS
    <3>. QED
      BY <2>1, <3>1
  <2>. QED
    BY <2>2, <2>3 DEF RecentViews
<1>8. RecentViews \cap Hers = Hers
  BY <1>6
<1>9. Cardinality(RecentViews \ Hers) = Cardinality(RecentViews) - Cardinality(RecentViews \cap Hers)
  BY RecentFinite, FS_Difference
<1>10. Cardinality(RecentViews \ Hers) \in Nat
  BY RecentFinite, FS_Difference, FS_CardinalityType
<1>. HIDE DEF Hers
<1>11. Cardinality(RecentViews \ Hers) = Cardinality(RecentViews) - views[u]
  BY <1>5, <1>8, <1>9
<1>12. \A n, k, m \in Nat : k = n - m => n = k + m
  OBVIOUS
<1>13. Cardinality(RecentViews) = Cardinality(RecentViews \ Hers) + views[u]
  BY <1>1, <1>10, <1>11, <1>12, RecentFinite
<1>. QED
  BY <1>7, <1>10, <1>13

LEMMA WindowPassesStep == ASSUME EngagementInv, WindowPasses PROVE EngagementInv'
<1>1. PICK u \in Fans : views' = [views EXCEPT ![u] = 0] /\ anonymous' = anonymous + views[u]
  BY DEF WindowPasses
<1>2. /\ views' \in [Fans -> Nat] /\ views[u] \in Nat /\ anonymous' \in Nat
      /\ \A v \in Fans : views'[v] = IF v = u THEN 0 ELSE views[v]
  BY <1>1 DEF EngagementInv, EngagementTyped
<1>3. Cardinality(RecentViews) = Cardinality(RecentViews') + views[u]
  BY <1>1, RowsInWindow
<1>4. Cardinality(RecentViews') \in Nat
  BY <1>1, RowsInWindow
<1>5. ViewsCounted'
  <2>1. viewCount = anonymous' + Cardinality(RecentViews')
    BY <1>1, <1>2, <1>3, <1>4 DEF EngagementInv, EngagementTyped, ViewsCounted
  <2>2. ASSUME NEW v \in Fans PROVE views'[v] <= viewCount
    BY <1>2, <2>2 DEF EngagementInv, EngagementTyped, ViewsCounted
  <2>. QED
    BY <2>1, <2>2 DEF ViewsCounted, WindowPasses
<1>6. ASSUME NEW v \in Fans PROVE views'[v] + Cardinality(Viewing(v)') <= Cardinality(Calls)
  <2>1. Viewing(v)' = Viewing(v)
    BY DEF Viewing, WindowPasses
  <2>2. views[v] \in Nat /\ views[v] + Cardinality(Viewing(v)) <= Cardinality(Calls)
    BY DEF EngagementInv, EngagementTyped, ViewsAtOnce
  <2>3. views'[v] \in Nat /\ views'[v] <= views[v]
    BY <1>2, <2>2
  <2>. QED
    BY <2>1, <2>2, <2>3, ViewingFinite, Bounds
<1>7. ViewsAtOnce'
  BY <1>6 DEF ViewsAtOnce
<1>8. EngagementTyped' /\ RowsToDelete' /\ LikesCounted'
  BY <1>2 DEF EngagementInv, EngagementTyped, RowsToDelete, LikesCounted, Favorites, WindowPasses
<1>. QED
  BY <1>5, <1>7, <1>8 DEF EngagementInv

LEMMA DropCallStep == ASSUME EngagementInv, NEW c \in Calls, DropCall(c) PROVE EngagementInv'
<1>1. ViewsAtOnce'
  BY IdleIsRecord, NoViewLetIn DEF EngagementInv, DropCall
<1>2. EngagementTyped' /\ RowsToDelete'
  BY IdleIsRecord, OneCallMoves DEF EngagementInv, EngagementTyped, RowsToDelete, DropCall
<1>3. LikesCounted' /\ ViewsCounted'
  BY DEF EngagementInv, LikesCounted, ViewsCounted, Favorites, RecentViews, DropCall
<1>. QED
  BY <1>1, <1>2, <1>3 DEF EngagementInv

\* The invariant is inductive.
LEMMA EngagementStep == EngagementInv /\ [EngagementNext]_engagementVars => EngagementInv'
<1>. SUFFICES ASSUME EngagementInv, [EngagementNext]_engagementVars PROVE EngagementInv'
  OBVIOUS
<1>1. CASE UNCHANGED engagementVars
  BY <1>1 DEF engagementVars, EngagementInv, EngagementTyped, RowsToDelete, LikesCounted,
              ViewsCounted, ViewsAtOnce, Favorites, RecentViews, Viewing
<1>2. CASE EngagementNext
  BY <1>2, ReadSteps, DeleteLikeStep, CreateLikeStep, ViewReadStep, ViewWriteStep,
     ViewAnonymousStep, WindowPassesStep, DropCallStep DEF EngagementNext
<1>. QED
  BY <1>1, <1>2

LEMMA EngagementShows == EngagementInv => EngagementSound
<1>. SUFFICES ASSUME EngagementInv PROVE EngagementSound
  OBVIOUS
<1>1. CountersMatchRows
  BY CallTyping DEF EngagementInv, EngagementTyped, LikesCounted, ViewsCounted, CountersMatchRows
<1>2. ASSUME NEW u \in Fans PROVE views[u] <= Cardinality(Calls)
  <2>1. views[u] \in Nat /\ views[u] + Cardinality(Viewing(u)) <= Cardinality(Calls)
    BY DEF EngagementInv, EngagementTyped, ViewsAtOnce
  <2>. QED
    BY <2>1, ViewingFinite, Bounds
<1>. QED
  BY <1>1, <1>2 DEF EngagementSound, ViewsAreDeduped

(***************************************************************************)
(* The inductive invariant: the counters against their rows, and that the  *)
(* views of one viewer in a window, with those about to be written, are no *)
(* more than the requests at once (listing_engagement).                    *)
(***************************************************************************)
THEOREM EngagementInvariant == EngagementSpec => []EngagementInv
  BY EngagementStart, EngagementStep, PTL DEF EngagementSpec

(***************************************************************************)
(* For any number of users and of requests at once, the counters of a      *)
(* listing are the rows they count, and a viewer is counted twice in one   *)
(* window only by requests that overlap.                                   *)
(***************************************************************************)
THEOREM CountersTrue == EngagementSpec => []EngagementSound
  BY EngagementInvariant, EngagementShows, PTL

-------------------------------------------------------------------------------
(***************************************************************************)
(* Categories, sellers and their administration (MarketDirectory).         *)
(***************************************************************************)
ClerkRecords ==
    {AtRest} \cup [pc : {"category"}, slug : Categories, parent : Categories \cup {"NONE"}]
             \cup [pc : {"dropCategory"}, slug : Categories]
             \cup [pc : {"dropSeller"}, seller : SellerRows]

DirectoryTyped ==
    /\ category = [c \in Existing |-> category[c]]
    /\ DOMAIN goods = Goods /\ ordered \subseteq Goods
    /\ clerk \in [Clerks -> ClerkRecords]

DirectoryInv == DirectoryTyped /\ DirectorySound

\* The rows that listings and orders hang on are what a step leaves them.
DirectoryRests == UNCHANGED <<category, seller, goods, ordered>>

LEMMA RestingRows ==
    ASSUME DirectoryInv, DirectoryRests, clerk' \in [Clerks -> ClerkRecords] PROVE DirectoryInv'
  BY DEF DirectoryRests, DirectoryInv, DirectoryTyped, DirectorySound, DirectoryIntact, OrderedGoodsStay,
         Existing

LEMMA ClerkMoves ==
    ASSUME DirectoryInv, NEW a \in Clerks, NEW next \in ClerkRecords,
           clerk' = [clerk EXCEPT ![a] = next]
    PROVE  clerk' \in [Clerks -> ClerkRecords]
  BY DEF DirectoryInv, DirectoryTyped

LEMMA AtRestRecord == AtRest \in ClerkRecords
  BY DEF ClerkRecords

LEMMA DirectoryStart == DirectoryInit => DirectoryInv
  BY AtRestRecord DEF DirectoryInit, DirectoryInv, DirectoryTyped, DirectorySound, DirectoryIntact,
         OrderedGoodsStay, Existing

LEMMA CountingSteps ==
    ASSUME DirectoryInv,
           \/ \E p \in Listers : ListRead(p) \/ ListFail(p)
           \/ \E a \in Clerks : CategoryRead(a) \/ DropCategoryRead(a) \/ DropSellerRead(a)
                                  \/ ClerkFails(a)
    PROVE  DirectoryInv'
<1>1. DirectoryRests
  BY DEF DirectoryRests, ListRead, ListFail, CategoryRead, DropCategoryRead, DropSellerRead, ClerkFails
<1>2. Existing \subseteq Categories /\ seller \subseteq SellerRows
  BY DEF DirectoryInv, DirectorySound, DirectoryIntact
<1>3. ASSUME NEW p \in Listers, ListRead(p) \/ ListFail(p) PROVE clerk' \in [Clerks -> ClerkRecords]
  BY <1>3 DEF ListRead, ListFail, DirectoryInv, DirectoryTyped
<1>4. ASSUME NEW a \in Clerks, CategoryRead(a) PROVE clerk' \in [Clerks -> ClerkRecords]
  <2>1. PICK c \in Categories, parent \in Categories \cup {"NONE"} :
          clerk' = [clerk EXCEPT ![a] = [pc |-> "category", slug |-> c, parent |-> parent]]
    BY <1>2, <1>4 DEF CategoryRead
  <2>2. [pc |-> "category", slug |-> c, parent |-> parent] \in ClerkRecords
    BY DEF ClerkRecords
  <2>. QED
    BY <2>1, <2>2, ClerkMoves
<1>5. ASSUME NEW a \in Clerks, DropCategoryRead(a) PROVE clerk' \in [Clerks -> ClerkRecords]
  <2>1. PICK c \in Categories : clerk' = [clerk EXCEPT ![a] = [pc |-> "dropCategory", slug |-> c]]
    BY <1>2, <1>5 DEF DropCategoryRead
  <2>2. [pc |-> "dropCategory", slug |-> c] \in ClerkRecords
    BY DEF ClerkRecords
  <2>. QED
    BY <2>1, <2>2, ClerkMoves
<1>6. ASSUME NEW a \in Clerks, DropSellerRead(a) PROVE clerk' \in [Clerks -> ClerkRecords]
  <2>1. PICK s \in SellerRows : clerk' = [clerk EXCEPT ![a] = [pc |-> "dropSeller", seller |-> s]]
    BY <1>2, <1>6 DEF DropSellerRead
  <2>2. [pc |-> "dropSeller", seller |-> s] \in ClerkRecords
    BY DEF ClerkRecords
  <2>. QED
    BY <2>1, <2>2, ClerkMoves
<1>7. ASSUME NEW a \in Clerks, ClerkFails(a) PROVE clerk' \in [Clerks -> ClerkRecords]
  BY <1>7, AtRestRecord, ClerkMoves DEF ClerkFails
<1>. QED
  BY <1>1, <1>3, <1>4, <1>5, <1>6, <1>7, RestingRows

LEMMA ListWriteStep == ASSUME DirectoryInv, NEW p \in Listers, ListWrite(p) PROVE DirectoryInv'
<1>. DEFINE new == [seller |-> lister[p].seller, category |-> lister[p].category]
<1>1. /\ new.seller \in seller /\ new.category \in Existing
      /\ UNCHANGED <<category, seller, ordered, clerk>>
  BY DEF ListWrite
<1>2. PICK g \in Goods : goods' = [goods EXCEPT ![g] = new] /\ g \notin ordered
  BY DEF ListWrite
<1>. HIDE DEF new
<1>3. DOMAIN goods' = Goods /\ \A h \in Goods : goods'[h] = IF h = g THEN new ELSE goods[h]
  BY <1>2 DEF DirectoryInv, DirectoryTyped
<1>4. DirectoryTyped' /\ DirectoryIntact'
  BY <1>1, <1>3 DEF DirectoryInv, DirectoryTyped, DirectorySound, DirectoryIntact, Existing
<1>5. OrderedGoodsStay'
  BY <1>1, <1>2, <1>3
     DEF DirectoryInv, DirectoryTyped, DirectorySound, OrderedGoodsStay
<1>. QED
  BY <1>4, <1>5 DEF DirectoryInv, DirectorySound

LEMMA OrderGoodsStep == ASSUME DirectoryInv, NEW g \in Goods, OrderGoods(g) PROVE DirectoryInv'
  BY DEF OrderGoods, DirectoryInv, DirectoryTyped, DirectorySound, DirectoryIntact, OrderedGoodsStay,
         Existing

LEMMA CategoryWriteStep ==
    ASSUME DirectoryInv, NEW a \in Clerks, CategoryWrite(a) PROVE DirectoryInv'
<1>. DEFINE new    == clerk[a].slug
            parent == clerk[a].parent
<1>1. /\ new \notin Existing /\ parent \in Existing \cup {"NONE"}
      /\ category' = [c \in Existing \cup {new} |-> IF c = new THEN parent ELSE category[c]]
      /\ UNCHANGED <<seller, goods, ordered>>
  BY DEF CategoryWrite
<1>2. new \in Categories
  <2>1. clerk[a] \in ClerkRecords /\ clerk[a].pc = "category"
    BY DEF CategoryWrite, DirectoryInv, DirectoryTyped
  <2>. QED
    BY <2>1 DEF ClerkRecords, AtRest
<1>3. clerk' \in [Clerks -> ClerkRecords]
  BY AtRestRecord, ClerkMoves DEF CategoryWrite
<1>. HIDE DEF new, parent
<1>4. /\ Existing' = Existing \cup {new}
      /\ \A c \in Existing' : category'[c] = IF c = new THEN parent ELSE category[c]
      /\ category' = [c \in Existing' |-> category'[c]]
  BY <1>1 DEF Existing
<1>5. DirectoryTyped'
  BY <1>1, <1>3, <1>4 DEF DirectoryInv, DirectoryTyped
<1>6. DirectoryIntact'
  BY <1>1, <1>2, <1>4 DEF DirectoryInv, DirectorySound, DirectoryIntact
<1>7. OrderedGoodsStay'
  BY <1>1 DEF DirectoryInv, DirectorySound, OrderedGoodsStay
<1>. QED
  BY <1>5, <1>6, <1>7 DEF DirectoryInv, DirectorySound

\* A category goes when no listing is in it; its children move to the root.
LEMMA DropCategoryStep ==
    ASSUME DirectoryInv, NEW a \in Clerks, DropCategoryWrite(a) PROVE DirectoryInv'
<1>. DEFINE old == clerk[a].slug
<1>1. /\ old \in Existing /\ UsesOf(old) = {} /\ category' = Orphaned(old)
      /\ UNCHANGED <<seller, goods, ordered>>
  BY DEF DropCategoryWrite
<1>2. clerk' \in [Clerks -> ClerkRecords]
  BY AtRestRecord, ClerkMoves DEF DropCategoryWrite
<1>. HIDE DEF old
<1>3. /\ Existing' = Existing \ {old}
      /\ \A c \in Existing' : category'[c] = IF category[c] = old THEN "NONE" ELSE category[c]
      /\ category' = [c \in Existing' |-> category'[c]]
  BY <1>1 DEF Existing, Orphaned
<1>4. DirectoryTyped'
  BY <1>1, <1>2, <1>3 DEF DirectoryInv, DirectoryTyped
<1>5. \A g \in Goods : goods[g].category # old
  BY <1>1 DEF UsesOf
<1>6. DirectoryIntact'
  <2>1. \A c \in Existing' : category'[c] \in Existing' \cup {"NONE"}
    BY <1>3 DEF DirectoryInv, DirectorySound, DirectoryIntact
  <2>2. \A g \in Goods : goods[g] # NoGoods => goods[g].seller \in seller /\ goods[g].category \in Existing'
    BY <1>3, <1>5 DEF DirectoryInv, DirectorySound, DirectoryIntact
  <2>. QED
    BY <1>1, <1>3, <2>1, <2>2 DEF DirectoryInv, DirectorySound, DirectoryIntact
<1>7. OrderedGoodsStay'
  BY <1>1 DEF DirectoryInv, DirectorySound, OrderedGoodsStay
<1>. QED
  BY <1>4, <1>6, <1>7 DEF DirectoryInv, DirectorySound

\* A seller goes with the listings that nobody ordered, or not at all.
LEMMA DropSellerStep ==
    ASSUME DirectoryInv, NEW a \in Clerks, DropSellerWrite(a) PROVE DirectoryInv'
<1>. DEFINE old == clerk[a].seller
<1>1. /\ seller' = seller \ {old} /\ GoodsOf(old) \cap ordered = {}
      /\ goods' = [g \in Goods |-> IF g \in GoodsOf(old) THEN NoGoods ELSE goods[g]]
      /\ UNCHANGED <<category, ordered>>
  BY DEF DropSellerWrite
<1>2. clerk' \in [Clerks -> ClerkRecords]
  BY AtRestRecord, ClerkMoves DEF DropSellerWrite
<1>. HIDE DEF old
<1>3. \A g \in Goods : g \in GoodsOf(old) <=> goods[g].seller = old
  BY DEF GoodsOf
<1>4. DirectoryTyped'
  BY <1>1, <1>2 DEF DirectoryInv, DirectoryTyped, Existing
<1>5. DirectoryIntact'
  BY <1>1, <1>3 DEF DirectoryInv, DirectorySound, DirectoryIntact, Existing
<1>6. OrderedGoodsStay'
  <2>1. \A g \in ordered : g \in Goods /\ goods'[g] = goods[g]
    BY <1>1 DEF DirectoryInv, DirectoryTyped
  <2>. QED
    BY <1>1, <2>1 DEF DirectoryInv, DirectorySound, OrderedGoodsStay
<1>. QED
  BY <1>4, <1>5, <1>6 DEF DirectoryInv, DirectorySound

LEMMA SellerReturnsStep == ASSUME DirectoryInv, SellerReturns PROVE DirectoryInv'
  BY DEF SellerReturns, DirectoryInv, DirectoryTyped, DirectorySound, DirectoryIntact,
         OrderedGoodsStay, Existing

\* The invariant is inductive.
LEMMA DirectoryStep == DirectoryInv /\ [DirectoryNext]_directoryVars => DirectoryInv'
<1>. SUFFICES ASSUME DirectoryInv, [DirectoryNext]_directoryVars PROVE DirectoryInv'
  OBVIOUS
<1>1. CASE UNCHANGED directoryVars
  <2>1. DirectoryRests /\ clerk' \in [Clerks -> ClerkRecords]
    BY <1>1 DEF directoryVars, DirectoryRests, DirectoryInv, DirectoryTyped
  <2>. QED
    BY <2>1, RestingRows
<1>2. CASE DirectoryNext
  BY <1>2, CountingSteps, ListWriteStep, OrderGoodsStep, CategoryWriteStep, DropCategoryStep,
     DropSellerStep, SellerReturnsStep DEF DirectoryNext
<1>. QED
  BY <1>1, <1>2

(***************************************************************************)
(* The inductive invariant: types, and what is to be shown of the rows.    *)
(***************************************************************************)
THEOREM DirectoryInvariant == DirectorySpec => []DirectoryInv
  BY DirectoryStart, DirectoryStep, PTL DEF DirectorySpec

(***************************************************************************)
(* Whatever administrators count and delete while listings are created and *)
(* ordered, nothing is left without its seller, category or parent, and no *)
(* order without its listings (admin-service.ts).                          *)
(***************************************************************************)
THEOREM DirectoryIsSound == DirectorySpec => []DirectorySound
<1>1. DirectoryInv => DirectorySound
  BY DEF DirectoryInv
<1>. QED
  BY DirectoryInvariant, <1>1, PTL
===============================================================================
