---------------------------- MODULE SupplierCatalog ----------------------------
(***************************************************************************)
(* One supplier, one of its products, and the sellers who list it.         *)
(*                                                                         *)
(* Administrators approve the supplier, review the product and record what *)
(* they verified about its stock, cost and delivery charge; sellers import *)
(* it and each import keeps a private snapshot of what it costs.  Every    *)
(* request reads first, in statements of its own, and writes later.        *)
(***************************************************************************)
EXTENDS Naturals, FiniteSets

CONSTANTS
    Sellers,     \* verified sellers, each with one import under way at a time
    Admins,      \* bound: reviews of the product at once
    Verifiers,   \* bound: verifications at once
    ProductCosts, \* the costs that may be verified
    MaxVerifications \* bound: different verifications on record

ASSUME CatalogAssumption == ProductCosts \subseteq Nat \ {0} /\ MaxVerifications \in Nat

VARIABLES
    supplier,      \* Supplier.status
    product,       \* approvalStatus, isActive, the delivery charge's stamp, and the
                   \* cost: 0 stands for the figure it was submitted with
    verifications, \* the append-only history: cost, with a delivery charge or not
    listing,       \* per seller, "NONE" or the status of the imported listing
    snapshot,      \* SupplierListingCost per seller
    review,        \* the administrators' requests under way
    verify,        \* the verifications under way
    import         \* the imports under way

catalogVars == <<supplier, product, verifications, listing, snapshot, review,
                 verify, import>>

STATUS_TRANSITIONS ==
    [PENDING |-> {"APPROVED", "REJECTED"},   APPROVED |-> {"SUSPENDED", "REJECTED"},
     SUSPENDED |-> {"APPROVED", "REJECTED"}, REJECTED |-> {"PENDING"}]

SupplierStatus == DOMAIN STATUS_TRANSITIONS

DECISION_TARGET ==
    [APPROVE |-> "APPROVED", REJECT |-> "REJECTED", SUSPEND |-> "SUSPENDED",
     REMOVE |-> "REMOVED", RESUBMIT |-> "PENDING_REVIEW"]

ALLOWED_FROM ==
    [APPROVE  |-> {"DRAFT", "PENDING_REVIEW", "REJECTED", "SUSPENDED"},
     REJECT   |-> {"DRAFT", "PENDING_REVIEW", "APPROVED", "SUSPENDED"},
     SUSPEND  |-> {"APPROVED"},
     REMOVE   |-> {"APPROVED", "SUSPENDED", "REJECTED", "DRAFT", "PENDING_REVIEW"},
     RESUBMIT |-> {"REJECTED", "SUSPENDED"}]

ProductStatus == {"NONE", "DRAFT", "PENDING_REVIEW", "APPROVED", "REJECTED",
                  "SUSPENDED", "REMOVED"}

NoSnapshot == [cost |-> 0, firm |-> FALSE, rule |-> "NONE"]
Quiet      == [pc |-> "idle"]

CatalogInit ==
    /\ supplier = "PENDING"
    /\ product = [status |-> "NONE", active |-> FALSE, delivery |-> FALSE, cost |-> 0]
    /\ verifications = {}
    /\ listing = [s \in Sellers |-> "NONE"]
    /\ snapshot = [s \in Sellers |-> NoSnapshot]
    /\ review = [a \in Admins |-> Quiet]
    /\ verify = [v \in Verifiers |-> Quiet]
    /\ import = [s \in Sellers |-> Quiet]

-------------------------------------------------------------------------------
(***************************************************************************)
(* The supplier.                                                           *)
(***************************************************************************)

\* The write is conditional on the status, all that the request has read but
\* for the terms, and so is one step with the read.  An approval needs complete
\* and verified terms as well: whether they are is left open.
ChangeSupplierStatus ==
    /\ supplier' \in STATUS_TRANSITIONS[supplier]
    /\ UNCHANGED <<product, verifications, listing, snapshot, review, verify, import>>

-------------------------------------------------------------------------------
(***************************************************************************)
(* The product.                                                            *)
(***************************************************************************)

SubmitProduct ==
    /\ product.status = "NONE"
    /\ supplier \notin {"REJECTED", "SUSPENDED"}
    /\ \E status \in {"DRAFT", "PENDING_REVIEW"} :
        product' = [product EXCEPT !.status = status, !.active = TRUE]
    /\ UNCHANGED <<supplier, verifications, listing, snapshot, review, verify, import>>

\* Stock and cost are stamped by every verification.
Checked == verifications # {}

\* An approval needs an approved supplier and all of the stamps.
DecisionRead(a) ==
    /\ review[a].pc = "idle"
    /\ \E decision \in DOMAIN DECISION_TARGET :
        /\ product.status \in ALLOWED_FROM[decision]
        /\ decision = "APPROVE" =>
              supplier = "APPROVED" /\ Checked /\ product.delivery
        /\ review' = [review EXCEPT ![a] =
               [pc |-> "decision", decision |-> decision, seen |-> product.status,
                active |-> product.active]]
    /\ UNCHANGED <<supplier, product, verifications, listing, snapshot, verify, import>>

\* Mutant of DecisionCommit: the product is updated by its id alone.
DecisionCommitUnconditional(a) ==
    /\ review[a].pc = "decision"
    /\ product' = [product EXCEPT !.status = DECISION_TARGET[review[a].decision],
                                  !.active = review[a].decision # "REMOVE"]
    /\ review' = [review EXCEPT ![a] = Quiet]
    /\ UNCHANGED <<supplier, verifications, listing, snapshot, verify, import>>

\* Conditional on the approval status alone; isActive is written as it was read
\* unless the decision says otherwise.
DecisionCommit(a) ==
    /\ review[a].pc = "decision"
    /\ product' =
          IF product.status # review[a].seen THEN product
          ELSE [product EXCEPT
                  !.status = DECISION_TARGET[review[a].decision],
                  !.active = CASE review[a].decision = "REMOVE"  -> FALSE
                               [] review[a].decision = "APPROVE" -> TRUE
                               [] OTHER -> review[a].active]
    /\ review' = [review EXCEPT ![a] = Quiet]
    /\ UNCHANGED <<supplier, verifications, listing, snapshot, verify, import>>

ReviewLost(a) ==
    /\ review[a].pc # "idle"
    /\ review' = [review EXCEPT ![a] = Quiet]
    /\ UNCHANGED <<supplier, product, verifications, listing, snapshot, verify, import>>

-------------------------------------------------------------------------------
(***************************************************************************)
(* Verification, and the snapshots it refreshes afterwards: the product    *)
(* and the listings are read once, then written one by one.                *)
(***************************************************************************)

VerifyCommit(v) ==
    /\ verify[v].pc = "idle"
    /\ product.status # "NONE"
    /\ \E cost \in ProductCosts, delivery \in BOOLEAN :
        /\ verifications' = verifications \cup {[cost |-> cost, delivery |-> delivery]}
        /\ Cardinality(verifications') <= MaxVerifications
        /\ product' = [product EXCEPT !.delivery = delivery, !.cost = cost]
    /\ verify' = [verify EXCEPT ![v] = [pc |-> "read"]]
    /\ UNCHANGED <<supplier, listing, snapshot, review, import>>

HasSnapshot == {s \in Sellers : snapshot[s] # NoSnapshot}

RecalculateRead(v) ==
    /\ verify[v].pc = "read"
    /\ verify' = [verify EXCEPT ![v] =
           [pc |-> "write", cost |-> product.cost, firm |-> product.delivery,
            todo |-> HasSnapshot]]
    /\ UNCHANGED <<supplier, product, verifications, listing, snapshot, review, import>>

\* The commission is resolved without the category of the listing.
RecalculateWrite(v) ==
    /\ verify[v].pc = "write"
    /\ \E s \in verify[v].todo :
        /\ snapshot' = [snapshot EXCEPT ![s] =
               [cost |-> verify[v].cost, firm |-> verify[v].firm, rule |-> "SELLER"]]
        /\ verify' = [verify EXCEPT ![v].todo = @ \ {s}]
    /\ UNCHANGED <<supplier, product, verifications, listing, review, import>>

\* Done, or the request dies before it is.
VerifyEnd(v) ==
    /\ verify[v].pc # "idle"
    /\ verify' = [verify EXCEPT ![v] = Quiet]
    /\ UNCHANGED <<supplier, product, verifications, listing, snapshot, review, import>>

-------------------------------------------------------------------------------
(***************************************************************************)
(* Import.                                                                 *)
(***************************************************************************)

IsImportable == /\ product.status = "APPROVED" /\ product.active
                /\ supplier = "APPROVED"

\* Whether the last known stock lets it be imported is left open.
ImportRead(s) ==
    /\ import[s].pc = "idle"
    /\ listing[s] = "NONE"
    /\ IsImportable
    /\ import' = [import EXCEPT ![s] = [pc |-> "create"]]
    /\ UNCHANGED <<supplier, product, verifications, listing, snapshot, review, verify>>

\* The draft is created, and the product read again, under the same conditions,
\* for its cost.  Pricing is best effort: the draft may stay without a snapshot.
ImportCreate(s) ==
    /\ import[s].pc = "create"
    /\ listing' = [listing EXCEPT ![s] = "DRAFT"]
    /\ import' = [import EXCEPT ![s] =
           IF IsImportable
           THEN [pc |-> "store", cost |-> product.cost, firm |-> product.delivery]
           ELSE Quiet]
    /\ UNCHANGED <<supplier, product, verifications, snapshot, review, verify>>

\* Mutant of ImportStore: the cost is read again for the snapshot.
ImportStoreMixed(s) ==
    /\ import[s].pc = "store"
    /\ snapshot' = [snapshot EXCEPT ![s] =
           [cost |-> product.cost, firm |-> import[s].firm, rule |-> "CATEGORY"]]
    /\ import' = [import EXCEPT ![s] = Quiet]
    /\ UNCHANGED <<supplier, product, verifications, listing, review, verify>>

ImportStore(s) ==
    /\ import[s].pc = "store"
    /\ snapshot' = [snapshot EXCEPT ![s] =
           [cost |-> import[s].cost, firm |-> import[s].firm, rule |-> "CATEGORY"]]
    /\ import' = [import EXCEPT ![s] = Quiet]
    /\ UNCHANGED <<supplier, product, verifications, listing, review, verify>>

\* The request dies, or its last write does.
ImportLost(s) ==
    /\ import[s].pc # "idle"
    /\ import' = [import EXCEPT ![s] = Quiet]
    /\ UNCHANGED <<supplier, product, verifications, listing, snapshot, review, verify>>

-------------------------------------------------------------------------------
CatalogNext ==
    \/ ChangeSupplierStatus \/ SubmitProduct
    \/ \E a \in Admins : DecisionRead(a) \/ DecisionCommit(a) \/ ReviewLost(a)
    \/ \E v \in Verifiers : \/ VerifyCommit(v) \/ RecalculateRead(v)
                            \/ RecalculateWrite(v) \/ VerifyEnd(v)
    \/ \E s \in Sellers : \/ ImportRead(s) \/ ImportCreate(s) \/ ImportStore(s)
                          \/ ImportLost(s)

CatalogSpec == CatalogInit /\ [][CatalogNext]_catalogVars

-------------------------------------------------------------------------------
\* Every variable has its type.
CatalogTypeOK ==
    /\ supplier \in SupplierStatus
    /\ product \in [status : ProductStatus, active : BOOLEAN, delivery : BOOLEAN,
                    cost : ProductCosts \cup {0}]
    /\ verifications \subseteq [cost : ProductCosts, delivery : BOOLEAN]
    /\ listing \in [Sellers -> {"NONE", "DRAFT"}]
    /\ snapshot \in [Sellers -> [cost : ProductCosts \cup {0}, firm : BOOLEAN,
                                 rule : {"NONE", "SELLER", "CATEGORY"}]]
    /\ \A a \in Admins : review[a].pc \in {"idle", "decision"}
    /\ \A v \in Verifiers : verify[v].pc \in {"idle", "read", "write"}
    /\ \A s \in Sellers : import[s].pc \in {"idle", "create", "store"}

\* A product that sellers can see was verified, and under the cost it shows,
\* whatever administrators review and verify at once.
ApprovedWasVerified ==
    product.status = "APPROVED" =>
        \E v \in verifications : v.cost = product.cost

\* A snapshot that is not called an estimate carries a cost that was verified
\* together with a delivery charge: it never mixes two verifications.
FirmSnapshotsAreVerified ==
    \A s \in Sellers : snapshot[s].firm =>
        [cost |-> snapshot[s].cost, delivery |-> TRUE] \in verifications

\* Nothing is sold on costs nobody verified.
VerifiedBeforeSold == ApprovedWasVerified /\ FirmSnapshotsAreVerified

\* A removed product stays removed and inactive, whatever review was begun
\* before its removal.
RemovedStaysRemoved ==
    [][product.status = "REMOVED" =>
          product'.status = "REMOVED" /\ ~product'.active]_catalogVars
===============================================================================
