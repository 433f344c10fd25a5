---------------------------- MODULE ListingLifecycle ----------------------------
(***************************************************************************)
(* One listing, the verification of its seller, and who may show it.       *)
(*                                                                         *)
(* The seller's tabs publish, edit, withdraw and sell the listing;         *)
(* administrators moderate it and verify or reject the seller, who applies *)
(* meanwhile.  The seller may also be an administrator who lists goods of  *)
(* the shop: the seller row is then made on the way.  Every request checks *)
(* what it read and then writes by id, with no condition and in no         *)
(* transaction.                                                            *)
(***************************************************************************)
EXTENDS Naturals

CONSTANTS
    SellerTabs,   \* bound: requests of the seller at once
    Moderators    \* bound: requests of administrators at once

VARIABLES
    status,        \* Product.status, "NONE" before the listing exists
    published,     \* Product.publishedAt is set
    verification,  \* Seller.verificationStatus, "NONE" without a seller row
    role,          \* User.role of the seller, "ADMIN" for both staff roles
    selling,       \* the seller's requests
    admin          \* the administrators' requests

lifecycleVars ==
    <<status, published, verification, role, selling, admin>>

ListingStatus == {"DRAFT", "PENDING_REVIEW", "ACTIVE", "SOLD", "ARCHIVED", "SUSPENDED",
                  "REMOVED"}
Verification  == {"UNVERIFIED", "PENDING", "VERIFIED", "REJECTED"}
Ready         == [pc |-> "idle"]

\* Someone without a seller row, or who signed up to sell.
LifecycleInit ==
    /\ status = "NONE"
    /\ published = FALSE
    /\ \/ verification = "NONE" /\ role \in {"BUYER", "ADMIN"}
       \/ verification = "UNVERIFIED" /\ role = "SELLER"
    /\ selling = [t \in SellerTabs |-> Ready]
    /\ admin = [a \in Moderators |-> Ready]

-------------------------------------------------------------------------------
(***************************************************************************)
(* The seller's listing.                                                   *)
(***************************************************************************)

SellerActions == {"create", "edit", "publish", "duplicate", "delete", "archive",
                  "unarchive", "sold"}

\* An administrator may list with a seller row that is not verified, or none yet.
StaffLists(action) == role = "ADMIN" /\ action = "create"

\* Mutant of MayList: an edit that publishes is an edit like any other.
MayListEdits(action) ==
    \/ StaffLists(action)
    \/ /\ verification # "NONE"
       /\ action \in {"create", "duplicate", "unarchive"} => verification = "VERIFIED"

\* Whatever else puts a listing on sale, or makes one, needs a verified seller,
\* and every action needs a seller row.
MayList(action) ==
    \/ StaffLists(action)
    \/ /\ verification # "NONE"
       /\ action \in {"create", "publish", "duplicate", "unarchive"} =>
             verification = "VERIFIED"

FirstStep(action) ==
    IF action \in {"edit", "publish"} THEN "existing"
    ELSE IF verification = "NONE" THEN "provision" ELSE "write"

\* The session and the seller row are read.
SellerAsks(t) ==
    /\ selling[t].pc = "idle"
    /\ \E action \in SellerActions :
        /\ MayList(action)
        /\ action \in {"create", "duplicate"} <=> status = "NONE"
        /\ selling' = [selling EXCEPT ![t] =
               [pc |-> FirstStep(action), action |-> action,
                entitled |-> verification = "VERIFIED" \/ StaffLists(action)]]
    /\ UNCHANGED <<status, published, verification, role, admin>>

\* upsert: a seller row that was made meanwhile stays as it is.
ProvisionSeller(t) ==
    /\ selling[t].pc = "provision"
    /\ verification' = IF verification = "NONE" THEN "UNVERIFIED" ELSE verification
    /\ selling' = [selling EXCEPT ![t].pc = "write"]
    /\ UNCHANGED <<status, published, role, admin>>

\* An edit reads the status and the stamp that it will write.
ReadExisting(t) ==
    /\ selling[t].pc = "existing"
    /\ selling' = [selling EXCEPT ![t] =
           [pc |-> "write", action |-> @.action, entitled |-> @.entitled,
                status |-> status, published |-> published]]
    /\ UNCHANGED <<status, published, verification, role, admin>>

\* createListing and duplicateListing: one published or kept as a draft, the
\* other always a draft.
WriteNew(t) ==
    /\ selling[t].pc = "write" /\ selling[t].action \in {"create", "duplicate"}
    /\ status = "NONE"
    /\ \E publish \in BOOLEAN :
        /\ publish => selling[t].action = "create"
        /\ status' = IF publish THEN "ACTIVE" ELSE "DRAFT"
        /\ published' = publish
    /\ selling' = [selling EXCEPT ![t] = Ready]
    /\ UNCHANGED <<verification, role, admin>>

\* The form can ask for ACTIVE and DRAFT only: any other status becomes DRAFT.
WriteEdit(t) ==
    /\ selling[t].pc = "write" /\ selling[t].action \in {"edit", "publish"}
    /\ LET live == selling[t].action = "publish" \/ selling[t].status = "ACTIVE" IN
        /\ status' = IF live THEN "ACTIVE" ELSE "DRAFT"
        /\ published' = (selling[t].published \/ live)
    /\ selling' = [selling EXCEPT ![t] = Ready]
    /\ UNCHANGED <<verification, role, admin>>

\* deleteListing, archiveListing, unarchiveListing and markListingSold write
\* their status whatever it was.
WriteStatus(t) ==
    /\ selling[t].pc = "write"
    /\ selling[t].action \in {"delete", "archive", "unarchive", "sold"}
    /\ status' = CASE selling[t].action = "delete"    -> "REMOVED"
                   [] selling[t].action = "archive"   -> "ARCHIVED"
                   [] selling[t].action = "unarchive" -> "ACTIVE"
                   [] selling[t].action = "sold"      -> "SOLD"
    /\ published' = (published \/ selling[t].action = "unarchive")
    /\ selling' = [selling EXCEPT ![t] = Ready]
    /\ UNCHANGED <<verification, role, admin>>

-------------------------------------------------------------------------------
(***************************************************************************)
(* The seller's application.                                               *)
(***************************************************************************)

\* enableSelling adds an unverified seller row, once.
EnableSelling ==
    /\ verification = "NONE"
    /\ verification' = "UNVERIFIED"
    /\ UNCHANGED <<status, published, role, selling, admin>>

ApplyRead(t) ==
    /\ selling[t].pc = "idle"
    /\ role # "ADMIN"
    /\ verification # "VERIFIED"
    /\ selling' = [selling EXCEPT ![t] = [pc |-> "apply"]]
    /\ UNCHANGED <<status, published, verification, role, admin>>

\* The row is created or updated; an administrator may have verified it since.
ApplyWrite(t) ==
    /\ selling[t].pc = "apply"
    /\ verification' = "PENDING"
    /\ selling' = [selling EXCEPT ![t] = Ready]
    /\ UNCHANGED <<status, published, role, admin>>

-------------------------------------------------------------------------------
(***************************************************************************)
(* Administrators.                                                         *)
(***************************************************************************)

LISTING_TRANSITIONS ==
    [approve |-> [from |-> {"PENDING_REVIEW", "DRAFT"},    to |-> "ACTIVE",    stamps |-> TRUE],
     reject  |-> [from |-> {"PENDING_REVIEW", "SUSPENDED"}, to |-> "REMOVED",   stamps |-> FALSE],
     suspend |-> [from |-> {"ACTIVE", "SOLD"},             to |-> "SUSPENDED", stamps |-> FALSE],
     restore |-> [from |-> {"SUSPENDED", "REMOVED"},       to |-> "ACTIVE",    stamps |-> TRUE]]

SELLER_TRANSITIONS ==
    [VERIFIED   |-> {"UNVERIFIED", "PENDING", "REJECTED"},
     REJECTED   |-> {"UNVERIFIED", "PENDING", "VERIFIED"},
     UNVERIFIED |-> {"VERIFIED", "REJECTED"}]

ModerateRead(a) ==
    /\ admin[a].pc = "idle"
    /\ \E action \in DOMAIN LISTING_TRANSITIONS :
        /\ status \in LISTING_TRANSITIONS[action].from
        /\ admin' = [admin EXCEPT ![a] =
               [pc |-> "moderate", action |-> action, published |-> published]]
    /\ UNCHANGED <<status, published, verification, role, selling>>

\* publishedAt is stamped if it was not set when it was read, and else left out
\* of the update.
ModerateWrite(a) ==
    /\ admin[a].pc = "moderate"
    /\ LET rule == LISTING_TRANSITIONS[admin[a].action] IN
        /\ status' = rule.to
        /\ published' = (published \/ (rule.stamps /\ ~admin[a].published))
    /\ admin' = [admin EXCEPT ![a] = Ready]
    /\ UNCHANGED <<verification, role, selling>>

\* The super administrator's removal: one write, of a listing that is not
\* removed yet.
RemoveListing ==
    /\ status \notin {"NONE", "REMOVED"}
    /\ status' = "REMOVED"
    /\ UNCHANGED <<published, verification, role, selling, admin>>

DecideSeller(a) ==
    /\ admin[a].pc = "idle"
    /\ \E decision \in DOMAIN SELLER_TRANSITIONS :
        /\ verification \in SELLER_TRANSITIONS[decision]
        /\ admin' = [admin EXCEPT ![a] = [pc |-> "decide", decision |-> decision]]
    /\ UNCHANGED <<status, published, verification, role, selling>>

WriteVerification(a) ==
    /\ admin[a].pc = "decide"
    /\ verification' = admin[a].decision
    /\ admin' = [admin EXCEPT ![a].pc = "role"]
    /\ UNCHANGED <<status, published, role, selling>>

\* The role follows in a statement of its own; staff roles are never changed.
WriteRole(a) ==
    /\ admin[a].pc = "role"
    /\ role' = CASE role = "ADMIN"                   -> role
                 [] admin[a].decision = "VERIFIED" -> "SELLER"
                 [] OTHER                          -> "BUYER"
    /\ admin' = [admin EXCEPT ![a] = Ready]
    /\ UNCHANGED <<status, published, verification, selling>>

-------------------------------------------------------------------------------
\* A request dies before its next statement.
LoseRequest ==
    /\ \/ \E t \in SellerTabs :
            selling[t].pc # "idle" /\ selling' = [selling EXCEPT ![t] = Ready] /\ UNCHANGED admin
       \/ \E a \in Moderators :
            admin[a].pc # "idle" /\ admin' = [admin EXCEPT ![a] = Ready] /\ UNCHANGED selling
    /\ UNCHANGED <<status, published, verification, role>>

LifecycleNext ==
    \/ \E t \in SellerTabs :
        \/ SellerAsks(t) \/ ProvisionSeller(t) \/ ReadExisting(t) \/ WriteNew(t)
        \/ WriteEdit(t) \/ WriteStatus(t) \/ ApplyRead(t) \/ ApplyWrite(t)
    \/ \E a \in Moderators :
        \/ ModerateRead(a) \/ ModerateWrite(a)
        \/ DecideSeller(a) \/ WriteVerification(a) \/ WriteRole(a)
    \/ EnableSelling \/ RemoveListing \/ LoseRequest

LifecycleSpec == LifecycleInit /\ [][LifecycleNext]_lifecycleVars

-------------------------------------------------------------------------------
\* Every variable has its type.
LifecycleTypeOK ==
    /\ status \in ListingStatus \cup {"NONE"}
    /\ published \in BOOLEAN
    /\ verification \in Verification \cup {"NONE"}
    /\ role \in {"BUYER", "SELLER", "ADMIN"}
    /\ \A t \in SellerTabs :
          selling[t].pc \in {"idle", "provision", "existing", "write", "apply"}
    /\ \A a \in Moderators : admin[a].pc \in {"idle", "moderate", "decide", "role"}

\* Nobody brings a listing on sale who was not entitled to it when the request
\* began, whatever is rejected, edited and moderated meanwhile: what becomes ACTIVE
\* was published by a seller who was verified, or as a new listing by an
\* administrator, was restored or approved by a moderator, or was ACTIVE already
\* when the edit read it (seller/listings/actions.ts:73-132).
PublishedByRight ==
    [][status # "ACTIVE" /\ status' = "ACTIVE" =>
          \/ \E a \in Moderators : ModerateWrite(a)
          \/ \E t \in SellerTabs :
                /\ selling[t].pc = "write" /\ selling'[t].pc = "idle"
                /\ \/ selling[t].entitled
                   \/ selling[t].action = "edit" /\ selling[t].status = "ACTIVE"]_lifecycleVars
===============================================================================
