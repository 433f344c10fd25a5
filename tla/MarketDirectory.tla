---------------------------- MODULE MarketDirectory ----------------------------
(***************************************************************************)
(* The rows that listings hang on: categories and sellers.                 *)
(*                                                                         *)
(* Administrators delete them after counting what uses them, in statements *)
(* of their own, while sellers create listings and buyers order them.  What *)
(* the counts miss is left to the foreign keys of the database.            *)
(***************************************************************************)
EXTENDS Naturals, FiniteSets

CONSTANTS
    Categories,   \* the slugs categories are known by
    Goods,        \* bound: listings ever created
    SellerRows,   \* the sellers
    Clerks,       \* bound: administrators' requests at once
    Listers       \* bound: requests that create listings at once

VARIABLES
    category,   \* the categories that exist, each with its parent or "NONE"
    seller,     \* the sellers that exist
    goods,      \* the listings: their seller and category
    ordered,    \* the listings that were ordered
    clerk,      \* the administrators' requests
    lister      \* the sellers' requests

directoryVars == <<category, seller, goods, ordered, clerk, lister>>

NoGoods  == [seller |-> "NONE", category |-> "NONE"]
AtRest   == [pc |-> "idle"]
Existing == DOMAIN category

\* category without c, and with the children of c at the root.
Orphaned(c) ==
    [d \in Existing \ {c} |-> IF category[d] = c THEN "NONE" ELSE category[d]]

DirectoryInit ==
    /\ category = [c \in Categories |-> "NONE"]
    /\ seller = SellerRows
    /\ goods = [g \in Goods |-> NoGoods]
    /\ ordered = {}
    /\ clerk = [a \in Clerks |-> AtRest]
    /\ lister = [p \in Listers |-> AtRest]

-------------------------------------------------------------------------------
\* The seller row is read, then the category by its slug.
ListRead(p) ==
    /\ lister[p].pc = "idle"
    /\ \E s \in seller, c \in Existing :
        lister' = [lister EXCEPT ![p] = [pc |-> "write", seller |-> s, category |-> c]]
    /\ UNCHANGED <<category, seller, goods, ordered, clerk>>

\* The listing is created if what it refers to is still there.
ListWrite(p) ==
    /\ lister[p].pc = "write"
    /\ lister[p].seller \in seller
    /\ lister[p].category \in Existing
    /\ \E g \in Goods :
        /\ goods[g] = NoGoods /\ g \notin ordered
        /\ goods' = [goods EXCEPT ![g] =
               [seller |-> lister[p].seller, category |-> lister[p].category]]
    /\ lister' = [lister EXCEPT ![p] = AtRest]
    /\ UNCHANGED <<category, seller, ordered, clerk>>

ListFail(p) ==
    /\ lister[p].pc = "write"
    /\ lister' = [lister EXCEPT ![p] = AtRest]
    /\ UNCHANGED <<category, seller, goods, ordered, clerk>>

\* A buyer orders a listing: the order refers to it and to its seller.
OrderGoods(g) ==
    /\ goods[g] # NoGoods
    /\ ordered' = ordered \cup {g}
    /\ UNCHANGED <<category, seller, goods, clerk, lister>>

-------------------------------------------------------------------------------
\* createAdminCategory: the parent is looked up first.
CategoryRead(a) ==
    /\ clerk[a].pc = "idle"
    /\ \E c \in Categories \ Existing, parent \in Existing \cup {"NONE"} :
        clerk' = [clerk EXCEPT ![a] = [pc |-> "category", slug |-> c, parent |-> parent]]
    /\ UNCHANGED <<category, seller, goods, ordered, lister>>

CategoryWrite(a) ==
    /\ clerk[a].pc = "category"
    /\ clerk[a].slug \notin Existing
    /\ clerk[a].parent \in Existing \cup {"NONE"}
    /\ category' = [c \in Existing \cup {clerk[a].slug} |->
                        IF c = clerk[a].slug THEN clerk[a].parent ELSE category[c]]
    /\ clerk' = [clerk EXCEPT ![a] = AtRest]
    /\ UNCHANGED <<seller, goods, ordered, lister>>

UsesOf(c) == {g \in Goods : goods[g].category = c}

\* deleteAdminCategory: listings and children are counted.
DropCategoryRead(a) ==
    /\ clerk[a].pc = "idle"
    /\ \E c \in Existing :
        /\ UsesOf(c) = {}
        /\ \A d \in Existing : category[d] # c
        /\ clerk' = [clerk EXCEPT ![a] = [pc |-> "dropCategory", slug |-> c]]
    /\ UNCHANGED <<category, seller, goods, ordered, lister>>

\* Product.category is Restrict, Category.parent is SetNull.
DropCategoryWrite(a) ==
    /\ clerk[a].pc = "dropCategory"
    /\ clerk[a].slug \in Existing
    /\ UsesOf(clerk[a].slug) = {}
    /\ category' = Orphaned(clerk[a].slug)
    /\ clerk' = [clerk EXCEPT ![a] = AtRest]
    /\ UNCHANGED <<seller, goods, ordered, lister>>

GoodsOf(s) == {g \in Goods : goods[g].seller = s}

\* deleteAdminSeller: everything that refers to the seller is counted.
DropSellerRead(a) ==
    /\ clerk[a].pc = "idle"
    /\ \E s \in seller :
        /\ GoodsOf(s) = {}
        /\ clerk' = [clerk EXCEPT ![a] = [pc |-> "dropSeller", seller |-> s]]
    /\ UNCHANGED <<category, seller, goods, ordered, lister>>

\* Mutant of DropSellerWrite: orders are deleted with their seller.
DropSellerWriteCascading(a) ==
    /\ clerk[a].pc = "dropSeller"
    /\ clerk[a].seller \in seller
    /\ seller' = seller \ {clerk[a].seller}
    /\ goods' = [g \in Goods |-> IF g \in GoodsOf(clerk[a].seller) THEN NoGoods ELSE goods[g]]
    /\ clerk' = [clerk EXCEPT ![a] = AtRest]
    /\ UNCHANGED <<category, ordered, lister>>

\* Product.seller is Cascade, Order.seller is Restrict: listings created since
\* the count go with their seller, unless one of them was ordered.
DropSellerWrite(a) ==
    /\ clerk[a].pc = "dropSeller"
    /\ clerk[a].seller \in seller
    /\ GoodsOf(clerk[a].seller) \cap ordered = {}
    /\ seller' = seller \ {clerk[a].seller}
    /\ goods' = [g \in Goods |-> IF g \in GoodsOf(clerk[a].seller) THEN NoGoods ELSE goods[g]]
    /\ clerk' = [clerk EXCEPT ![a] = AtRest]
    /\ UNCHANGED <<category, ordered, lister>>

\* The seller of a deleted row may apply again.
SellerReturns ==
    /\ \E s \in SellerRows \ seller : seller' = seller \cup {s}
    /\ UNCHANGED <<category, goods, ordered, clerk, lister>>

\* A foreign key or a unique slug refuses the write, or the request dies.
ClerkFails(a) ==
    /\ clerk[a].pc # "idle"
    /\ clerk' = [clerk EXCEPT ![a] = AtRest]
    /\ UNCHANGED <<category, seller, goods, ordered, lister>>

DirectoryNext ==
    \/ \E p \in Listers : ListRead(p) \/ ListWrite(p) \/ ListFail(p)
    \/ \E g \in Goods : OrderGoods(g)
    \/ \E a \in Clerks :
        \/ CategoryRead(a) \/ CategoryWrite(a)
        \/ DropCategoryRead(a) \/ DropCategoryWrite(a)
        \/ DropSellerRead(a) \/ DropSellerWrite(a) \/ ClerkFails(a)
    \/ SellerReturns

DirectorySpec == DirectoryInit /\ [][DirectoryNext]_directoryVars

-------------------------------------------------------------------------------
\* Every listing has a seller and a category that exist, and every category a
\* parent that does, whatever was created since an administrator counted.
DirectoryIntact ==
    /\ Existing \subseteq Categories /\ seller \subseteq SellerRows
    /\ \A c \in Existing : category[c] \in Existing \cup {"NONE"}
    /\ \A g \in Goods : goods[g] # NoGoods =>
        goods[g].seller \in seller /\ goods[g].category \in Existing

\* A listing that was ordered keeps its row, whichever seller is deleted: the
\* history of its order stays readable.
OrderedGoodsStay == \A g \in ordered : goods[g] # NoGoods

\* Deleting a seller or a category leaves nothing without its parent, and no
\* order without its listings.
DirectorySound == DirectoryIntact /\ OrderedGoodsStay
===============================================================================
