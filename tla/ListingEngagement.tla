--------------------------- MODULE ListingEngagement ---------------------------
(***************************************************************************)
(* Favourites and views of one listing, and the counters kept on its row.  *)
(*                                                                         *)
(* A toggle looks its row up and then deletes or creates it, with the      *)
(* counter in the same transaction; a view is recorded unless the viewer   *)
(* has one of the last thirty minutes.                                     *)
(***************************************************************************)
EXTENDS Integers, FiniteSets

CONSTANTS
    Fans,       \* signed-in users
    Calls,      \* bound: requests at once
    MaxViews    \* bound: rows in listing_views

ASSUME EngagementAssumption == MaxViews \in Nat /\ IsFiniteSet(Fans) /\ IsFiniteSet(Calls)

VARIABLES
    wishlist,       \* the users with a favourite row, each with its row id
    rows,           \* favourite rows ever created
    favoriteCount,  \* Product.favoriteCount
    views,          \* rows of signed-in viewers within the window, per viewer
    anonymous,      \* all other rows
    viewCount,      \* Product.viewCount
    call            \* the requests under way

engagementVars ==
    <<wishlist, rows, favoriteCount, views, anonymous, viewCount, call>>

MaxFavorites == 2 * Cardinality(Fans)   \* bound: favourite rows ever created
Free         == [pc |-> "idle"]

EngagementInit ==
    /\ wishlist = [u \in Fans |-> 0]
    /\ rows = 0
    /\ favoriteCount = 0
    /\ views = [u \in Fans |-> 0]
    /\ anonymous = 0
    /\ viewCount = 0
    /\ call = [c \in Calls |-> Free]

-------------------------------------------------------------------------------
ToggleRead(c) ==
    /\ call[c].pc = "idle"
    /\ \E u \in Fans : call' = [call EXCEPT ![c] =
           [pc |-> IF wishlist[u] = 0 THEN "create" ELSE "delete", user |-> u,
            row |-> wishlist[u]]]
    /\ UNCHANGED <<wishlist, rows, favoriteCount, views, anonymous, viewCount>>

\* Mutant of ToggleDelete: a row that is gone is no error.
ToggleDeleteTolerant(c) ==
    /\ call[c].pc = "delete"
    /\ wishlist' = [wishlist EXCEPT ![call[c].user] = IF @ = call[c].row THEN 0 ELSE @]
    /\ favoriteCount' = favoriteCount - 1
    /\ call' = [call EXCEPT ![c] = Free]
    /\ UNCHANGED <<rows, views, anonymous, viewCount>>

\* The row that was read is deleted, and the counter with it: if the row is gone
\* the transaction fails as a whole.
ToggleDelete(c) ==
    /\ call[c].pc = "delete"
    /\ wishlist[call[c].user] = call[c].row
    /\ wishlist' = [wishlist EXCEPT ![call[c].user] = 0]
    /\ favoriteCount' = favoriteCount - 1
    /\ call' = [call EXCEPT ![c] = Free]
    /\ UNCHANGED <<rows, views, anonymous, viewCount>>

\* User and listing are unique: of two creations the second fails as a whole.
ToggleCreate(c) ==
    /\ call[c].pc = "create"
    /\ wishlist[call[c].user] = 0
    /\ rows < MaxFavorites
    /\ rows' = rows + 1
    /\ wishlist' = [wishlist EXCEPT ![call[c].user] = rows + 1]
    /\ favoriteCount' = favoriteCount + 1
    /\ call' = [call EXCEPT ![c] = Free]
    /\ UNCHANGED <<views, anonymous, viewCount>>

\* A viewer with a view in the window is counted already.
ViewRead(c) ==
    /\ call[c].pc = "idle"
    /\ \E u \in Fans :
        /\ views[u] = 0
        /\ call' = [call EXCEPT ![c] = [pc |-> "view", user |-> u]]
    /\ UNCHANGED <<wishlist, rows, favoriteCount, views, anonymous, viewCount>>

\* The row and the counter are one transaction.
ViewWrite(c) ==
    /\ call[c].pc = "view"
    /\ viewCount < MaxViews
    /\ views' = [views EXCEPT ![call[c].user] = @ + 1]
    /\ viewCount' = viewCount + 1
    /\ call' = [call EXCEPT ![c] = Free]
    /\ UNCHANGED <<wishlist, rows, favoriteCount, anonymous>>

\* A visitor without an account: whether the page was seen before is kept in the
\* browser.
ViewAnonymous ==
    /\ viewCount < MaxViews
    /\ anonymous' = anonymous + 1
    /\ viewCount' = viewCount + 1
    /\ UNCHANGED <<wishlist, rows, favoriteCount, views, call>>

\* Thirty minutes pass for one viewer.
WindowPasses ==
    /\ \E u \in Fans :
        /\ views[u] > 0
        /\ views' = [views EXCEPT ![u] = 0]
        /\ anonymous' = anonymous + views[u]
    /\ UNCHANGED <<wishlist, rows, favoriteCount, viewCount, call>>

\* The transaction failed, or its request died before it.
DropCall(c) ==
    /\ call[c].pc # "idle"
    /\ call' = [call EXCEPT ![c] = Free]
    /\ UNCHANGED <<wishlist, rows, favoriteCount, views, anonymous, viewCount>>

EngagementNext ==
    \/ \E c \in Calls : \/ ToggleRead(c) \/ ToggleDelete(c) \/ ToggleCreate(c)
                        \/ ViewRead(c) \/ ViewWrite(c) \/ DropCall(c)
    \/ ViewAnonymous \/ WindowPasses

EngagementSpec == EngagementInit /\ [][EngagementNext]_engagementVars

-------------------------------------------------------------------------------
Favorites == {u \in Fans : wishlist[u] # 0}

\* The rows of signed-in viewers within the window.
RecentViews == {row \in Fans \X (1 .. MaxViews) : row[2] <= views[row[1]]}

\* Every variable has its type, and the counters on the listing are the number
\* of rows they count, whatever toggles and views of one user race each other
\* (double clicks, two tabs).
CountersMatchRows ==
    /\ wishlist \in [Fans -> 0 .. MaxFavorites] /\ rows \in 0 .. MaxFavorites
    /\ \A c \in Calls : call[c].pc \in {"idle", "create", "delete", "view"}
    /\ favoriteCount = Cardinality(Favorites)
    /\ viewCount = anonymous + Cardinality(RecentViews)

\* A viewer is counted twice in one window only by requests that overlap: no
\* more views of one viewer than there are requests at once.
ViewsAreDeduped == \A u \in Fans : views[u] <= Cardinality(Calls)

\* The counters of a listing can be trusted: they count what there is, and a
\* viewer counts once but for requests that overlap.
EngagementSound == CountersMatchRows /\ ViewsAreDeduped
===============================================================================
