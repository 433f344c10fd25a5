------------------------------ MODULE Notifications ------------------------------
(***************************************************************************)
(* The notices of one user: how they come to be, the bell that polls them, *)
(* and the notification centre where they are read.                        *)
(*                                                                         *)
(* A service notifies after its own transaction: first the row, then, for  *)
(* some, an email, and a process that stops in between sends none.  The    *)
(* bell asks every 45 seconds while its tab is visible; its answer is made *)
(* of two statements that run side by side, and the centre marks notices   *)
(* read meanwhile without telling it.                                      *)
(*                                                                         *)
(* What a notice says, and the other users, are left out.                  *)
(***************************************************************************)
EXTENDS Integers, FiniteSets

CONSTANTS
    MaxNotices,    \* bound: notices
    MaxClicks,     \* bound: server actions under way
    ListSize,      \* notices in the bell: 10
    PageSize       \* notices in the centre: 50

ASSUME NoticesAssumption ==
    MaxNotices \in Nat /\ MaxClicks \in Nat /\ ListSize \in Nat \ {0} /\ PageSize \in Nat \ {0}

VARIABLES
    created,       \* rows, the newest has the greatest id
    unread,        \* rows with isRead = false
    emailing,      \* rows whose notifyUser has still to send the email
    emailed,       \* emails handed to the provider
    tabVisible,    \* the tab of the bell is on top
    poll,          \* the request of the bell
    bell,          \* what the bell shows
    centre,        \* what the notification centre shows
    clicks         \* server actions under way: a row to mark, or all of them

noticeRows  == <<created, unread, emailing, emailed>>
noticeViews == <<tabVisible, poll, bell, centre, clicks>>
noticeVars  == <<noticeRows, noticeViews>>

NoticeIds == 1 .. MaxNotices
AllOfThem == 0
NotYet    == -1

\* The newest rows, and which of them are unread.
Newest(size) == {n \in 1 .. created : n > created - size}
View(size)   == [top |-> Newest(size), unread |-> unread \cap Newest(size)]

NoView == [top |-> {}, unread |-> {}]
Views  == [top : SUBSET NoticeIds, unread : SUBSET NoticeIds]

\* quiet is history: no row has changed since the request began.
Poll   == [pc : {"idle", "asked"}, retried : BOOLEAN, listed : BOOLEAN,
           list : Views, count : Nat \cup {NotYet}, quiet : BOOLEAN]
Bell   == [shown : BOOLEAN, list : Views, count : Nat, quiet : BOOLEAN]
Centre == [open : BOOLEAN, list : Views]

NoPoll == [pc |-> "idle", retried |-> FALSE, listed |-> FALSE, list |-> NoView,
           count |-> NotYet, quiet |-> FALSE]
Asked(retried) == [NoPoll EXCEPT !.pc = "asked", !.retried = retried, !.quiet = TRUE]

NoBell == [shown |-> FALSE, list |-> NoView, count |-> 0, quiet |-> FALSE]

NoCentre == [open |-> FALSE, list |-> NoView]

NoticesInit ==
    /\ created = 0
    /\ unread = {}
    /\ emailing = {}
    /\ emailed = {}
    /\ tabVisible \in BOOLEAN
    /\ poll = NoPoll
    /\ bell = NoBell
    /\ centre = NoCentre
    /\ clicks = {}

\* A row changes: what is under way or shown may be behind it.
RowsChange ==
    /\ poll' = [poll EXCEPT !.quiet = FALSE]
    /\ bell' = [bell EXCEPT !.quiet = FALSE]

-------------------------------------------------------------------------------
\* After a commit elsewhere; the caller swallows its failures, so that a row the
\* database refuses is a notice that never was.
notifyUser(shouldEmail) ==
    /\ created < MaxNotices
    /\ created' = created + 1
    /\ unread' = unread \cup {created + 1}
    /\ emailing' = IF shouldEmail THEN emailing \cup {created + 1} ELSE emailing
    /\ RowsChange
    /\ UNCHANGED <<emailed, tabVisible, centre, clicks>>

\* The provider takes it, or there is none, or it fails and that is logged.
sendEmail(n) ==
    /\ n \in emailing
    /\ emailing' = emailing \ {n}
    /\ emailed' \in {emailed, emailed \cup {n}}
    /\ UNCHANGED <<created, unread, noticeViews>>

\* The server stops: an email that was not sent is not sent.
ServerStops ==
    /\ emailing # {}
    /\ emailing' = {}
    /\ UNCHANGED <<created, unread, emailed, noticeViews>>

-------------------------------------------------------------------------------
\* Every 45 seconds, in a visible tab, one request at a time.
useNotifications ==
    /\ tabVisible
    /\ poll.pc = "idle"
    /\ poll' = Asked(FALSE)
    /\ UNCHANGED <<noticeRows, tabVisible, bell, centre, clicks>>

SwitchTab ==
    /\ tabVisible' = ~tabVisible
    /\ UNCHANGED <<noticeRows, poll, bell, centre, clicks>>

\* The two statements of the route, in either order.
findNewest ==
    /\ poll.pc = "asked" /\ ~poll.listed
    /\ poll' = [poll EXCEPT !.listed = TRUE, !.list = View(ListSize)]
    /\ UNCHANGED <<noticeRows, tabVisible, bell, centre, clicks>>

\* Mutant of getUnreadNotificationCount: what is unread among the newest.
countListed ==
    /\ poll.pc = "asked" /\ poll.count = NotYet
    /\ poll' = [poll EXCEPT !.count = Cardinality(unread \cap Newest(ListSize))]
    /\ UNCHANGED <<noticeRows, tabVisible, bell, centre, clicks>>

getUnreadNotificationCount ==
    /\ poll.pc = "asked" /\ poll.count = NotYet
    /\ poll' = [poll EXCEPT !.count = Cardinality(unread)]
    /\ UNCHANGED <<noticeRows, tabVisible, bell, centre, clicks>>

AnswerReady == poll.pc = "asked" /\ poll.listed /\ poll.count # NotYet

PollAnswered ==
    /\ AnswerReady
    /\ bell' = [shown |-> TRUE, list |-> poll.list, count |-> poll.count, quiet |-> poll.quiet]
    /\ poll' = NoPoll
    /\ UNCHANGED <<noticeRows, tabVisible, centre, clicks>>

\* When the answer is due: signed out, an error of the database, or no connection.
\* It is asked once more, then left until the next round; the bell keeps what it shows.
PollFails ==
    /\ AnswerReady
    /\ poll' = IF poll.retried THEN NoPoll ELSE Asked(TRUE)
    /\ UNCHANGED <<noticeRows, tabVisible, bell, centre, clicks>>

-------------------------------------------------------------------------------
\* The centre is rendered per request.
NotificationsPage ==
    /\ centre' = [open |-> TRUE, list |-> View(PageSize)]
    /\ UNCHANGED <<noticeRows, tabVisible, poll, bell, clicks>>

LeaveCentre ==
    /\ centre.open
    /\ centre' = NoCentre
    /\ UNCHANGED <<noticeRows, tabVisible, poll, bell, clicks>>

\* A row that is shown as unread is clicked, in the bell or in the centre.
handleClick(n) ==
    /\ n \in centre.list.unread \cup bell.list.unread
    /\ Cardinality(clicks) < MaxClicks
    /\ clicks' = clicks \cup {n}
    /\ UNCHANGED <<noticeRows, tabVisible, poll, bell, centre>>

\* The button is there while a row of the centre is unread, and waits for its answer.
MarkAllReadButton ==
    /\ centre.list.unread # {} /\ AllOfThem \notin clicks
    /\ Cardinality(clicks) < MaxClicks
    /\ clicks' = clicks \cup {AllOfThem}
    /\ UNCHANGED <<noticeRows, tabVisible, poll, bell, centre>>

\* The action marks one row, or every unread row, also those that came after the
\* click; its answer renders the centre again, if it comes.  The bell is not told.
MarkRead(click) ==
    /\ click \in clicks
    /\ clicks' = clicks \ {click}
    /\ unread' = IF click = AllOfThem THEN {} ELSE unread \ {click}
    /\ IF unread' = unread THEN UNCHANGED <<poll, bell>> ELSE RowsChange
    /\ centre' \in {centre} \cup (IF centre.open THEN {[open |-> TRUE,
           list |-> [top |-> Newest(PageSize), unread |-> unread' \cap Newest(PageSize)]]} ELSE {})
    /\ UNCHANGED <<created, emailing, emailed, tabVisible>>

LoseClick(click) ==
    /\ click \in clicks
    /\ clicks' = clicks \ {click}
    /\ UNCHANGED <<noticeRows, tabVisible, poll, bell, centre>>

NoticesNext ==
    \/ \E shouldEmail \in BOOLEAN : notifyUser(shouldEmail)
    \/ \E n \in NoticeIds : sendEmail(n) \/ handleClick(n)
    \/ \E click \in clicks : MarkRead(click) \/ LoseClick(click)
    \/ ServerStops \/ useNotifications \/ SwitchTab
    \/ findNewest \/ getUnreadNotificationCount \/ PollAnswered \/ PollFails
    \/ NotificationsPage \/ LeaveCentre \/ MarkAllReadButton

\* The timer of a visible tab runs, the database answers, and the connection does
\* not fail for ever.
NoticesFairness ==
    /\ WF_noticeVars(useNotifications)
    /\ WF_noticeVars(findNewest \/ getUnreadNotificationCount)
    /\ SF_noticeVars(PollAnswered)

NoticesSpec == NoticesInit /\ [][NoticesNext]_noticeVars

-------------------------------------------------------------------------------
\* Every variable has its type.
NoticesTypeOK ==
    /\ created \in 0 .. MaxNotices
    /\ unread \subseteq 1 .. created
    /\ emailing \subseteq NoticeIds /\ emailed \subseteq NoticeIds
    /\ tabVisible \in BOOLEAN
    /\ poll \in Poll /\ bell \in Bell /\ centre \in Centre
    /\ clicks \subseteq NoticeIds \cup {AllOfThem}

\* What an email says is also in the centre, and is sent once, whatever fails in
\* between: email-service.ts:15 "email is an enhancement on top of in-app
\* notifications, never the only channel".
EmailHasNotice ==
    /\ emailing \cup emailed \subseteq 1 .. created
    /\ emailing \cap emailed = {}

BellFresh == bell.shown /\ bell.list = View(ListSize) /\ bell.count = Cardinality(unread)

\* The bell shows the newest notices and how many are unread, of all and not of the
\* ten, unless a row has changed since it asked, between its two statements too.
BellHonest == bell.quiet => BellFresh

\* A bell that stays visible is right in the end, however the notices are read and
\* the answers are lost.
BellCatchesUp == <>[]tabVisible => <>[]BellFresh
===============================================================================
