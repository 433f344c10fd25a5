------------------------------ MODULE SupplierDesk ------------------------------
(***************************************************************************)
(* The seller's desk for supplier goods: the catalogue page, whose         *)
(* searches and page turns each fetch a list after a pause; the import     *)
(* dialog, which prices what is typed into it; and the fulfilment board,   *)
(* which the seller and an administrator work at together.                 *)
(*                                                                         *)
(* Answers come in any order, or never.                                    *)
(***************************************************************************)
EXTENDS SupplierFulfilment

CONSTANTS
    Searches,    \* what may be typed or filtered, each with its pages
    PagesOf,
    Prices,      \* what may be typed as a price
    Imports,     \* the products of the list
    MaxFetching, \* bound: answers under way
    MaxClicks    \* bound: requests the boards ever send

ASSUME DeskAssumption ==
    /\ PagesOf \in [Searches -> Nat \ {0}]
    /\ MaxFetching \in Nat /\ MaxClicks \in Nat

VARIABLES
    station,    \* what the person works at; a list may arrive behind the dialog
    filters,    \* what the page asks for: the search and the page number
    pause,      \* a fetch waits for the pause in typing, or for the retry
    loading,
    fetching,   \* the requests under way, oldest first
    shown,      \* the answer on the page
    overtaken,  \* an answer came before that of an earlier request
    dialog,     \* the product being imported, and the price typed for it
    preview,    \* the figures shown for it, and the request for them
    submitting, \* the import under way
    listed,     \* the products the seller has imported
    marked,     \* those the page marks as imported
    boardTask,  \* the task's status on the server
    eventKeys,  \* the keys of the events on record
    board,      \* per person: the status shown, the request under way
    clicks,
    applied     \* the clicks whose move was recorded

browseVars == <<filters, pause, loading, fetching, shown, overtaken>>
importVars == <<dialog, preview, submitting, listed>>
boardVars  == <<boardTask, eventKeys, board, clicks, applied>>
deskVars   == <<station, browseVars, importVars, marked, boardVars>>

NoProduct == "none"
NoPrice   == 0
NoFigures == [product |-> NoProduct, price |-> NoPrice]
NoPreview == [pc |-> "idle", shows |-> NoFigures, error |-> FALSE]
AtRest    == [pc |-> "idle"]
Workers   == {"SELLER", "ADMIN"}

DeskInit ==
    /\ station \in {"catalogue", "dialog", "board"}
    /\ \E s \in Searches : filters = [search |-> s, page |-> 1]
    /\ pause = TRUE /\ loading = FALSE
    /\ fetching = <<>> /\ shown = filters /\ overtaken = FALSE
    /\ dialog = NoFigures
    /\ preview = NoPreview
    /\ submitting = AtRest
    /\ listed = {} /\ marked = {}
    /\ boardTask = "AWAITING_SUPPLIER_CONFIRMATION"
    /\ eventKeys = {} /\ clicks = 0 /\ applied = {}
    /\ board = [w \in Workers |-> [pc |-> "idle", shows |-> boardTask, told |-> "nothing"]]

-------------------------------------------------------------------------------
(***************************************************************************)
(* The catalogue page.                                                     *)
(***************************************************************************)
Filtered(search, page) ==
    /\ filters' = [search |-> search, page |-> page]
    /\ pause' = TRUE
    /\ UNCHANGED <<loading, fetching, shown, overtaken>>

\* The search box and the regions go back to page 1.
TypeSearch == \E s \in Searches \ {filters.search} : Filtered(s, 1)

\* The buttons know the pages of the list shown; loading disables them.
TurnPage ==
    /\ ~loading
    /\ \E p \in 1 .. PagesOf[shown.search] :
          p \in {filters.page - 1, filters.page + 1} /\ Filtered(filters.search, p)

\* The pause of 300 ms ends, or the retry button; no request is called off.
FetchCatalog ==
    /\ pause
    /\ Len(fetching) < MaxFetching
    /\ pause' = FALSE /\ loading' = TRUE
    /\ fetching' = Append(fetching, [for |-> filters, knew |-> listed])
    /\ UNCHANGED <<filters, shown, overtaken, marked>>

Answers(i) ==
    /\ fetching' = SubSeq(fetching, 1, i - 1) \o SubSeq(fetching, i + 1, Len(fetching))
    /\ loading' = FALSE

\* The answer carries its page, which moves the page number back to it, and
\* the imports known to the server when it was made.
CatalogArrives(i) ==
    /\ Answers(i)
    /\ shown' = fetching[i].for
    /\ filters' = [filters EXCEPT !.page = fetching[i].for.page]
    /\ pause' = (pause \/ fetching[i].for.page # filters.page)
    /\ overtaken' = (overtaken \/ i > 1)
    /\ \/ marked' = fetching[i].knew
       \/ marked' = listed

\* An error is told; the list stays, and waits for the retry.
CatalogFails(i) ==
    /\ Answers(i)
    /\ pause' = TRUE
    /\ UNCHANGED <<filters, shown, overtaken, marked>>

ListAnswers ==
    FetchCatalog \/ \E i \in DOMAIN fetching : CatalogArrives(i) \/ CatalogFails(i)

BrowseNext == ListAnswers \/ ((TypeSearch \/ TurnPage) /\ UNCHANGED marked)

-------------------------------------------------------------------------------
(***************************************************************************)
(* The import dialog.                                                      *)
(***************************************************************************)
\* Mutant of Repriced: the figures asked for before are not called off.
RepricedKeeping(product, price) ==
    CASE preview.pc = "asking"                                   -> preview
      [] preview.pc # "asking" /\ (product = NoProduct \/ price = NoPrice) -> NoPreview
      [] OTHER                                                   -> [preview EXCEPT !.pc = "pause"]

\* The effect's clean-up ends the pause and calls the request off.
Repriced(product, price) ==
    CASE product = NoProduct                       -> [preview EXCEPT !.pc = "idle"]
      [] product # NoProduct /\ price = NoPrice    -> NoPreview
      [] OTHER                                     -> [preview EXCEPT !.pc = "pause"]

Retyped(product, price) ==
    /\ dialog' = [product |-> product, price |-> price]
    /\ preview' = Repriced(product, price)
    /\ UNCHANGED <<submitting, listed, marked>>

\* handleOpenImport: one marked as imported keeps what was typed.
OpenImport ==
    /\ dialog.product = NoProduct
    /\ \E p \in Imports : Retyped(p, IF p \in marked THEN dialog.price ELSE NoPrice)

\* Closing stays possible while an import is under way.
CloseImport == dialog.product # NoProduct /\ Retyped(NoProduct, dialog.price)

TypePrice ==
    /\ dialog.product \notin marked \cup {NoProduct}
    /\ \E p \in (Prices \cup {NoPrice}) \ {dialog.price} : Retyped(dialog.product, p)

AskPreview ==
    /\ preview.pc = "pause"
    /\ preview' = [pc |-> "asking", shows |-> preview.shows, error |-> preview.error, for |-> dialog]
    /\ UNCHANGED <<dialog, submitting, listed, marked>>

\* A refusal clears the figures; an answer that never comes leaves them.
PreviewArrives ==
    /\ preview.pc = "asking"
    /\ preview' \in {[pc |-> "idle", shows |-> preview.for,   error |-> FALSE],
                     [pc |-> "idle", shows |-> NoFigures,     error |-> TRUE],
                     [pc |-> "idle", shows |-> preview.shows, error |-> TRUE]}
    /\ UNCHANGED <<dialog, submitting, listed, marked>>

SubmitImport ==
    /\ submitting = AtRest
    /\ dialog.product \notin marked \cup {NoProduct} /\ dialog.price # NoPrice
    /\ submitting' = [pc |-> "sent", product |-> dialog.product]
    /\ UNCHANGED <<dialog, preview, listed, marked>>

\* The server imports a product once; it may also refuse, or never see it.
ImportLands ==
    /\ submitting.pc = "sent"
    /\ \/ /\ listed' = listed \cup {submitting.product}
          /\ submitting' = [submitting EXCEPT !.pc = IF submitting.product \in listed
                                                     THEN "existing" ELSE "created"]
       \/ submitting' = [submitting EXCEPT !.pc = "refused"] /\ UNCHANGED listed
    /\ UNCHANGED <<dialog, preview, marked>>

\* Only "created" marks the product; the answer may be lost.
ImportAnswered ==
    /\ submitting.pc \in {"created", "existing", "refused"}
    /\ submitting' = AtRest
    /\ \/ submitting.pc = "created" /\ marked' = marked \cup {submitting.product}
       \/ UNCHANGED marked
    /\ UNCHANGED <<dialog, preview, listed>>

ImportNext ==
    \/ OpenImport \/ CloseImport \/ TypePrice \/ AskPreview \/ PreviewArrives
    \/ SubmitImport \/ ImportLands \/ ImportAnswered

-------------------------------------------------------------------------------
(***************************************************************************)
(* The fulfilment board; the races of the requests themselves are in       *)
(* SupplierFulfilment.                                                     *)
(***************************************************************************)
ButtonsOf(w) ==
    FulfilmentActions \ (IF w = "ADMIN" THEN {} ELSE {"RECORD_DELIVERY", "CANCEL", "RETRY"})

\* Mutant of EventKey: the key names the action, not the click.
EventKeyOfAction(action) == <<action, 0>>

\* idempotencyKey: each click makes its own.
EventKey(action) == <<action, clicks>>

\* Every button of the board is offered, whatever the status shown.
Click(w) ==
    /\ board[w].pc = "idle"
    /\ clicks < MaxClicks
    /\ clicks' = clicks + 1
    /\ \E action \in ButtonsOf(w) :
         board' = [board EXCEPT ![w] = [pc |-> "sent", shows |-> board[w].shows, told |-> "nothing",
                                        action |-> action, key |-> EventKey(action),
                                        click |-> clicks']]
    /\ UNCHANGED <<boardTask, eventKeys, applied>>

Replies(w, answer) == board' = [board EXCEPT ![w].pc = answer]

\* The move and its event are one transaction; a key on record undoes it and
\* counts as done.
BoardRequestLands(w) ==
    /\ board[w].pc = "sent"
    /\ LET to == ACTION_TARGET[board[w].action] IN
       \/ /\ TransitionAllowed(boardTask, to, w)
          /\ board[w].key \notin eventKeys
          /\ boardTask' = to
          /\ eventKeys' = eventKeys \cup {board[w].key}
          /\ applied' = applied \cup {board[w].click}
          /\ Replies(w, "ok")
       \/ /\ TransitionAllowed(boardTask, to, w)
          /\ board[w].key \in eventKeys
          /\ Replies(w, "ok")
          /\ UNCHANGED <<boardTask, eventKeys, applied>>
       \/ /\ ~TransitionAllowed(boardTask, to, w)
          /\ Replies(w, "refused")
          /\ UNCHANGED <<boardTask, eventKeys, applied>>
    /\ UNCHANGED clicks

BoardAnswered(w) ==
    /\ board[w].pc \in {"ok", "refused"}
    /\ board' = [board EXCEPT ![w] =
          [pc |-> "idle", told |-> board[w].pc, click |-> board[w].click,
           shows |-> IF board[w].pc = "ok" THEN ACTION_TARGET[board[w].action] ELSE board[w].shows]]
    /\ UNCHANGED <<boardTask, eventKeys, clicks, applied>>

\* The request or its answer is lost: the buttons stay disabled.
BoardFreezes(w) ==
    /\ board[w].pc \in {"sent", "ok", "refused"}
    /\ board' = [board EXCEPT ![w] = [pc |-> "frozen", shows |-> board[w].shows, told |-> "nothing"]]
    /\ UNCHANGED <<boardTask, eventKeys, clicks, applied>>

ReloadBoard(w) ==
    /\ board[w].pc \in {"idle", "frozen"}
    /\ board' = [board EXCEPT ![w] = [pc |-> "idle", shows |-> boardTask, told |-> "nothing"]]
    /\ UNCHANGED <<boardTask, eventKeys, clicks, applied>>

BoardNext ==
    \E w \in Workers :
        Click(w) \/ BoardRequestLands(w) \/ BoardAnswered(w) \/ BoardFreezes(w) \/ ReloadBoard(w)

DeskNext ==
    /\ UNCHANGED station
    /\ \/ /\ station = "catalogue"
          /\ BrowseNext /\ UNCHANGED <<importVars, boardVars>>
       \/ /\ station = "dialog"
          /\ \/ ListAnswers /\ UNCHANGED <<importVars, boardVars>>
             \/ ImportNext /\ UNCHANGED <<browseVars, boardVars>>
       \/ /\ station = "board"
          /\ BoardNext /\ UNCHANGED <<browseVars, importVars, marked>>

DeskSpec == DeskInit /\ [][DeskNext]_deskVars

-------------------------------------------------------------------------------
(***************************************************************************)
(* Once every answer is in, the list is the page the seller is on, and of  *)
(* the search typed unless answers overtook one another; and a product     *)
(* marked as imported was imported (supplier-catalog-view.tsx).            *)
(***************************************************************************)
ListIsOfFilters ==
    /\ ~pause /\ fetching = <<>> =>
          /\ shown.page = filters.page
          /\ ~overtaken => shown.search = filters.search
    /\ marked \subseteq listed

(***************************************************************************)
(* The figures in the dialog are those of the product and price in it,     *)
(* once they have come and no error is shown (supplier-catalog-view.tsx).  *)
(***************************************************************************)
FiguresAreOfForm ==
    dialog.product # NoProduct /\ preview.pc = "idle" /\ ~preview.error =>
        preview.shows = IF dialog.price = NoPrice THEN NoFigures ELSE dialog

(***************************************************************************)
(* A person told that the task was updated has that very click on record,  *)
(* once: no earlier click stood in for it (supplier-fulfilment-board.tsx). *)
(***************************************************************************)
ToldDoneWasDone ==
    \A w \in Workers :
        board[w].pc = "idle" /\ board[w].told = "ok" => board[w].click \in applied

DeskSound == ListIsOfFilters /\ FiguresAreOfForm /\ ToldDoneWasDone
===============================================================================
