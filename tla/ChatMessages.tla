----------------------------- MODULE ChatMessages -----------------------------
(***************************************************************************)
(* One conversation: its rows, what the two participants do to them, and   *)
(* what an open thread shows.                                              *)
(*                                                                         *)
(* The rows are written over HTTP, several statements to an operation; an  *)
(* event is published after each and never waited for, so a thread may get *)
(* events late, in another order, again, or not at all.  It begins with    *)
(* the newest page and loads older ones as it is scrolled.                 *)
(*                                                                         *)
(* A message is its place in the order of creation (createdAt).            *)
(***************************************************************************)
EXTENDS Naturals, Sequences, FiniteSets

CONSTANTS
    Buyer, Seller,
    Viewers,       \* who has the thread open
    PageSize,      \* messages to a page
    MaxMessages,   \* bound: messages ever sent
    MaxPublished   \* bound: events ever published

Participants == {Buyer, Seller}
Other(u) == IF u = Buyer THEN Seller ELSE Buyer

ASSUME ChatAssumption ==
    /\ Buyer # Seller
    /\ Viewers \subseteq Participants
    /\ PageSize \in Nat \ {0}
    /\ MaxMessages \in Nat /\ MaxPublished \in Nat

VARIABLES
    messages,   \* the messages, oldest first
    hidden,     \* who has deleted the conversation: buyerDeletedAt, sellerDeletedAt
    deletedAt,  \* how many messages there were when he did; 0 when he has not
    blocked,    \* who blocks the other
    action,     \* the action each participant has under way
    events,     \* what has been published
    thread,     \* what each viewer's page shows: what was loaded, then what arrived
    knownRows   \* the rows each viewer's hook has seen come over the socket

chatVars == <<messages, hidden, deletedAt, blocked, action, events, thread, knownRows>>

Row == [by : Participants, read : BOOLEAN, edited : BOOLEAN, deleted : BOOLEAN, text : BOOLEAN]
NoCursor == 0
NoPage == [items |-> <<>>]
NoAction == [pc |-> "idle"]
Closed == [open |-> "no"]

ChatInit ==
    /\ messages = <<>>
    /\ hidden = [u \in Participants |-> FALSE]
    /\ deletedAt = [u \in Participants |-> 0]
    /\ blocked = [u \in Participants |-> FALSE]
    /\ action = [u \in Participants |-> NoAction]
    /\ events = {}
    /\ thread = [v \in Viewers |-> Closed]
    /\ knownRows = [v \in Viewers |-> <<>>]

-------------------------------------------------------------------------------
(* What the participants do.                                               *)

Doing(u, pc) == action[u].pc = pc
Does(u, next) == action' = [action EXCEPT ![u] = next]
\* publishChatEvent: an event dropped there is one that never arrives.
Publishes(event) == Cardinality(events) < MaxPublished /\ events' = events \cup {event}
Inserted(m, row) == [type |-> "message", id |-> m, row |-> row]
Updated(m, row) == [type |-> "message_update", id |-> m, row |-> row]

\* Neither blocks the other, and the sender is under his rate.
SendChecks(u) ==
    /\ Doing(u, "idle")
    /\ ~blocked[u] /\ ~blocked[Other(u)]
    /\ Does(u, [pc |-> "send"])
    /\ UNCHANGED <<messages, hidden, deletedAt, blocked, events, thread, knownRows>>

NewMessage(u) == [by |-> u, read |-> FALSE, edited |-> FALSE, deleted |-> FALSE, text |-> TRUE]

\* Mutant of SendWrites: the conversation comes back for its sender.
SendWritesBackForSender(u) ==
    /\ Doing(u, "send")
    /\ Len(messages) < MaxMessages
    /\ messages' = Append(messages, NewMessage(u))
    /\ hidden' = [hidden EXCEPT ![u] = FALSE]
    /\ deletedAt' = [deletedAt EXCEPT ![u] = 0]
    /\ Publishes(Inserted(Len(messages) + 1, NewMessage(u)))
    /\ Does(u, NoAction)
    /\ UNCHANGED <<blocked, thread, knownRows>>

\* One transaction: the message, and the conversation back for its recipient.
SendWrites(u) ==
    /\ Doing(u, "send")
    /\ Len(messages) < MaxMessages
    /\ messages' = Append(messages, NewMessage(u))
    /\ hidden' = [hidden EXCEPT ![Other(u)] = FALSE]
    /\ deletedAt' = [deletedAt EXCEPT ![Other(u)] = 0]
    /\ Publishes(Inserted(Len(messages) + 1, NewMessage(u)))
    /\ Does(u, NoAction)
    /\ UNCHANGED <<blocked, thread, knownRows>>

EditReads(u) ==
    /\ Doing(u, "idle")
    /\ \E m \in DOMAIN messages :
          /\ messages[m].by = u
          /\ ~messages[m].deleted /\ ~messages[m].edited
          /\ Does(u, [pc |-> "edit", id |-> m])
    /\ UNCHANGED <<messages, hidden, deletedAt, blocked, events, thread, knownRows>>

\* By its id, whatever became of it since.
EditWrites(u) ==
    /\ Doing(u, "edit")
    /\ LET m == action[u].id IN
       /\ messages' = [messages EXCEPT ![m].edited = TRUE, ![m].text = TRUE]
       /\ Publishes(Updated(m, messages'[m]))
    /\ Does(u, NoAction)
    /\ UNCHANGED <<hidden, deletedAt, blocked, thread, knownRows>>

\* The check reads only whose it is, which never changes.
Delete(u, m) ==
    /\ m \in DOMAIN messages
    /\ messages[m].by = u
    /\ messages' = [messages EXCEPT ![m].deleted = TRUE, ![m].text = FALSE]
    /\ Publishes(Updated(m, messages'[m]))
    /\ UNCHANGED <<hidden, deletedAt, blocked, action, thread, knownRows>>

\* markChatRead names the messages of its event before it marks any.
MarkReads(u) ==
    /\ Doing(u, "idle")
    /\ LET ids == {m \in DOMAIN messages : messages[m].by # u /\ ~messages[m].read} IN
       ids # {} /\ Does(u, [pc |-> "mark", ids |-> ids])
    /\ UNCHANGED <<messages, hidden, deletedAt, blocked, events, thread, knownRows>>

MarkWrites(u) ==
    /\ Doing(u, "mark")
    /\ messages' = [m \in DOMAIN messages |->
          IF messages[m].by # u THEN [messages[m] EXCEPT !.read = TRUE] ELSE messages[m]]
    /\ Publishes([type |-> "messages_read", by |-> u, ids |-> action[u].ids])
    /\ Does(u, NoAction)
    /\ UNCHANGED <<hidden, deletedAt, blocked, thread, knownRows>>

\* The session ends, a check refuses, or the server dies.
ActionFails(u) ==
    /\ ~Doing(u, "idle")
    /\ Does(u, NoAction)
    /\ UNCHANGED <<messages, hidden, deletedAt, blocked, events, thread, knownRows>>

DeleteChat(u) ==
    /\ hidden' = [hidden EXCEPT ![u] = TRUE]
    /\ deletedAt' = [deletedAt EXCEPT ![u] = Len(messages)]
    /\ UNCHANGED <<messages, blocked, action, events, thread, knownRows>>

\* getOrCreateChat finds the conversation and opens it again for the buyer.
Reopen ==
    /\ hidden[Buyer]
    /\ ~blocked[Buyer] /\ ~blocked[Seller]
    /\ hidden' = [hidden EXCEPT ![Buyer] = FALSE]
    /\ deletedAt' = [deletedAt EXCEPT ![Buyer] = 0]
    /\ UNCHANGED <<messages, blocked, action, events, thread, knownRows>>

Block(u) ==
    /\ ~blocked[u]
    /\ blocked' = [blocked EXCEPT ![u] = TRUE]
    /\ UNCHANGED <<messages, hidden, deletedAt, action, events, thread, knownRows>>

Unblock(u) ==
    /\ blocked[u]
    /\ blocked' = [blocked EXCEPT ![u] = FALSE]
    /\ UNCHANGED <<messages, hidden, deletedAt, action, events, thread, knownRows>>

-------------------------------------------------------------------------------
(* What a thread shows.                                                    *)

Shown(m, row) == [id |-> m, row |-> row]

\* Mutant of Page: the page starts at its cursor instead of after it.
PageWithCursor(cursor) ==
    LET last == IF cursor = NoCursor THEN Len(messages) ELSE cursor
        oldest == IF last > PageSize THEN last - PageSize + 1 ELSE 1
    IN  [items |-> [i \in 1 .. last - oldest + 1 |-> Shown(oldest + i - 1, messages[oldest + i - 1])],
         nextCursor |-> IF oldest > 1 THEN oldest ELSE NoCursor]

\* getChatMessages: the newest page, or the one before the cursor, and the
\* cursor of the one before that.
Page(cursor) ==
    LET last == IF cursor = NoCursor THEN Len(messages) ELSE cursor - 1
        oldest == IF last > PageSize THEN last - PageSize + 1 ELSE 1
    IN  [items |-> [i \in 1 .. last - oldest + 1 |-> Shown(oldest + i - 1, messages[oldest + i - 1])],
         nextCursor |-> IF oldest > 1 THEN oldest ELSE NoCursor]

\* The server renders the newest page; the browser joins the room afterwards.
Render(v) ==
    /\ thread[v].open = "no"
    /\ LET page == Page(NoCursor) IN
       thread' = [thread EXCEPT ![v] =
          [open |-> "rendered", history |-> page.items, live |-> <<>>, nextCursor |-> page.nextCursor,
           older |-> NoPage, first |-> IF page.nextCursor = NoCursor THEN 1 ELSE page.nextCursor]]
    /\ knownRows' = [knownRows EXCEPT ![v] = <<>>]
    /\ UNCHANGED <<messages, hidden, deletedAt, blocked, action, events>>

Joins(v) ==
    /\ thread[v].open = "rendered"
    /\ thread' = [thread EXCEPT ![v].open = "live"]
    /\ UNCHANGED <<messages, hidden, deletedAt, blocked, action, events, knownRows>>

CloseThread(v) ==
    /\ thread[v].open = "live"
    /\ thread' = [thread EXCEPT ![v] = Closed]
    /\ knownRows' = [knownRows EXCEPT ![v] = <<>>]
    /\ UNCHANGED <<messages, hidden, deletedAt, blocked, action, events>>

\* Scrolled to the top: the next older page is read, its answer is on its way.
LoadOlder(v) ==
    /\ thread[v].open # "no"
    /\ thread[v].nextCursor # NoCursor
    /\ thread[v].older = NoPage
    /\ thread' = [thread EXCEPT ![v].older = Page(thread[v].nextCursor)]
    /\ UNCHANGED <<messages, hidden, deletedAt, blocked, action, events, knownRows>>

\* It goes before what is shown, whatever arrived in between.
OlderArrives(v) ==
    /\ thread[v].open # "no"
    /\ thread[v].older # NoPage
    /\ thread' = [thread EXCEPT ![v].history = thread[v].older.items \o @,
                                ![v].nextCursor = thread[v].older.nextCursor,
                                ![v].older = NoPage]
    /\ UNCHANGED <<messages, hidden, deletedAt, blocked, action, events, knownRows>>

OlderFails(v) ==
    /\ thread[v].open # "no"
    /\ thread[v].older # NoPage
    /\ thread' = [thread EXCEPT ![v].older = NoPage]
    /\ UNCHANGED <<messages, hidden, deletedAt, blocked, action, events, knownRows>>

Lines(page) == {page.history[i] : i \in DOMAIN page.history} \cup {page.live[i] : i \in DOMAIN page.live}

\* The lines of these rows are replaced by them.
Replaced(list, rows) ==
    [i \in DOMAIN list |->
        IF list[i].id \in DOMAIN rows THEN Shown(list[i].id, rows[list[i].id]) ELSE list[i]]

\* Mutant of HandleMessageInsert: every event is a new message.
HandleMessageInsertAlways(page, m, row) == [page EXCEPT !.live = Append(@, Shown(m, row))]

HandleMessageInsert(page, m, row) ==
    IF \E line \in Lines(page) : line.id = m THEN page
    ELSE [page EXCEPT !.live = Append(@, Shown(m, row))]

\* handleMessageUpdate, of each of these rows.
HandleMessageUpdates(page, rows) ==
    [page EXCEPT !.history = Replaced(@, rows), !.live = Replaced(@, rows)]

Remembered(v, m, row) ==
    [id \in DOMAIN knownRows[v] \cup {m} |-> IF id = m THEN row ELSE knownRows[v][id]]

MessageArrives(v, e) ==
    /\ e.type \in {"message", "message_update"}
    /\ knownRows' = [knownRows EXCEPT ![v] = Remembered(v, e.id, e.row)]
    /\ thread' = [thread EXCEPT ![v] =
          IF e.type = "message" THEN HandleMessageInsert(@, e.id, e.row)
          ELSE HandleMessageUpdates(@, [id \in {e.id} |-> e.row])]

\* Only for rows that came over the socket; the viewer's own reads are known.
ReadArrives(v, e) ==
    LET marked == [id \in e.ids \cap DOMAIN knownRows[v] |->
            [knownRows[v][id] EXCEPT !.read = TRUE]]
    IN
    /\ e.type = "messages_read"
    /\ e.by # v
    /\ knownRows' = [knownRows EXCEPT ![v] =
          [id \in DOMAIN @ |-> IF id \in e.ids THEN marked[id] ELSE @[id]]]
    /\ thread' = [thread EXCEPT ![v] = HandleMessageUpdates(@, marked)]

EventArrives(v) ==
    /\ thread[v].open = "live"
    /\ \E e \in events : MessageArrives(v, e) \/ ReadArrives(v, e)
    /\ UNCHANGED <<messages, hidden, deletedAt, blocked, action, events>>

-------------------------------------------------------------------------------
ChatNext ==
    \/ \E u \in Participants :
          \/ SendChecks(u)
          \/ SendWrites(u)
          \/ EditReads(u)
          \/ EditWrites(u)
          \/ MarkReads(u)
          \/ MarkWrites(u)
          \/ ActionFails(u)
          \/ \E m \in 1 .. MaxMessages : Delete(u, m)
          \/ DeleteChat(u)
          \/ Block(u)
          \/ Unblock(u)
    \/ Reopen
    \/ \E v \in Viewers :
          \/ Render(v)
          \/ Joins(v)
          \/ LoadOlder(v)
          \/ OlderArrives(v)
          \/ OlderFails(v)
          \/ CloseThread(v)
          \/ EventArrives(v)

ChatSpec == ChatInit /\ [][ChatNext]_chatVars

-------------------------------------------------------------------------------
JoinsUp(lines, cursor) ==
    /\ \A i \in DOMAIN lines : lines[i].id = lines[1].id + i - 1
    /\ lines # <<>> => lines[1].id = IF cursor = NoCursor THEN 1 ELSE cursor

(***************************************************************************)
(* What was loaded is the conversation without a gap, in the order it was  *)
(* sent, from the message the next page ends before, or from the first:    *)
(* however many pages were asked for while messages came (getChatMessages, *)
(* handleLoadOlder).                                                       *)
(***************************************************************************)
HistoryJoinsUp ==
    \A v \in Viewers : thread[v].open # "no" => JoinsUp(thread[v].history, thread[v].nextCursor)

(***************************************************************************)
(* A message of the page a thread began with, or one newer than it, is     *)
(* shown once, although it may be in the page and come over the socket     *)
(* too, late or twice: the duplicate-event protection of                   *)
(* use-chat-socket.ts:29-31. An older one whose event is as late as a page *)
(* of messages is shown again when its page is loaded (chat-thread.tsx:94).*)
(***************************************************************************)
ThreadShowsOnce ==
    \A v \in Viewers : thread[v].open # "no" =>
        LET page == thread[v] IN
        /\ \A i, j \in DOMAIN page.live : i # j => page.live[i].id # page.live[j].id
        /\ \A i \in DOMAIN page.history, j \in DOMAIN page.live :
              page.history[i].id = page.live[j].id => page.live[j].id < page.first

(***************************************************************************)
(* A message shown as read was read by whom it was sent to: in whatever    *)
(* order events and pages come, none claims a reading the rows do not have.*)
(***************************************************************************)
NoFalseRead ==
    \A v \in Viewers : thread[v].open # "no" =>
        \A line \in Lines(thread[v]) : line.row.read => messages[line.id].read

(***************************************************************************)
(* Of a conversation that is hidden from one who deleted it, all that was  *)
(* written since is his own: whoever is written to after he deleted it,    *)
(* even by a message checked before, has it back (ARCHITECTURE.md:653-655).*)
(***************************************************************************)
DeletedChatMissesNothing ==
    \A u \in Participants : hidden[u] =>
        \A m \in DOMAIN messages : m > deletedAt[u] => messages[m].by = u

ChatTypeOK ==
    /\ Len(messages) <= MaxMessages
    /\ \A m \in DOMAIN messages : messages[m] \in Row
    /\ \A u \in Participants :
          /\ hidden[u] \in BOOLEAN /\ deletedAt[u] \in 0 .. Len(messages) /\ blocked[u] \in BOOLEAN
          /\ action[u].pc \in {"idle", "send", "edit", "mark"}
    /\ \A v \in Viewers :
          /\ DOMAIN knownRows[v] \subseteq DOMAIN messages
          /\ thread[v].open # "no" =>
                \A line \in Lines(thread[v]) : line.id \in DOMAIN messages

\* A thread joins up, repeats nothing of its page, and claims no reading; a deleted
\* conversation comes back to whoever is written to.
ThreadSound == HistoryJoinsUp /\ ThreadShowsOnce /\ NoFalseRead /\ DeletedChatMissesNothing
===============================================================================
