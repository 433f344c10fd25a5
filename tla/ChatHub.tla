------------------------------- MODULE ChatHub -------------------------------
(***************************************************************************)
(* The chat server's rooms, across instances, for one chat.                *)
(*                                                                         *)
(* A socket is let in by a one-shot ticket, joins and leaves the room, and *)
(* is dropped by its watchdog.  Presence and typing go to the room of this *)
(* instance at once and to the others over Redis, whose publication comes  *)
(* back to its own sender too; message events come over Redis alone, from  *)
(* the application.  Redis keeps nothing: a publication may be lost.       *)
(***************************************************************************)
EXTENDS Naturals, Sequences

CONSTANTS
    Servers,       \* instances of the hub
    Conns,         \* bound: sockets ever accepted
    Tickets,       \* bound: tickets ever issued
    TicketUser,    \* whom the application issued each ticket to
    App,           \* the origin of message events
    MaxEvents      \* bound: events ever sent

Owners == {TicketUser[t] : t \in Tickets}
Event == 1 .. MaxEvents

ASSUME HubAssumption == App \notin Servers /\ Conns \subseteq Nat /\ MaxEvents \in Nat

VARIABLES
    tickets,    \* the tickets Redis still holds
    conn,       \* each socket and the handler that serves it
    room,       \* the sockets joined, by instance
    channel,    \* what Redis has for each instance's pump, in order
    sent,       \* the events sent so far, their origin and whether all of it went out
    got,        \* how often each socket was sent each event
    told        \* whether the last transition announced of a user was to online

hubVars == <<tickets, conn, room, channel, sent, got, told>>

HubInit ==
    /\ tickets = Tickets
    /\ conn = [c \in Conns |-> [pc |-> "none"]]
    /\ room = [i \in Servers |-> {}]
    /\ channel = [i \in Servers |-> <<>>]
    /\ sent = <<>>
    /\ got = [c \in Conns |-> [e \in Event |-> 0]]
    /\ told = [i \in Servers |-> [u \in Owners |-> FALSE]]

-------------------------------------------------------------------------------
(* Tickets.                                                                *)

\* A socket is accepted first and asked for its ticket then.  Sockets are
\* numbered as they come.
Accept(c, i, t) ==
    /\ conn[c].pc = "none"
    /\ \A d \in Conns : d < c => conn[d].pc # "none"
    /\ conn' = [conn EXCEPT ![c] = [pc |-> "ticket", server |-> i, ticket |-> t, closing |-> FALSE]]
    /\ UNCHANGED <<tickets, room, channel, sent, got, told>>

\* GETDEL; a ticket that is spent, expired or unreadable closes the socket.
ConsumeTicket(c) ==
    /\ conn[c].pc = "ticket"
    /\ \/ /\ conn[c].ticket \in tickets
          /\ tickets' = tickets \ {conn[c].ticket}
          /\ conn' = [conn EXCEPT ![c].pc = "idle"]
       \/ /\ tickets' \in {tickets, tickets \ {conn[c].ticket}}
          /\ conn' = [conn EXCEPT ![c].pc = "gone"]
    /\ UNCHANGED <<room, channel, sent, got, told>>

-------------------------------------------------------------------------------
(* The room.                                                               *)

Owner(c) == TicketUser[conn[c].ticket]
Server(c) == conn[c].server
Here(i, u) == {c \in room[i] : Owner(c) = u}

\* The handler goes on to announce what its command changed, if anything.
\* After the last broadcast of a socket that is over there is nothing more.
Announcing(c, changed, online, closing) ==
    /\ conn' = [conn EXCEPT ![c] =
          [pc |-> IF changed THEN "announce" ELSE IF closing THEN "gone" ELSE "idle",
           server |-> @.server, ticket |-> @.ticket, closing |-> closing]]
    /\ told' = IF changed THEN [told EXCEPT ![Server(c)][Owner(c)] = online] ELSE told

\* join: authorised against the database each time; idempotent.
Join(c) ==
    /\ conn[c].pc = "idle"
    /\ room' = [room EXCEPT ![Server(c)] = @ \cup {c}]
    /\ Announcing(c, Here(Server(c), Owner(c)) = {}, TRUE, FALSE)
    /\ UNCHANGED <<tickets, channel, sent, got>>

\* What is under way is no longer meant for a socket that leaves.
Forgetting(c) == [e \in DOMAIN sent |-> [sent[e] EXCEPT !.to = @ \ {c}]]

\* Only the user's last socket on this instance takes him offline.
Out(c, closing) ==
    /\ room' = [room EXCEPT ![Server(c)] = @ \ {c}]
    /\ sent' = Forgetting(c)
    /\ Announcing(c, Here(Server(c), Owner(c)) = {c}, FALSE, closing)

Leave(c) ==
    /\ conn[c].pc = "idle"
    /\ Out(c, FALSE)
    /\ UNCHANGED <<tickets, channel, got>>

\* The watchdog, a violation, a client that went away, an answer that could
\* not be sent: the finally block unregisters the socket.
Drop(c) ==
    /\ conn[c].pc \in {"idle", "announce"}
    /\ ~conn[c].closing
    /\ Out(c, TRUE)
    /\ UNCHANGED <<tickets, channel, got>>

Typing(c) ==
    /\ conn[c].pc = "idle"
    /\ c \in room[Server(c)]
    /\ conn' = [conn EXCEPT ![c].pc = "announce"]
    /\ UNCHANGED <<tickets, room, channel, sent, got, told>>

-------------------------------------------------------------------------------
(* Delivery.                                                               *)

Delivered(i, e) ==
    [c \in Conns |-> IF c \in room[i] THEN [got[c] EXCEPT ![e] = @ + 1] ELSE got[c]]

\* Everyone in any room.
Audience == UNION {room[i] : i \in Servers}

\* Mutant of DeliverHere: what is published comes back anyway.
DeliverHereLater(c) ==
    /\ conn[c].pc = "announce"
    /\ Len(sent) < MaxEvents
    /\ sent' = Append(sent, [origin |-> Server(c), to |-> Audience, out |-> FALSE, lost |-> FALSE])
    /\ conn' = [conn EXCEPT ![c] =
          [pc |-> "publish", server |-> @.server, ticket |-> @.ticket,
           closing |-> @.closing, event |-> Len(sent) + 1]]
    /\ UNCHANGED <<tickets, room, channel, got, told>>

\* broadcast_control, first half: the sockets of this instance.
DeliverHere(c) ==
    /\ conn[c].pc = "announce"
    /\ Len(sent) < MaxEvents
    /\ sent' = Append(sent, [origin |-> Server(c), to |-> Audience, out |-> FALSE, lost |-> FALSE])
    /\ got' = Delivered(Server(c), Len(sent) + 1)
    /\ conn' = [conn EXCEPT ![c] =
          [pc |-> "publish", server |-> @.server, ticket |-> @.ticket,
           closing |-> @.closing, event |-> Len(sent) + 1]]
    /\ UNCHANGED <<tickets, room, channel, told>>

\* A publication reaches every pump, or none.
Publishing(e) ==
    \/ /\ channel' = [i \in Servers |-> Append(channel[i], e)]
       /\ sent' = [sent EXCEPT ![e].out = TRUE]
    \/ /\ sent' = [sent EXCEPT ![e].out = TRUE, ![e].lost = TRUE]
       /\ UNCHANGED channel

\* broadcast_control, second half: the other instances.
PublishControl(c) ==
    /\ conn[c].pc = "publish"
    /\ Publishing(conn[c].event)
    /\ conn' = [conn EXCEPT ![c] =
          [pc |-> IF @.closing THEN "gone" ELSE "idle",
           server |-> @.server, ticket |-> @.ticket, closing |-> @.closing]]
    /\ UNCHANGED <<tickets, room, got, told>>

\* The application has written a message and publishes it.
PublishMessage ==
    /\ Len(sent) < MaxEvents
    /\ sent' = Append(sent, [origin |-> App, to |-> Audience, out |-> TRUE, lost |-> FALSE])
    /\ channel' = [i \in Servers |-> Append(channel[i], Len(sent) + 1)]
    /\ UNCHANGED <<tickets, conn, room, got, told>>

\* _handle_channel_message: control events of this instance are echoes.
Pump(i) ==
    /\ channel[i] # <<>>
    /\ got' = IF sent[Head(channel[i])].origin = i THEN got
              ELSE Delivered(i, Head(channel[i]))
    /\ channel' = [channel EXCEPT ![i] = Tail(@)]
    /\ UNCHANGED <<tickets, conn, room, sent, told>>

-------------------------------------------------------------------------------
HubNext ==
    \/ \E c \in Conns :
          \/ \E i \in Servers, t \in Tickets : Accept(c, i, t)
          \/ ConsumeTicket(c)
          \/ Join(c)
          \/ Leave(c)
          \/ Drop(c)
          \/ Typing(c)
          \/ DeliverHere(c)
          \/ PublishControl(c)
    \/ PublishMessage
    \/ \E i \in Servers : Pump(i)

HubSpec == HubInit /\ [][HubNext]_hubVars

-------------------------------------------------------------------------------
(***************************************************************************)
(* A ticket lets in one socket, however many present it at once.           *)
(***************************************************************************)
OneSocketPerTicket ==
    \A c, d \in Conns :
        /\ c # d
        /\ conn[c].pc \in {"idle", "announce", "publish"}
        /\ conn[d].pc \in {"idle", "announce", "publish"}
        => conn[c].ticket # conn[d].ticket

(***************************************************************************)
(* A user is announced offline when, and only when, his last socket on the *)
(* instance is gone, whichever of his tabs that was and however it went.   *)
(***************************************************************************)
BadgeFollowsLastTab ==
    \A i \in Servers, u \in Owners : told[i][u] <=> Here(i, u) # {}

(***************************************************************************)
(* No socket is sent an event twice, although a control event comes to its *)
(* own instance both directly and back from Redis.                         *)
(***************************************************************************)
HeardOnce == \A c \in Conns, e \in Event : got[c][e] <= 1

(***************************************************************************)
(* An event that went out and that every pump has taken has reached every  *)
(* socket that was in the room, on whichever instance, and still is.       *)
(***************************************************************************)
HeardByTheRoom ==
    \A e \in DOMAIN sent :
        /\ sent[e].out /\ ~sent[e].lost
        /\ \A i \in Servers : \A n \in DOMAIN channel[i] : channel[i][n] # e
        => \A c \in sent[e].to \cap Audience : got[c][e] = 1

\* The hub serves every socket it let in once, and tells of those that are gone.
HubSound == OneSocketPerTicket /\ BadgeFollowsLastTab /\ HeardOnce /\ HeardByTheRoom
===============================================================================
