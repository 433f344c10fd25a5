---------------------------- MODULE ChatConnection ----------------------------
(***************************************************************************)
(* One browser tab's connection to the chat server (ChatSocketManager).    *)
(*                                                                         *)
(* Threads subscribe and unsubscribe; the manager fetches a ticket, opens  *)
(* a socket and retries.  Everything in between is a callback that may     *)
(* come when the thread it was begun for is long gone, and a socket stays  *)
(* with its handlers until somebody removes them.                          *)
(***************************************************************************)
EXTENDS Naturals

CONSTANTS
    Threads,               \* chats with a listener in this tab
    Sockets,               \* bound: connections under way at once
    NoSocket,
    MAX_RECONNECT_ATTEMPTS,
    MaxTimers              \* bound: timers pending at once

ASSUME ConnectionAssumption ==
    /\ NoSocket \notin Sockets
    /\ MAX_RECONNECT_ATTEMPTS \in Nat
    /\ MaxTimers \in Nat \ {0}

VARIABLES
    listeners,         \* the threads subscribed
    socketStatus,
    ws,                \* this.ws
    socket,            \* every connection begun: its ticket, then its socket
    reconnectTimer,    \* the timer the manager can still clear
    looseTimers,       \* timers it no longer can: overwritten, or forgotten
    reconnectAttempts,
    intentionalClose,
    retries            \* reconnects scheduled since the last opening or subscribe

connectionVars ==
    <<listeners, socketStatus, ws, socket, reconnectTimer, looseTimers,
      reconnectAttempts, intentionalClose, retries>>

\* closing: close() was called, onclose is to come.  deaf: no handlers.
SocketState == {"free", "ticket", "opening", "open", "closing", "deaf"}

ConnectionInit ==
    /\ listeners = {}
    /\ socketStatus = "inactive"
    /\ ws = NoSocket
    /\ socket = [s \in Sockets |-> "free"]
    /\ reconnectTimer = FALSE
    /\ looseTimers = 0
    /\ reconnectAttempts = 0
    /\ intentionalClose = FALSE
    /\ retries = 0

-------------------------------------------------------------------------------
(* Helpers: what the private methods do.                                   *)

\* ensureConnected, with the timers as they are when it is called.
EnsureConnected(threads, state, timer) ==
    IF threads # {} /\ state = "inactive"
    THEN /\ socketStatus' = "connecting"
         /\ intentionalClose' = FALSE
         /\ reconnectTimer' = FALSE
         /\ \E s \in Sockets :
               socket[s] = "free" /\ socket' = [socket EXCEPT ![s] = "ticket"]
    ELSE /\ socketStatus' = state
         /\ reconnectTimer' = timer
         /\ UNCHANGED <<intentionalClose, socket>>

\* teardownSocket: this.ws loses its handlers; s, if any, is over.
Deafened(s) ==
    [t \in Sockets |->
        IF t = s THEN "free"
        ELSE IF t = ws THEN "deaf"
        ELSE socket[t]]

Teardown(s) ==
    /\ ws' = NoSocket
    /\ socketStatus' = "inactive"
    /\ socket' = Deafened(s)

\* A new timer takes the place of the one kept, which runs on.
SetTimer ==
    /\ reconnectTimer' = TRUE
    /\ IF reconnectTimer
       THEN looseTimers < MaxTimers /\ looseTimers' = looseTimers + 1
       ELSE UNCHANGED looseTimers

-------------------------------------------------------------------------------
(* The threads.                                                            *)

Subscribe(t) ==
    /\ t \notin listeners
    /\ listeners' = listeners \cup {t}
    /\ reconnectAttempts' = 0
    /\ retries' = 0
    /\ EnsureConnected(listeners', socketStatus, reconnectTimer)
    /\ UNCHANGED <<ws, looseTimers>>

\* The last one out closes the connection, unless it is only being made.
Unsubscribe(t) ==
    /\ t \in listeners
    /\ listeners' = listeners \ {t}
    /\ IF listeners' = {}
       THEN /\ Teardown(NoSocket)
            /\ intentionalClose' = TRUE
            /\ reconnectTimer' = FALSE
       ELSE UNCHANGED <<socketStatus, ws, socket, intentionalClose, reconnectTimer>>
    /\ UNCHANGED <<looseTimers, reconnectAttempts, retries>>

-------------------------------------------------------------------------------
(* The callbacks of one connection.                                        *)

TicketArrives(s) ==
    /\ socket[s] = "ticket"
    /\ socket' = [socket EXCEPT ![s] = "opening"]
    /\ UNCHANGED <<listeners, socketStatus, ws, reconnectTimer, looseTimers,
                   reconnectAttempts, intentionalClose, retries>>

\* No ticket, or no socket: the next try is not counted as an attempt, so that a
\* ticket refused for good is asked for as long as somebody listens.
TicketFails(s) ==
    /\ socket[s] = "ticket"
    /\ Teardown(s)
    /\ IF listeners # {} THEN SetTimer ELSE UNCHANGED <<reconnectTimer, looseTimers>>
    /\ UNCHANGED <<listeners, reconnectAttempts, intentionalClose, retries>>

\* Whether or not anybody still wants it.
Opens(s) ==
    /\ socket[s] = "opening"
    /\ socket' = [socket EXCEPT ![s] = "open"]
    /\ ws' = s
    /\ socketStatus' = "open"
    /\ intentionalClose' = FALSE
    /\ reconnectAttempts' = 0
    /\ retries' = 0
    /\ UNCHANGED <<listeners, reconnectTimer, looseTimers>>

\* Mutant of Closes: a socket that never opened is nobody's loss.
ClosesIfOwned(s) ==
    /\ socket[s] \in {"opening", "open", "closing"}
    /\ IF socket[s] = "opening"
       THEN /\ socket' = [socket EXCEPT ![s] = "free"]
            /\ UNCHANGED <<socketStatus, ws>>
       ELSE Teardown(s)
    /\ IF \/ socket[s] = "opening" \/ intentionalClose \/ listeners = {}
          \/ reconnectAttempts >= MAX_RECONNECT_ATTEMPTS
       THEN UNCHANGED <<reconnectTimer, looseTimers, reconnectAttempts, retries>>
       ELSE /\ SetTimer
            /\ reconnectAttempts' = reconnectAttempts + 1
            /\ retries' = retries + 1
    /\ UNCHANGED <<listeners, intentionalClose>>

\* onclose: of whichever socket, it tears down the current one.
Closes(s) ==
    /\ socket[s] \in {"opening", "open", "closing"}
    /\ Teardown(s)
    /\ IF \/ intentionalClose \/ listeners = {}
          \/ reconnectAttempts >= MAX_RECONNECT_ATTEMPTS
       THEN UNCHANGED <<reconnectTimer, looseTimers, reconnectAttempts, retries>>
       ELSE /\ SetTimer
            /\ reconnectAttempts' = reconnectAttempts + 1
            /\ retries' = retries + 1
    /\ UNCHANGED <<listeners, intentionalClose>>

\* A socket without handlers ends unheard.
EndsUnheard(s) ==
    /\ socket[s] = "deaf"
    /\ socket' = [socket EXCEPT ![s] = "free"]
    /\ UNCHANGED <<listeners, socketStatus, ws, reconnectTimer, looseTimers,
                   reconnectAttempts, intentionalClose, retries>>

\* The heartbeat misses its pong and closes the current socket.
HeartbeatFails ==
    /\ socketStatus = "open"
    /\ ws # NoSocket
    /\ socket[ws] = "open"
    /\ socket' = [socket EXCEPT ![ws] = "closing"]
    /\ UNCHANGED <<listeners, socketStatus, ws, reconnectTimer, looseTimers,
                   reconnectAttempts, intentionalClose, retries>>

\* Whichever timer fires, it forgets the one that is kept.
ReconnectTimerFires(kept) ==
    /\ IF kept THEN reconnectTimer /\ UNCHANGED looseTimers
       ELSE looseTimers > 0 /\ looseTimers' = IF reconnectTimer THEN looseTimers ELSE looseTimers - 1
    /\ EnsureConnected(listeners, socketStatus, FALSE)
    /\ UNCHANGED <<listeners, ws, reconnectAttempts, retries>>

-------------------------------------------------------------------------------
ConnectionNext ==
    \/ \E t \in Threads : Subscribe(t) \/ Unsubscribe(t)
    \/ \E s \in Sockets :
          \/ TicketArrives(s)
          \/ TicketFails(s)
          \/ Opens(s)
          \/ Closes(s)
          \/ EndsUnheard(s)
    \/ HeartbeatFails
    \/ \E kept \in BOOLEAN : ReconnectTimerFires(kept)

ConnectionSpec == ConnectionInit /\ [][ConnectionNext]_connectionVars

-------------------------------------------------------------------------------
TimerPending == reconnectTimer \/ looseTimers > 0

(***************************************************************************)
(* A tab with a listener is never forgotten: it has a socket that will     *)
(* tell its end, a connection under way, a timer that will begin one, or   *)
(* it has used up its attempts.  However old connections end, nothing      *)
(* leaves the manager waiting for a callback that cannot come.             *)
(***************************************************************************)
NeverForgotten ==
    listeners # {} =>
        \/ socketStatus = "open" /\ ws # NoSocket /\ socket[ws] \in {"open", "closing"}
        \/ socketStatus = "connecting" /\ \E s \in Sockets : socket[s] \in {"ticket", "opening"}
        \/ socketStatus = "inactive"
           /\ (TimerPending \/ reconnectAttempts >= MAX_RECONNECT_ATTEMPTS)

(***************************************************************************)
(* Only so many reconnects are scheduled after sockets that ended, without *)
(* one that opened or a thread that asked: a server that refuses every     *)
(* socket is left alone (ws-client.ts:48, 294-302).  Requests for a ticket *)
(* made again are not reconnects: TicketFails counts nothing.              *)
(***************************************************************************)
ReconnectsAreBounded == retries <= MAX_RECONNECT_ATTEMPTS

ConnectionTypeOK ==
    /\ listeners \subseteq Threads
    /\ socketStatus \in {"inactive", "connecting", "open"}
    /\ ws \in Sockets \cup {NoSocket}
    /\ socket \in [Sockets -> SocketState]
    /\ looseTimers \in 0 .. MaxTimers
    /\ reconnectAttempts \in 0 .. MAX_RECONNECT_ATTEMPTS
    /\ reconnectTimer \in BOOLEAN /\ intentionalClose \in BOOLEAN
    /\ socketStatus = "open" <=> ws # NoSocket

\* The manager gives up neither too late nor without anybody's notice.
ConnectionSound == NeverForgotten /\ ReconnectsAreBounded
===============================================================================
