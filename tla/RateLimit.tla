------------------------------ MODULE RateLimit ------------------------------
(***************************************************************************)
(* The backend's sliding-window limiter, for one bucket and identifier.    *)
(*                                                                         *)
(* A request reads its clock, and one Redis transaction prunes the sorted  *)
(* set, adds the request and counts.  Requests overtake one another        *)
(* between the two; Redis may be away or start again empty, and its answer *)
(* may be lost after it ran the transaction.                               *)
(***************************************************************************)
EXTENDS Integers, FiniteSets

CONSTANTS
    MaxHits, \* bound: requests ever made
    Limit,
    Window,
    MaxLatency,  \* bound: ticks from a clock read to its transaction
    FailOpen,    \* rate_limit_fail_open
    MaxTicks,     \* bound: ticks
    MaxFlushes   \* bound: times Redis loses the set

ASSUME LimiterAssumption ==
    /\ Limit \in Nat \ {0} /\ Window \in Nat \ {0}
    /\ MaxLatency \in 0 .. Window - 1
    /\ FailOpen \in BOOLEAN
    /\ MaxTicks \in Nat /\ MaxFlushes \in Nat
    /\ MaxHits \in Nat

\* Numbered in the order they read the clock.
Hits == 1 .. MaxHits

VARIABLES
    time,
    hit,       \* each request: the clock it read, and what it was told
    entries,   \* the requests in the sorted set
    flushes    \* times Redis lost them

limiterVars == <<time, hit, entries, flushes>>

Waiting(r) == hit[r].pc = "waiting"
Counted(r) == hit[r].pc \in {"allowed", "refused", "lost"}

LimiterInit ==
    /\ time = 0
    /\ hit = [r \in Hits |-> [pc |-> "none"]]
    /\ entries = {}
    /\ flushes = 0

ReadClock(r) ==
    /\ hit[r].pc = "none"
    /\ \A q \in 1 .. r - 1 : hit[q].pc # "none"
    /\ hit' = [hit EXCEPT ![r] = [pc |-> "waiting", now |-> time]]
    /\ UNCHANGED <<time, entries, flushes>>

\* Mutant of Pruned: half a window is enough.
PrunedEarly(r) == {q \in entries : hit[q].now > hit[r].now - (Window \div 2)}

\* zremrangebyscore: scores up to and including the window's start go.
Pruned(r) == {q \in entries : hit[q].now > hit[r].now - Window}

\* zadd and zcard count the request itself, refused or not.
Hit(r) ==
    /\ Waiting(r)
    /\ entries' = Pruned(r) \cup {r}
    /\ hit' = [hit EXCEPT ![r] =
          [pc |-> IF Cardinality(entries') <= Limit THEN "allowed" ELSE "refused",
           now |-> @.now, epoch |-> flushes]]
    /\ UNCHANGED <<time, flushes>>

\* Without a count the request goes by the setting.
ByTheSetting == IF FailOpen THEN "open" ELSE "closed"

\* Redis is away or not configured.
Degraded(r) ==
    /\ Waiting(r)
    /\ hit' = [hit EXCEPT ![r] = [pc |-> ByTheSetting, now |-> @.now]]
    /\ UNCHANGED <<time, entries, flushes>>

\* Redis runs the transaction, and its answer does not arrive.
AnswerLost(r) ==
    /\ Waiting(r)
    /\ entries' = Pruned(r) \cup {r}
    /\ hit' = [hit EXCEPT ![r] =
          [pc |-> "lost", told |-> ByTheSetting, now |-> @.now, epoch |-> flushes]]
    /\ UNCHANGED <<time, flushes>>

Flush ==
    /\ flushes < MaxFlushes
    /\ flushes' = flushes + 1
    /\ entries' = {}
    /\ UNCHANGED <<time, hit>>

TimePasses ==
    /\ time < MaxTicks
    /\ \A r \in Hits : Waiting(r) => time < hit[r].now + MaxLatency
    /\ time' = time + 1
    /\ UNCHANGED <<hit, entries, flushes>>

LimiterNext ==
    \/ \E r \in Hits : ReadClock(r) \/ Hit(r) \/ Degraded(r) \/ AnswerLost(r)
    \/ Flush
    \/ TimePasses

LimiterSpec == LimiterInit /\ [][LimiterNext]_limiterVars

-------------------------------------------------------------------------------
(***************************************************************************)
(* Between two losses of the set no window, less the time a request may    *)
(* take to reach Redis, holds more requests that were counted and admitted *)
(* than the limit, wherever it begins and in whatever order they get there.*)
(***************************************************************************)
WindowsHoldTheLimit ==
    \A r \in Hits : hit[r].pc = "allowed" =>
        Cardinality({q \in Hits :
            /\ hit[q].pc = "allowed"
            /\ hit[q].epoch = hit[r].epoch
            /\ hit[q].now \in hit[r].now - (Window - MaxLatency) + 1 .. hit[r].now})
        <= Limit

(***************************************************************************)
(* A request refused by its count had the limit's worth of others in its   *)
(* window, admitted, refused, or never answered: who waits one window, the *)
(* Retry-After of a refusal, and asks nothing in between is not refused    *)
(* for what he asked before.                                               *)
(***************************************************************************)
RefusedForOthersInWindow ==
    \A r \in Hits : hit[r].pc = "refused" =>
        Cardinality({q \in Hits \ {r} :
            /\ Counted(q)
            /\ hit[q].epoch = hit[r].epoch
            /\ hit[q].now > hit[r].now - Window}) >= Limit

\* No window admits too many, and no count refuses for what is past.
LimiterSound == WindowsHoldTheLimit /\ RefusedForOthersInWindow
===============================================================================
