---------------------------- MODULE SessionActivity ----------------------------
(***************************************************************************)
(* The inactivity limit of one provider session.                           *)
(*                                                                         *)
(* Every request takes the time, reads when the session was last active,   *)
(* and is refused when that is too long ago; otherwise it may move the     *)
(* time forward, at most every few minutes, if nobody else has meanwhile.  *)
(***************************************************************************)
EXTENDS Naturals

CONSTANTS
    Visits,           \* bound: requests under way
    MaxTime,          \* bound: the clock
    IdleTimeout,      \* SESSION_IDLE_TIMEOUT_MS
    WriteInterval     \* ACTIVITY_WRITE_INTERVAL_MS

ASSUME ActivityAssumption ==
    /\ MaxTime \in Nat
    /\ IdleTimeout \in Nat \ {0} /\ WriteInterval \in Nat \ {0}
    /\ WriteInterval < IdleTimeout

VARIABLES
    clock,
    activity,    \* AuthSessionActivity.lastActivityAt, NoRecord before the first
    admitted,    \* when the latest request was let in
    visit

activityVars == <<clock, activity, admitted, visit>>

NoRecord == MaxTime + 1
Away     == [pc |-> "away"]

ActivityInit ==
    /\ clock = 0
    /\ activity = NoRecord
    /\ admitted = 0
    /\ visit = [v \in Visits |-> Away]

-------------------------------------------------------------------------------
Tick ==
    /\ clock < MaxTime
    /\ clock' = clock + 1
    /\ UNCHANGED <<activity, admitted, visit>>

Arrive(v) ==
    /\ visit[v] = Away
    /\ visit' = [visit EXCEPT ![v] = [pc |-> "read", now |-> clock]]
    /\ UNCHANGED <<clock, activity, admitted>>

AdmitAt(now) ==
    admitted' = IF now > admitted THEN now ELSE admitted

Leaves(v) ==
    visit' = [visit EXCEPT ![v] = Away]

ActivityAge(v, last) == visit[v].now - last

\* A slow request may have taken its time before the record was moved on.
ReadActivity(v) ==
    /\ visit[v].pc = "read"
    /\ \/ /\ activity = NoRecord
          /\ visit' = [visit EXCEPT ![v].pc = "create"]
          /\ UNCHANGED admitted
       \/ /\ activity # NoRecord
          /\ activity < visit[v].now
          /\ ActivityAge(v, activity) >= IdleTimeout
          /\ Leaves(v)
          /\ UNCHANGED admitted
       \/ /\ activity # NoRecord
          /\ activity >= visit[v].now \/ ActivityAge(v, activity) < WriteInterval
          /\ AdmitAt(visit[v].now)
          /\ Leaves(v)
       \/ /\ activity < visit[v].now
          /\ ActivityAge(v, activity) \in WriteInterval .. IdleTimeout - 1
          /\ visit' = [visit EXCEPT ![v] = [pc |-> "write", now |-> @.now, last |-> activity]]
          /\ UNCHANGED admitted
    /\ UNCHANGED <<clock, activity>>

\* The session id is the key: the second of two first requests reads again.
CreateActivity(v) ==
    /\ visit[v].pc = "create"
    /\ IF activity = NoRecord
       THEN /\ activity' = visit[v].now
            /\ AdmitAt(visit[v].now)
            /\ Leaves(v)
       ELSE /\ visit' = [visit EXCEPT ![v].pc = "read"]
            /\ UNCHANGED <<activity, admitted>>
    /\ UNCHANGED clock

\* Mutant of WriteActivity: the record is set whatever it has become.
WriteActivityAnyway(v) ==
    /\ visit[v].pc = "write"
    /\ activity' = visit[v].now
    /\ AdmitAt(visit[v].now)
    /\ Leaves(v)
    /\ UNCHANGED clock

\* A conditional update on the value read; the request is let in either way.
WriteActivity(v) ==
    /\ visit[v].pc = "write"
    /\ activity' = IF activity = visit[v].last THEN visit[v].now ELSE activity
    /\ AdmitAt(visit[v].now)
    /\ Leaves(v)
    /\ UNCHANGED clock

ActivityNext ==
    \/ Tick
    \/ \E v \in Visits :
          Arrive(v) \/ ReadActivity(v) \/ CreateActivity(v) \/ WriteActivity(v)

ActivitySpec == ActivityInit /\ [][ActivityNext]_activityVars

-------------------------------------------------------------------------------
ActivityTypeOK ==
    /\ clock \in 0 .. MaxTime
    /\ activity \in 0 .. clock \/ activity = NoRecord
    /\ admitted \in 0 .. clock
    /\ \A v \in Visits :
          \/ visit[v] = Away
          \/ visit[v].pc \in {"read", "create"} /\ visit[v].now \in 0 .. clock
          \/ /\ visit[v].pc = "write"
             /\ visit[v].now \in 0 .. clock
             /\ visit[v].last \in 0 .. clock

(***************************************************************************)
(* The record moves forward only, however late an overtaken request        *)
(* writes, so a session in use is not cut short by one slow request; and   *)
(* never beyond the latest request let in, so no session outlives its last *)
(* use by more than the limit.                                             *)
(***************************************************************************)
RecordIsHonest ==
    [][activity' # activity =>
          /\ activity # NoRecord => activity' > activity
          /\ activity' \in 0 .. admitted']_activityVars
===============================================================================
