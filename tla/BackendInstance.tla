---------------------------- MODULE BackendInstance ----------------------------
(***************************************************************************)
(* One process of the backend: it checks its settings before it serves,    *)
(* opens its connections when they are first used, relays chat events from *)
(* Redis, answers readiness probes, and gives everything back on shutdown. *)
(* Postgres and Redis come and go meanwhile.                               *)
(***************************************************************************)
EXTENDS Naturals, Sequences

CONSTANTS
    HttpRequests,
    MaxFlips   \* bound: times Postgres or Redis goes away or returns

ASSUME InstanceAssumption == MaxFlips \in Nat

VARIABLES
    settings,
    instance,
    up,        \* the dependencies that answer
    flips,
    open,      \* the pools this process holds: engine and Redis client
    pump,      \* the task relaying Redis to the sockets
    probe,
    httpRequest

instanceVars == <<settings, instance, up, flips, open, pump, probe, httpRequest>>

\* In the order their states are weighed.
CRITICAL_DEPENDENCIES == <<"database", "redis">>
Dependencies == {"database", "redis"}

NoProbe == [pc |-> "none"]

InstanceInit ==
    /\ settings \in [production : BOOLEAN, configured : SUBSET Dependencies, auth : BOOLEAN]
    /\ instance = "booting"
    /\ up \in SUBSET Dependencies
    /\ flips = 0
    /\ open = {} /\ pump = "none"
    /\ probe = NoProbe
    /\ httpRequest = [r \in HttpRequests |-> [pc |-> "none"]]

\* validate_for_environment, what it says of sign-in and the database.
MayStart == settings.production => settings.auth /\ "database" \in settings.configured

\* Settings first; then the chat hub opens Redis and starts its pump.
Boot ==
    /\ instance = "booting"
    /\ UNCHANGED <<settings, up, flips, probe, httpRequest>>
    /\ \/ /\ ~MayStart
          /\ instance' = "refused"
          /\ UNCHANGED <<open, pump>>
       \/ /\ MayStart
          /\ instance' = "serving"
          /\ open' = {"redis"} \cap settings.configured
          /\ pump' = IF "redis" \in settings.configured THEN "listening" ELSE "none"

\* The pump ends with its connection; its task stays, so no start follows.
PumpFails ==
    /\ pump = "listening" /\ "redis" \notin up
    /\ pump' = "dead"
    /\ UNCHANGED <<settings, instance, up, flips, open, probe, httpRequest>>

Flip ==
    /\ flips < MaxFlips
    /\ flips' = flips + 1
    /\ \E d \in Dependencies :
         /\ up' = IF d \in up THEN up \ {d} ELSE up \cup {d}
         /\ probe' = IF probe.pc = "checking" THEN [probe EXCEPT !.seen = @ \cup up'] ELSE probe
    /\ UNCHANGED <<settings, instance, open, pump, httpRequest>>

ProbeArrives ==
    /\ instance = "serving"
    /\ probe.pc \in {"none", "answered"}
    /\ probe' = [pc |-> "checking", seen |-> up, health |-> [d \in Dependencies |-> "unasked"]]
    /\ UNCHANGED <<settings, instance, up, flips, open, pump, httpRequest>>

\* _check_database and _check_redis run side by side; one may take too long.
Check(d) ==
    /\ probe.pc = "checking" /\ probe.health[d] = "unasked"
    /\ \E state \in IF d \notin settings.configured THEN {"not_configured"}
                    ELSE {"unavailable"} \cup (IF d \in up THEN {"ok"} ELSE {}) :
         probe' = [probe EXCEPT !.health[d] = state]
    /\ open' = open \cup ({d} \cap settings.configured)
    /\ UNCHANGED <<settings, instance, up, flips, pump, httpRequest>>

Judged(state) ==
    CASE state = "unavailable"                              -> "unavailable"
      [] state = "not_configured" /\ settings.production    -> "unavailable"
      [] state = "not_configured" /\ ~settings.production   -> "degraded"
      [] state = "ok"                                       -> "ready"

\* Mutant of OverallStatus: the last dependency decides.
OverallStatusOfLast(health) ==
    Judged(health[CRITICAL_DEPENDENCIES[Len(CRITICAL_DEPENDENCIES)]])

\* The first dependency that is not ready decides.
OverallStatus(health) ==
    IF \E i \in DOMAIN CRITICAL_DEPENDENCIES :
          Judged(health[CRITICAL_DEPENDENCIES[i]]) # "ready"
    THEN LET first == CHOOSE i \in DOMAIN CRITICAL_DEPENDENCIES :
                 /\ Judged(health[CRITICAL_DEPENDENCIES[i]]) # "ready"
                 /\ \A j \in 1 .. i - 1 : Judged(health[CRITICAL_DEPENDENCIES[j]]) = "ready"
         IN Judged(health[CRITICAL_DEPENDENCIES[first]])
    ELSE "ready"

AnswerProbe ==
    /\ probe.pc = "checking"
    /\ \A d \in Dependencies : probe.health[d] # "unasked"
    /\ probe' = [pc |-> "answered", seen |-> probe.seen, health |-> probe.health,
                 status |-> OverallStatus(probe.health)]
    /\ UNCHANGED <<settings, instance, up, flips, open, pump, httpRequest>>

\* The layers a response passes on its way out, innermost first.
Middleware == <<"guard", "security headers", "request id", "cors">>

Outside(layer) == {Middleware[i] : i \in {j \in DOMAIN Middleware :
    \E k \in 1 .. j - 1 : Middleware[k] = layer}}

HttpSteps(r, next) ==
    /\ httpRequest' = [httpRequest EXCEPT ![r] = next]
    /\ UNCHANGED <<settings, instance, up, flips, open, pump, probe>>

Started(by) == [pc |-> "started", starts |-> 1, layers |-> Outside(by)]

Serve(r) ==
    /\ instance = "serving"
    /\ httpRequest[r].pc \in {"none", "finished"}
    /\ HttpSteps(r, [pc |-> "running", starts |-> 0, layers |-> {}])

\* The handler answers, or an error the app knows becomes its envelope.
Respond(r) ==
    /\ httpRequest[r].pc = "running"
    /\ HttpSteps(r, Started("guard"))

\* ExceptionGuardMiddleware: a response begun is not begun again.
ExceptionGuard(answer) ==
    IF answer.starts = 0
    THEN [Started("guard") EXCEPT !.pc = "finished"]
    ELSE [answer EXCEPT !.pc = "finished"]

\* Anything else escapes the router, before the response began or after.
Escapes(r) ==
    /\ httpRequest[r].pc \in {"running", "started"}
    /\ HttpSteps(r, ExceptionGuard(httpRequest[r]))

Complete(r) ==
    /\ httpRequest[r].pc = "started"
    /\ HttpSteps(r, [httpRequest[r] EXCEPT !.pc = "finished"])

\* The server lets requests end before it shuts down.
Drained == /\ probe.pc # "checking"
        /\ \A r \in HttpRequests : httpRequest[r].pc \in {"none", "finished"}

\* _shutdown, one resource at a time; what fails is logged and let go.
StopHub ==
    /\ instance = "serving" /\ Drained
    /\ instance' = "stopping"
    /\ pump' = "none"
    /\ UNCHANGED <<settings, up, flips, open, probe, httpRequest>>

Dispose(d) ==
    /\ instance = "stopping"
    /\ d \in open
    /\ d = "redis" => "database" \notin open
    /\ open' = open \ {d}
    /\ UNCHANGED <<settings, instance, up, flips, pump, probe, httpRequest>>

ResetSingletons ==
    /\ instance = "stopping" /\ open = {}
    /\ instance' = "stopped"
    /\ UNCHANGED <<settings, up, flips, open, pump, probe, httpRequest>>

InstanceNext ==
    \/ Boot \/ PumpFails \/ Flip \/ ProbeArrives \/ AnswerProbe \/ StopHub \/ ResetSingletons
    \/ \E d \in Dependencies : Check(d) \/ Dispose(d)
    \/ \E r \in HttpRequests : Serve(r) \/ Respond(r) \/ Escapes(r) \/ Complete(r)

InstanceSpec == InstanceInit /\ [][InstanceNext]_instanceVars

(***************************************************************************)
(* An instance that says it is ready reached Postgres and Redis, each at   *)
(* some moment of that probe; and one in production never says degraded    *)
(* (health.py).                                                            *)
(***************************************************************************)
ReadyIsTrue ==
    probe.pc = "answered" =>
        /\ probe.status = "ready" =>
               settings.configured = Dependencies /\ probe.seen = Dependencies
        /\ probe.status = "degraded" => ~settings.production

(***************************************************************************)
(* Every answer begins once, and carries the headers of every layer, an    *)
(* unhandled exception's included (main.py, ExceptionGuardMiddleware).     *)
(***************************************************************************)
AnsweredOnce ==
    \A r \in HttpRequests :
        httpRequest[r].pc = "finished" =>
            /\ httpRequest[r].starts = 1
            /\ {"security headers", "request id", "cors"} \subseteq httpRequest[r].layers

(***************************************************************************)
(* No production instance serves without sign-in and a database; a stopped *)
(* one holds nothing; and a relay exists only while the process serves.    *)
(***************************************************************************)
ServesWhole ==
    /\ instance = "serving" /\ settings.production =>
          settings.auth /\ "database" \in settings.configured
    /\ instance \in {"refused", "stopped"} => open = {}
    /\ pump # "none" => instance = "serving" /\ "redis" \in settings.configured

InstanceSound == ReadyIsTrue /\ AnsweredOnce /\ ServesWhole
===============================================================================
