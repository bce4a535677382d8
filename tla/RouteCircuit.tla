---------------------------- MODULE RouteCircuit -----------------------------
(***************************************************************************)
(* RouteCircuitBreaker of lib/circuit_breaker.mjs, for one route: callers  *)
(* ask before a call and report after it, with several calls in flight, so *)
(* that answers arrive long after the breaker has changed.                 *)
(***************************************************************************)
EXTENDS Integers

CONSTANTS
    Calls, Threshold, Cooldown,  \* callers; failureThreshold; cooldownSec
    Horizon, MaxReports          \* bounds of the clock and of the reports

RouteAssumption == {Threshold, Cooldown, Horizon, MaxReports} \subseteq Nat \ {0}

VARIABLES
    now,
    route,    \* the record: state, consecutive failures, last state change
    flying,   \* the callers with a call in flight
    reports,  \* how many outcomes were reported
    streak,   \* history: failures reported since the last success
    tripped,  \* history: when the breaker last opened; 0 when never
    healed    \* history: a success was reported since
vars == <<now, route, flying, reports, streak, tripped, healed>>

Init ==
    /\ now = 1 /\ route = [state |-> "CLOSED", failures |-> 0, changed |-> 1]
    /\ flying = {} /\ reports = 0 /\ streak = 0 /\ tripped = 0 /\ healed = FALSE

Tick == now < Horizon /\ now' = now + 1
        /\ UNCHANGED <<route, flying, reports, streak, tripped, healed>>

(* getRouteState: whoever looks first after the cooldown half-opens.       *)
RouteState ==
    IF route.state = "OPEN" /\ now - route.changed >= Cooldown
    THEN [route EXCEPT !.state = "HALF_OPEN", !.changed = now] ELSE route

CanAttempt(c) ==
    /\ c \notin flying /\ reports < MaxReports
    /\ route' = RouteState
    /\ flying' = IF RouteState.state = "OPEN" THEN flying ELSE flying \cup {c}
    /\ UNCHANGED <<now, reports, streak, tripped, healed>>

Closes(r)     == [r EXCEPT !.state = "CLOSED", !.failures = 0,
                           !.changed = IF r.state = "CLOSED" THEN @ ELSE now]

RecordSuccess(c) ==
    /\ c \in flying /\ flying' = flying \ {c} /\ reports' = reports + 1
    /\ route' = Closes(RouteState)
    /\ streak' = 0 /\ healed' = TRUE
    /\ UNCHANGED <<now, tripped>>

Trips(r) == r.failures + 1 >= Threshold /\ r.state # "OPEN"

RecordFailure(c) ==
    /\ c \in flying /\ flying' = flying \ {c} /\ reports' = reports + 1
    /\ LET r == RouteState
       IN  /\ route' = IF Trips(r) THEN [state |-> "OPEN", failures |-> r.failures + 1, changed |-> now]
                       ELSE [r EXCEPT !.failures = @ + 1]
           /\ tripped' = IF Trips(r) THEN now ELSE tripped
           /\ healed'  = (healed /\ ~Trips(r))
    /\ streak' = streak + 1
    /\ UNCHANGED now

Next == Tick \/ \E c \in Calls : CanAttempt(c) \/ RecordSuccess(c) \/ RecordFailure(c)

Spec == Init /\ [][Next]_vars

-----------------------------------------------------------------------------
TypeOK ==
    /\ now \in 1 .. Horizon /\ flying \subseteq Calls /\ streak \in Nat /\ healed \in BOOLEAN
    /\ route.state \in {"CLOSED", "OPEN", "HALF_OPEN"} /\ route.failures \in Nat
    /\ route.changed \in 1 .. now /\ tripped \in 0 .. now

(* No call begins within the cooldown after the breaker opened, unless a   *)
(* call begun before has reported a success since, which closes it.        *)
CooldownHolds == [][
    \A c \in Calls : c \in flying' \ flying =>
       tripped = 0 \/ healed \/ now - tripped >= Cooldown
    ]_vars

(* An open breaker has seen as many failures as its threshold with no      *)
(* success between them, in whatever order the answers came in.            *)
TripsNeedStreak == route.state = "OPEN" => streak >= Threshold
=============================================================================
