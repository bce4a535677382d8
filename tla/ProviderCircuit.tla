--------------------------- MODULE ProviderCircuit ---------------------------
(***************************************************************************)
(* createProviderCircuitBreaker of lib/ingress_gateway.mjs, for one        *)
(* provider, with several calls in flight.  Unlike RouteCircuit's breaker  *)
(* an open circuit is closed by no late success; it has to be half open,   *)
(* and one failure there opens it again.                                   *)
(***************************************************************************)
EXTENDS Integers

CONSTANTS
    Calls, Threshold, Successes, \* failureThreshold; halfOpenSuccessThreshold
    Cooldown, Horizon, MaxReports

ProviderAssumption == {Threshold, Successes, Cooldown, Horizon, MaxReports} \subseteq Nat \ {0}

VARIABLES
    now,
    circuit,  \* the provider's state
    flying,   \* the callers with a request in flight
    reports,  \* how many outcomes were reported
    opened,   \* history: when it was last opened or kept open; 0 when never or reset
    proof     \* history: successes reported since it was last open
vars == <<now, circuit, flying, reports, opened, proof>>

Fresh == [state |-> "closed", failures |-> 0, successes |-> 0, openedAt |-> 0]

Init ==
    /\ now = 1 /\ circuit = Fresh
    /\ flying = {} /\ reports = 0 /\ opened = 0 /\ proof = 0

Tick == now < Horizon /\ now' = now + 1
        /\ UNCHANGED <<circuit, flying, reports, opened, proof>>

(* read.                                                                   *)
ReadEarly ==
    IF circuit.state = "open" /\ now - circuit.openedAt >= Cooldown - 1
    THEN [circuit EXCEPT !.state = "half_open", !.successes = 0] ELSE circuit
Read ==
    IF circuit.state = "open" /\ now - circuit.openedAt >= Cooldown
    THEN [circuit EXCEPT !.state = "half_open", !.successes = 0] ELSE circuit

CanRequest(c) ==
    /\ c \notin flying /\ reports < MaxReports
    /\ circuit' = Read
    /\ flying' = IF Read.state = "open" THEN flying ELSE flying \cup {c}
    /\ UNCHANGED <<now, reports, opened, proof>>

RecordSuccess(c) ==
    /\ c \in flying /\ flying' = flying \ {c} /\ reports' = reports + 1
    /\ LET s == [Read EXCEPT !.failures = 0, !.successes = @ + 1]
       IN  /\ circuit' = IF s.state = "half_open" /\ s.successes >= Successes
                         THEN [s EXCEPT !.state = "closed", !.successes = 0, !.openedAt = 0] ELSE s
           /\ proof' = IF s.state = "open" THEN 0 ELSE proof + 1
    /\ UNCHANGED <<now, opened>>

Reopens(s) == s.failures + 1 >= Threshold \/ s.state = "half_open"

RecordFailure(c) ==
    /\ c \in flying /\ flying' = flying \ {c} /\ reports' = reports + 1
    /\ LET s == [Read EXCEPT !.failures = @ + 1, !.successes = 0]
       IN  /\ circuit' = IF Reopens(Read) THEN [s EXCEPT !.state = "open", !.openedAt = now] ELSE s
           /\ opened' = IF Reopens(Read) THEN now ELSE opened
    /\ proof' = 0
    /\ UNCHANGED now

Reset ==
    /\ circuit # Fresh /\ circuit' = Fresh /\ opened' = 0 /\ proof' = 0
    /\ UNCHANGED <<now, flying, reports>>

Next == Tick \/ Reset \/ \E c \in Calls : CanRequest(c) \/ RecordSuccess(c) \/ RecordFailure(c)

Spec == Init /\ [][Next]_vars

-----------------------------------------------------------------------------
TypeOK ==
    /\ now \in 1 .. Horizon /\ flying \subseteq Calls /\ opened \in 0 .. now /\ proof \in Nat
    /\ circuit.state \in {"closed", "open", "half_open"}
    /\ circuit.failures \in Nat /\ circuit.successes \in Nat /\ circuit.openedAt \in 0 .. now

(* No request begins within the cooldown after the circuit opened or was   *)
(* kept open, not even when calls begun before report successes meanwhile. *)
CooldownHolds == [][
    \A c \in Calls : c \in flying' \ flying => opened = 0 \/ now - opened >= Cooldown
    ]_vars

(* An open circuit closes again only after as many successes in a row, all *)
(* of them reported after the cooldown, as the threshold asks for.         *)
ClosesOnProof == [][
    circuit.state \in {"open", "half_open"} /\ circuit'.state = "closed" /\ opened' # 0
       => proof' >= Successes
    ]_vars
=============================================================================
