---------------------------- MODULE CostKillSwitch ---------------------------
(***************************************************************************)
(* lib/cost_kill_switch.mjs: model calls are checked against budgets       *)
(* before they start and recorded after they end, several at a time.  The  *)
(* check reserves nothing, and an estimate may be too low.  Costs are      *)
(* small integers, an hour is Hour ticks of the clock.                     *)
(***************************************************************************)
EXTENDS Integers, FiniteSets

CONSTANTS
    Calls,         \* callers that may have a model call in flight
    Sessions,
    RequestLimit, SessionLimit, HourLimit,
    MaxCost,       \* the most a call really costs
    Hour, Horizon, \* the length of an hour; the clock stops here
    MaxResets,
    None

SwitchAssumption ==
    /\ {RequestLimit, SessionLimit, HourLimit, MaxCost, Hour, Horizon} \subseteq Nat \ {0}
    /\ MaxResets \in Nat /\ None \notin Sessions

VARIABLES
    now,
    state,    \* "ACTIVE" or "TRIPPED"
    session,  \* sessionCosts
    hourly,   \* hourlyRecords: the cost they add up to until each time
    call,     \* the call in flight of each caller: its session and estimate
    resets,   \* how often an operator has reset the switch
    spent,    \* history: what was spent since the last full reset, until each time
    owed      \* history: what each session has cost since its last reset
vars == <<now, state, session, hourly, call, resets, spent, owed>>

Times    == 1 .. Horizon
Accounts == [0 .. Horizon -> Nat]  \* the costs until each time
Nothing  == [t \in 0 .. Horizon |-> 0]
NoCall   == [session |-> None, estimate |-> 0]
Total(f)      == f[Horizon]
Until(f, t)   == IF t < 0 THEN 0 ELSE f[t]
Plus(f, cost) == [t \in 0 .. Horizon |-> IF t >= now THEN f[t] + cost ELSE f[t]]

Init ==
    /\ now = 1 /\ state = "ACTIVE" /\ resets = 0
    /\ session = [s \in Sessions |-> 0] /\ hourly = Nothing /\ spent = Nothing
    /\ call = [c \in Calls |-> NoCall] /\ owed = [s \in Sessions |-> 0]

Tick == now < Horizon /\ now' = now + 1
        /\ UNCHANGED <<state, session, hourly, call, resets, spent, owed>>

(* _pruneHourlyRecords: what is an hour old is dropped.                    *)
Since(f, old)  == [t \in 0 .. Horizon |-> IF t > old THEN f[t] - Until(f, old) ELSE 0]
RecentShort(f) == Since(f, now - Hour + 1)
Recent(f)      == Since(f, now - Hour)

(* checkPreflight: the limits the call would exceed trip the switch.       *)
Fits(s, e) ==
    /\ e <= RequestLimit
    /\ session[s] + e <= SessionLimit
    /\ Total(Recent(hourly)) + e <= HourLimit
CheckPreflight(c, s, e) ==
    /\ call[c] = NoCall /\ state = "ACTIVE"
    /\ IF Fits(s, e) THEN call' = [call EXCEPT ![c] = [session |-> s, estimate |-> e]] /\ UNCHANGED state
                     ELSE state' = "TRIPPED" /\ UNCHANGED call
    /\ hourly' = Recent(hourly)
    /\ UNCHANGED <<now, session, resets, spent, owed>>

(* recordExecutionCost: what the call really cost, whatever was estimated. *)
Breached(s) == session'[s] > SessionLimit \/ Total(Recent(hourly')) > HourLimit
Records(s, cost)     == session' = [session EXCEPT ![s] = @ + cost]
RecordExecutionCost(c, cost) ==
    LET s == call[c].session
    IN  /\ call[c] # NoCall
        /\ Records(s, cost)
        /\ hourly' = Plus(Recent(hourly), cost)
        /\ owed'   = [owed EXCEPT ![s] = @ + cost]
        /\ spent'  = Plus(spent, cost)
        /\ state'  = IF Breached(s) THEN "TRIPPED" ELSE state
        /\ call'   = [call EXCEPT ![c] = NoCall]
        /\ UNCHANGED <<now, resets>>

(* reset, of one session or of all; calls in flight go on.                 *)
Reset(s) ==
    /\ resets < MaxResets /\ resets' = resets + 1 /\ state' = "ACTIVE"
    /\ session' = [session EXCEPT ![s] = 0] /\ owed' = [owed EXCEPT ![s] = 0]
    /\ UNCHANGED <<now, hourly, call, spent>>
ResetAll ==
    /\ resets < MaxResets /\ resets' = resets + 1 /\ state' = "ACTIVE"
    /\ session' = [s \in Sessions |-> 0] /\ hourly' = Nothing
    /\ owed' = [s \in Sessions |-> 0] /\ spent' = Nothing
    /\ UNCHANGED <<now, call>>

Next ==
    \/ Tick \/ ResetAll
    \/ \E s \in Sessions : Reset(s)
    \/ \E c \in Calls, s \in Sessions, e \in 0 .. RequestLimit + 1 : CheckPreflight(c, s, e)
    \/ \E c \in Calls, cost \in 0 .. MaxCost : RecordExecutionCost(c, cost)

Spec == Init /\ [][Next]_vars

-----------------------------------------------------------------------------
TypeOK ==
    /\ now \in Times /\ state \in {"ACTIVE", "TRIPPED"} /\ resets \in 0 .. MaxResets
    /\ session \in [Sessions -> Nat] /\ hourly \in Accounts /\ spent \in Accounts
    /\ owed \in [Sessions -> Nat]
    /\ \A c \in Calls : call[c].session \in Sessions \cup {None} /\ call[c].estimate <= RequestLimit

(* What the calls in flight add to a limit they were each checked against. *)
Overshoot == Cardinality(Calls) * MaxCost

(* A session is overspent by no more than the calls that can be in flight  *)
(* at once, though the check reserves nothing and estimates are wrong;     *)
(* resets of the switch do not widen that.                                 *)
SessionWithin == \A s \in Sessions : owed[s] <= SessionLimit + Overshoot

(* In any hour since the last full reset, no more is spent than the hourly *)
(* limit and that overshoot: pruning drops no cost that still counts.      *)
HourWithin == \A t \in Times : spent[t] - Until(spent, t - Hour) <= HourLimit + Overshoot
=============================================================================
