--------------------------- MODULE RunawayWatchdog ---------------------------
(***************************************************************************)
(* lib/runaway_execution_watchdog.mjs: a session's steps are recorded one  *)
(* by one, and the session is stopped when they spin.  A step is a tool    *)
(* call up to its fingerprint and whether the state changed by it.         *)
(***************************************************************************)
EXTENDS Integers, Sequences

CONSTANTS
    Actions,      \* fingerprints of tool calls
    MaxSteps, MaxIdentical, MaxStagnant,  \* the watchdog's limits
    Horizon       \* how many steps are asked for between two resets

WatchdogAssumption == {MaxSteps, MaxIdentical, MaxStagnant, Horizon} \subseteq Nat \ {0}

VARIABLES
    steps,     \* the recorded steps
    status,    \* "ACTIVE", "TRIPPED", "ESCALATED_HITL" or "CLEARED"
    escalates \* a HITL gateway is attached and escalateToHitl is set
vars == <<steps, status, escalates>>

Init == steps = <<>> /\ status = "ACTIVE" /\ escalates \in BOOLEAN

Last(s, n)  == SubSeq(s, Len(s) - n + 1, Len(s))
Action(s)   == [i \in DOMAIN s |-> s[i].act]

Spins(s)     == Len(s) >= MaxIdentical /\ \A i, j \in DOMAIN Last(s, MaxIdentical) :
                   Action(Last(s, MaxIdentical))[i] = Action(Last(s, MaxIdentical))[j]
CyclesPairs(s) == Len(s) >= 4 /\ \A i \in 1 .. 2 : Action(Last(s, 4))[i] = Action(Last(s, 4))[i + 2]
Cycles(s)    == \E p \in {2, 3} : Len(s) >= 2 * p /\ \A i \in 1 .. p :
                   Action(Last(s, 2 * p))[i] = Action(Last(s, 2 * p))[i + p]
Stagnates(s) == Len(s) >= MaxStagnant /\ \A i \in 1 .. MaxStagnant : ~Last(s, MaxStagnant)[i].moved
Runaway(s)   == Len(s) > MaxSteps \/ Spins(s) \/ Cycles(s) \/ Stagnates(s)

(* recordStep: only TRIPPED is refused, and only TRIPPED is ever final.    *)
RecordStep(a, moved) ==
    /\ Len(steps) < Horizon /\ status # "TRIPPED"
    /\ steps' = Append(steps, [act |-> a, moved |-> moved])
    /\ status' = IF ~Runaway(steps') THEN status ELSE IF escalates THEN "ESCALATED_HITL" ELSE "TRIPPED"
    /\ UNCHANGED escalates

Reset == steps' = <<>> /\ status' = "CLEARED" /\ UNCHANGED escalates

Next == Reset \/ \E a \in Actions, moved \in BOOLEAN : RecordStep(a, moved)

Spec == Init /\ [][Next]_vars

-----------------------------------------------------------------------------
(* A block of p tool calls follows itself at once, ending with the n-th.   *)
Repeats(p, n) == n >= 2 * p /\ \A i \in n - p + 1 .. n : steps[i].act = steps[i - p].act

TypeOK ==
    /\ status \in {"ACTIVE", "TRIPPED", "ESCALATED_HITL", "CLEARED"}
    /\ steps \in Seq([act : Actions, moved : BOOLEAN]) /\ Len(steps) <= Horizon

(* Nothing runs away under a watchdog that has not escalated: wherever one *)
(* looks in the session before its last step there is no repeated pair or  *)
(* triple of calls, no run of the same call, no stretch without progress,  *)
(* and there are no more steps than the budget.                            *)
StoppedInTime ==
    status # "ESCALATED_HITL" =>
       /\ Len(steps) <= MaxSteps + 1
       /\ \A n \in 1 .. Len(steps) - 1 :
             /\ ~Repeats(2, n) /\ ~Repeats(3, n)
             /\ \A m \in 0 .. n - MaxIdentical : \E i \in m + 1 .. m + MaxIdentical :
                   steps[i].act # steps[m + 1].act
             /\ \A m \in 0 .. n - MaxStagnant : \E i \in m + 1 .. m + MaxStagnant : steps[i].moved

(* A session is stopped for a reason that is there to see in its steps.    *)
StopsHaveReasons ==
    status = "TRIPPED" =>
       LET n == Len(steps)
       IN  \/ n > MaxSteps \/ Repeats(2, n) \/ Repeats(3, n)
           \/ \A i \in 1 .. MaxIdentical : n >= MaxIdentical /\ steps[n - i + 1].act = steps[n].act
           \/ \A i \in 1 .. MaxStagnant : n >= MaxStagnant /\ ~steps[n - i + 1].moved
=============================================================================
