--------------------------- MODULE TrajectoryReplay ---------------------------
(***************************************************************************)
(* Two ways to hold a run of an agent against a golden one: the replay     *)
(* simulator, which answers the candidate's tool calls from the golden     *)
(* steps until one differs (lib/trajectory_replay_simulator.mjs), and the  *)
(* debugger, which records hops, forks a session and compares two of them  *)
(* afterwards (lib/trajectory_replay_debugger.mjs).                        *)
(*                                                                         *)
(* The candidate's calls go through the simulator and are recorded as hops *)
(* of its session; the session it was forked from goes on being recorded.  *)
(* A call is a tool with its arguments, NoCall that of a hop of words      *)
(* alone.  Two outputs are alike or not; hashes are left out, and costs    *)
(* are small integers whose tolerated growth is by half.                   *)
(***************************************************************************)
EXTENDS Integers, Sequences, FiniteSetsExt

CONSTANTS
    Hops,           \* what may be recorded: [call, output, cost], a call being [tool, args]
    NoCall,
    MaxHops

ReplayAssumption ==
    /\ \A hop \in Hops : hop \in [call : {hop.call}, output : {hop.output}, cost : Nat]
    /\ \E hop \in Hops : hop.call # NoCall
    /\ MaxHops \in Nat \ {0}

VARIABLES
    golden,     \* the hops of the session that serves as reference
    steps,      \* the simulator's: the golden calls at the time it was made
    cursor, diverged,
    replayed,   \* the calls it was asked for, as hops
    fork,       \* the hops of a fork of the golden session
    forkPoint   \* where it was forked: a step index, or NotForked

replays == <<golden, steps, cursor, diverged, replayed, fork, forkPoint>>

NotForked == -1
IsTool(hop) == hop.call # NoCall

(* The hops with a call, in their order, of the first k.                       *)
WithCall(calls, hop) == IF IsTool(hop) THEN Append(calls, hop) ELSE calls
Calls(hops) ==
    LET calls[k \in 0..Len(hops)] == IF k = 0 THEN <<>> ELSE WithCall(calls[k - 1], hops[k])
    IN  calls
Tools(hops) == Calls(hops)[Len(hops)]

Init ==
    /\ golden = <<>> /\ steps = <<>> /\ cursor = 0 /\ diverged = NotForked
    /\ replayed = <<>> /\ fork = <<>> /\ forkPoint = NotForked

-----------------------------------------------------------------------------
(* recordHop, of the golden session before and after others were made of   *)
(* it, and of the fork.                                                    *)
RecordGolden ==
    /\ Len(golden) < MaxHops /\ replayed = <<>>
    /\ \E hop \in Hops : golden' = Append(golden, hop)
    /\ UNCHANGED <<steps, cursor, diverged, replayed, fork, forkPoint>>

RecordFork ==
    /\ forkPoint # NotForked /\ Len(fork) < MaxHops
    /\ \E hop \in Hops : fork' = Append(fork, hop)
    /\ UNCHANGED <<golden, steps, cursor, diverged, replayed, forkPoint>>

(* forkAt: the hops up to the step, inclusive.                             *)
HopsBefore(step) == SubSeq(golden, 1, step)
HopsUpTo(step) == SubSeq(golden, 1, step + 1)
ForkAt ==
    /\ forkPoint = NotForked /\ steps = <<>>
    /\ \E step \in 0..(Len(golden) - 1) : forkPoint' = step /\ fork' = HopsUpTo(step)
    /\ UNCHANGED <<golden, steps, cursor, diverged, replayed>>

-----------------------------------------------------------------------------
(* constructor, executeTool: the next golden step answers a call like its  *)
(* own; another, or one too many, diverges for good.                       *)
StartReplay ==
    /\ replayed = <<>> /\ forkPoint = NotForked /\ steps = <<>> /\ Tools(golden) # <<>>
    /\ steps' = Tools(golden)
    /\ UNCHANGED <<golden, cursor, diverged, replayed, fork, forkPoint>>

MatchesTool(call) == cursor < Len(steps) /\ steps[cursor + 1].call.tool = call.tool
Matches(call) == cursor < Len(steps) /\ steps[cursor + 1].call = call

ExecuteTool ==
    /\ steps # <<>> /\ Len(replayed) < MaxHops
    /\ \E hop \in {h \in Hops : IsTool(h)} :
          LET answers == diverged = NotForked /\ Matches(hop.call) IN
              /\ replayed' = Append(replayed, IF answers THEN [steps[cursor + 1] EXCEPT !.call = hop.call]
                                               ELSE hop)
              /\ cursor' = IF answers THEN cursor + 1 ELSE cursor
              /\ diverged' = IF answers \/ diverged # NotForked THEN diverged ELSE cursor
    /\ UNCHANGED <<golden, steps, fork, forkPoint>>

(* emitReceipt.                                                            *)
Status ==
    IF diverged # NotForked THEN "DIVERGED" ELSE IF cursor < Len(steps) THEN "INCOMPLETE" ELSE "MATCHED"

-----------------------------------------------------------------------------
(* compareTrajectories: the divergences it finds.                          *)
Shorter(hops, other) == IF Len(hops) < Len(other) THEN Len(hops) ELSE Len(other)
InStep(hops, other, i) ==
    IF hops[i].call # other[i].call THEN {[at |-> i - 1, class |-> "ORCHESTRATION_BUG"]}
    ELSE IF hops[i].output # other[i].output THEN {[at |-> i - 1, class |-> "MODEL_QUALITY_BUG"]}
    ELSE {}
InLength(hops, other) ==
    IF Len(hops) = Len(other) THEN {}
    ELSE {[at |-> Shorter(hops, other), class |-> "ORCHESTRATION_BUG"]}
Charged(sum, hop) == sum + hop.cost
Costs(hops) ==
    LET costs[k \in 0..Len(hops)] == IF k = 0 THEN 0 ELSE Charged(costs[k - 1], hops[k])
    IN  costs
Cost(hops) == Costs(hops)[Len(hops)]
InCost(hops, other) ==
    IF Cost(hops) > 0 /\ 2 * Cost(other) > 3 * Cost(hops)
    THEN {[at |-> -1, class |-> "LATENCY_COST_REGRESSION"]} ELSE {}
Compare(hops, other) ==
    (UNION {InStep(hops, other, i) : i \in 1..Shorter(hops, other)})
        \cup InLength(hops, other) \cup InCost(hops, other)

Next == RecordGolden \/ RecordFork \/ ForkAt \/ StartReplay \/ ExecuteTool

Spec == Init /\ [][Next]_replays

-----------------------------------------------------------------------------
Bugs(divergences, class) == {d.at : d \in {b \in divergences : b.class = class}}

(* The simulator and the debugger agree about the calls of a replay: it is *)
(* matched when the comparison finds nothing, has diverged where the       *)
(* comparison finds the first wrong call, and is incomplete when all that  *)
(* is wrong is its length.                                                 *)
ReplayAgreesWithComparison ==
    steps # <<>> =>
       LET orchestration == Bugs(Compare(steps, replayed), "ORCHESTRATION_BUG") IN
       /\ Status = "MATCHED" => Compare(steps, replayed) = {}
       /\ Status = "DIVERGED" => Min(orchestration) = diverged
       /\ Status = "INCOMPLETE" => orchestration = {Len(replayed)} /\ Len(replayed) < Len(steps)

(* A fork differs from the session it was taken from only after its fork   *)
(* point, however both go on.                                              *)
ForkKeepsThePast ==
    forkPoint # NotForked =>
       \A d \in Compare(golden, fork) : d.class # "LATENCY_COST_REGRESSION" => d.at > forkPoint
=============================================================================
