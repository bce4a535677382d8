----------------------------- MODULE StepContract -----------------------------
(***************************************************************************)
(* The steps of a trajectory under their contracts, the sentinel that asks *)
(* after each whether anything moves, the receipt of the whole             *)
(* (lib/trajectory_contract.mjs), and the claim that such a receipt lets   *)
(* rise (lib/consistency_boundary.mjs).                                    *)
(*                                                                         *)
(* A step starts when its preconditions hold, ends when its executor       *)
(* returns, throws, or has taken too long, and passes when its             *)
(* postconditions hold.  A timeout stops the waiting, not the executor: it *)
(* goes on and writes later.  Conditions are about artifacts, each of which*)
(* is known by the attempt that wrote it last (0: none).  Who runs the     *)
(* steps, in which order and how often, is the caller's affair.  A check   *)
(* may throw something without a message, and an executor something falsy; *)
(* texts of faults are the class they are sorted into, digests are left    *)
(* out, and no contract here has invariants: nothing evaluates them.       *)
(***************************************************************************)
EXTENDS Integers, SequencesExt, FiniteSetsExt

CONSTANTS
    Steps, Artifacts,
    Needs, Leaves,      \* of each step: the artifacts its conditions ask for
    NoopThreshold,      \* consecutiveNoopThreshold
    MaxResults          \* bound: attempts at steps

ContractAssumption ==
    /\ Needs \in [Steps -> SUBSET Artifacts] /\ Leaves \in [Steps -> SUBSET Artifacts]
    /\ NoopThreshold \in Nat \ {0} /\ MaxResults \in Nat

VARIABLES
    world,      \* artifact -> the attempt that wrote it last
    running,    \* the attempt that is awaited, or NoAttempt
    late,       \* attempts that were given up and still work
    results,
    seen,       \* what the sentinel saw last
    moved,      \* its history: whether something had changed after each result
    advice,     \* what it advised last
    receipt,    \* the last receipt
    claim,      \* the consistency class of the claim
    earned      \* history: what the claim was shown since it was last synthetic

contracts == <<world, running, late, results, seen, moved, advice, receipt, claim, earned>>

NoAttempt == [step |-> "none", n |-> 0]
NoReceipt == [verdict |-> "none", failed |-> 0, orchestration |-> 0, logic |-> 0, of |-> 0]

Init ==
    /\ world = [a \in Artifacts |-> 0] /\ running = NoAttempt /\ late = {}
    /\ results = <<>> /\ seen = world /\ moved = <<>> /\ advice = "continue"
    /\ receipt = NoReceipt /\ claim = "synthetic" /\ earned = {}

Present(artifacts, w) == \A a \in artifacts : w[a] > 0
Written(attempt) == [a \in Artifacts |-> IF a \in Leaves[attempt.step] THEN attempt.n ELSE world[a]]

-----------------------------------------------------------------------------
(* evaluateProgressSentinel: how many steps up to this one moved nothing,  *)
(* of which no more than the threshold are looked at before it.            *)
Noops(history) ==
    LET last == Len(history)
        still == {k \in 0..Min({last, NoopThreshold + 1}) :
                    \A i \in (last - k + 1)..last : ~history[i]}
    IN  Max(still)
AdviceLate(history) == IF Noops(history) > NoopThreshold THEN "kill" ELSE "continue"
Advice(history) ==
    CASE Noops(history) >= NoopThreshold -> "kill"
      [] Noops(history) = NoopThreshold - 1 /\ Noops(history) > 0 -> "replan"
      [] OTHER -> "continue"

(* A result, what it leaves of the world, and the sentinel's look at it.   *)
Concludes(attempt, status, class, w) ==
    /\ results' = Append(results, [step |-> attempt.step, status |-> status, class |-> class])
    /\ running' = NoAttempt /\ world' = w
    /\ moved' = Append(moved, w # seen) /\ seen' = w
    /\ advice' = Advice(Append(moved, w # seen))
    /\ UNCHANGED <<receipt, claim, earned>>

(* assertStepPreconditions, assertStepPostconditions: a failed check is an *)
(* orchestration fault, but one that throws without a message is classed   *)
(* as none (classifyTrajectoryFault).                                      *)
CheckFaults == {"orchestration", "none"}

Begin(step) ==
    /\ running = NoAttempt /\ Len(results) < MaxResults /\ advice # "kill"
    /\ LET attempt == [step |-> step, n |-> Len(results) + 1] IN
       IF Present(Needs[step], world)
       THEN /\ running' = attempt
            /\ UNCHANGED <<world, late, results, seen, moved, advice, receipt, claim, earned>>
       ELSE /\ \E class \in CheckFaults : Concludes(attempt, "FAILED_PRECONDITION", class, world)
            /\ UNCHANGED late

(* The executor returns, or throws something falsy, which the code takes   *)
(* for a return of null: either way the postconditions decide.             *)
PassesAnyway(step, w) == TRUE
PostconditionsHold(step, w) == Present(Leaves[step], w)
Return ==
    /\ running # NoAttempt
    /\ \E w \in {world, Written(running)} :
          IF PostconditionsHold(running.step, w) THEN Concludes(running, "PASSED", "none", w)
          ELSE \E class \in CheckFaults : Concludes(running, "FAILED_POSTCONDITION", class, w)
    /\ UNCHANGED late

Throw ==
    /\ running # NoAttempt
    /\ \E w \in {world, Written(running)}, class \in {"orchestration", "logic"} :
          Concludes(running, "FAILED_EXECUTION", class, w)
    /\ UNCHANGED late

Timeout ==
    /\ running # NoAttempt
    /\ Concludes(running, "FAILED_TIMEOUT", "orchestration", world)
    /\ late' = late \cup {running}

(* The executor of a step that was given up ends, with or without its work.*)
LateEnd ==
    /\ \E attempt \in late :
          /\ world' \in {world, Written(attempt)} /\ late' = late \ {attempt}
    /\ UNCHANGED <<running, results, seen, moved, advice, receipt, claim, earned>>

-----------------------------------------------------------------------------
Passed(r) == r.status = "PASSED"
Failed(r) == r.status # "PASSED"
FailedResults == {i \in DOMAIN results : Failed(results[i])}
Classed(class) == {i \in DOMAIN results : results[i].class = class}

(* createTrajectoryContractReceipt.                                        *)
AllPassedAtLast ==
    results # <<>> /\ \A i \in DOMAIN results :
       Passed(results[i]) \/ \E j \in i..Len(results) : results[j].step = results[i].step /\ Passed(results[j])
AllPassed == results # <<>> /\ FailedResults = {}
CreateReceipt ==
    /\ running = NoAttempt
    /\ receipt' = [verdict |-> IF AllPassed THEN "VERIFIED_PASSED" ELSE "REJECTED_FAILED",
                   failed |-> Cardinality(FailedResults),
                   orchestration |-> Cardinality(Classed("orchestration")),
                   logic |-> Cardinality(Classed("logic")), of |-> Len(results)]
    /\ UNCHANGED <<world, running, late, results, seen, moved, advice, claim, earned>>

(* validateConsistencyTransition, with the receipt or a settlement as the  *)
(* evidence of a rise, and a reason as that of a fall.                     *)
Settlements == SUBSET {"proof", "inbound", "approved"}
AllowedOnProof(from, to, settlement, reason) ==
    \/ to = from \/ reason
    \/ from = "synthetic" /\ to = "local" /\ receipt.verdict = "VERIFIED_PASSED"
    \/ to = "global" /\ "proof" \in settlement
Allowed(from, to, settlement, reason) ==
    \/ to = from
    \/ from = "synthetic" /\ to = "local" /\ receipt.verdict = "VERIFIED_PASSED"
    \/ from = "local" /\ to = "global" /\ "proof" \in settlement
       /\ settlement \cap {"inbound", "approved"} # {}
    \/ <<from, to>> \in {<<"local", "synthetic">>, <<"global", "local">>, <<"global", "synthetic">>}
       /\ reason

Transition ==
    \E to \in {"synthetic", "local", "global"}, settlement \in Settlements, reason \in BOOLEAN :
       /\ to # claim /\ Allowed(claim, to, settlement, reason) /\ claim' = to
       /\ earned' = CASE to = "synthetic" -> {} [] to = "global" -> earned \cup settlement
                      [] OTHER -> earned \cup (IF claim = "synthetic" THEN {receipt.verdict} ELSE {})
       /\ UNCHANGED <<world, running, late, results, seen, moved, advice, receipt>>

Next ==
    \/ \E step \in Steps : Begin(step)
    \/ Return \/ Throw \/ Timeout \/ LateEnd \/ CreateReceipt \/ Transition

Spec == Init /\ [][Next]_contracts

-----------------------------------------------------------------------------
(* A receipt that says everything passed leaves no executor behind, and    *)
(* until another step is tried what its steps had to leave is there.       *)
PassIsComplete ==
    receipt.verdict = "VERIFIED_PASSED" =>
       /\ \A i \in 1..receipt.of : Present(Leaves[results[i].step], world)
       /\ \A attempt \in late : attempt.n > receipt.of

(* Every failure a receipt counts is of one class, but for those whose     *)
(* check threw without a message.                                          *)
FailuresAreClassed ==
    receipt.failed = receipt.orchestration + receipt.logic
        + Cardinality({i \in 1..receipt.of : Failed(results[i]) /\ results[i].class = "none"})

(* The sentinel stops the steps as soon as the threshold of them has moved *)
(* nothing, late executors included, and not before.                       *)
SentinelIsExact ==
    LET still(i, j) == \A k \in i..j : ~moved[k] IN
    /\ \A i \in DOMAIN moved : i + NoopThreshold <= Len(moved) => ~still(i, i + NoopThreshold)
    /\ advice = "kill" => still(Len(moved) - NoopThreshold + 1, Len(moved))

(* A claim stands no higher than what it was shown since it last had no    *)
(* authority: a receipt that passed for local authority, and beyond it a   *)
(* settlement that came in or that the operator approved.                  *)
ClaimsAreEarned ==
    /\ claim # "synthetic" => "VERIFIED_PASSED" \in earned
    /\ claim = "global" => "proof" \in earned /\ earned \cap {"inbound", "approved"} # {}
=============================================================================
