--------------------------- MODULE StatemRunbook ----------------------------
(***************************************************************************)
(* executeStateMFsm of lib/statem_runbook_bridge.mjs over the checkpoint   *)
(* file of lib/statem_checkpoint.mjs: one job whose runbook is called      *)
(* again after every crash, suspension or report, one call at a time.      *)
(*                                                                         *)
(* A step runs from one await to the next: a handler begins, or it answers *)
(* and the call goes on to the save that follows.  The file is reduced to  *)
(* what a later call can read of it: the latest well formed checkpoint,    *)
(* and whether its last line is unterminated because the writer died in    *)
(* the middle of it.  What is appended to such a line is malformed too,    *)
(* and readLatestCheckpoint skips it.                                      *)
(***************************************************************************)
EXTENDS Integers, Functions

CONSTANTS
    Steps,       \* how many commands the verification plan has
    MaxRetries,  \* maxVerificationRetries
    MaxFaults    \* how many faults occur, of any kind

Faults == {"crash", "suspend", "fail", "tear", "disk"}

ASSUME RunbookAssumption ==
    Steps \in Nat \ {0} /\ MaxRetries \in Nat \ {0} /\ MaxFaults \in Nat

VARIABLES
    saved,    \* the latest readable checkpoint of the job
    torn,     \* the file ends in an unterminated line
    call,     \* the call in progress
    spent,    \* history: how often each fault occurred
    runs,     \* history: how often each handler began
    green,    \* history: the commands passed since execute last began
    reports   \* history: the receipts' statuses

vars == <<saved, torn, call, spent, runs, green, reports>>

Commands == 1 .. Steps
Phases   == {"plan", "execute", "verify", "handoff"}
Terminal == {"COMPLETED", "FAILED", "CANCELLED"}
States   == Phases \cup Terminal \cup {"rollback"}
Handlers == Phases \cup {"rollback"}

(* No checkpoint reads as a checkpoint of the initial state.               *)
Fresh == [state |-> "plan", attempts |-> 0, passed |-> FALSE]

(* pc: "idle", at the next decision ("go"), in a handler, or in catch.     *)
NoCall == [state |-> "plan", attempts |-> 0, passed |-> FALSE,
           pc |-> "idle", cmd |-> 1, success |-> FALSE]

Init ==
    /\ saved = Fresh /\ torn = FALSE /\ call = NoCall /\ spent = [f \in Faults |-> 0]
    /\ runs = [h \in Handlers |-> 0] /\ green = {} /\ reports = {}

Spend(fault) ==
    /\ SumFunction(spent) < MaxFaults
    /\ spent' = [spent EXCEPT ![fault] = @ + 1]

Checkpoint(c) == [state |-> c.state, attempts |-> c.attempts, passed |-> c.passed]
Goto(p)       == [call EXCEPT !.pc = p]
ToState(s, p) == [call EXCEPT !.state = s, !.pc = p]

-----------------------------------------------------------------------------
(* saveCheckpoint: c is appended and the call goes on as next; the process *)
(* dies in the middle of the append; or the append throws.                 *)
Save(c, next, thrown) ==
    \/ /\ saved' = IF torn THEN saved ELSE Checkpoint(c)
       /\ torn' = FALSE
       /\ call' = next
       /\ UNCHANGED spent
    \/ Spend("tear") /\ torn' = TRUE /\ call' = NoCall /\ UNCHANGED saved
    \/ Spend("disk") /\ call' = thrown /\ UNCHANGED <<saved, torn>>

SaveAndGo(c) == Save(c, [c EXCEPT !.pc = "go"], [c EXCEPT !.pc = "catch"])

Begins(h) == runs' = [runs EXCEPT ![h] = @ + 1]

Report(c) == reports' = reports \cup
    {IF c.success THEN "PASSED" ELSE IF c.state = "CANCELLED" THEN "CANCELLED" ELSE "FAILED"}

-----------------------------------------------------------------------------
(* A call reads the latest checkpoint; cancelIntent overrides its state.   *)
Call(cancel) ==
    /\ call.pc = "idle"
    /\ call' = [NoCall EXCEPT
            !.state = IF cancel /\ saved.state \notin {"COMPLETED", "CANCELLED"}
                      THEN "rollback" ELSE saved.state,
            !.attempts = saved.attempts, !.passed = saved.passed, !.pc = "go"]
    /\ UNCHANGED <<saved, torn, spent, runs, green, reports>>

(* rollback and plan save before their handler runs.                       *)
Announce(h) ==
    /\ call.pc = "go" /\ call.state = h /\ h \in {"rollback", "plan"}
    /\ Save(call, Goto(h), Goto("catch"))
    /\ IF call'.pc = h THEN Begins(h) ELSE UNCHANGED runs
    /\ UNCHANGED <<green, reports>>

(* Attempts remain.                                                        *)
Retries     == call.attempts < MaxRetries

BeginExecute ==
    /\ call.pc = "go" /\ call.state = "execute" /\ Retries
    /\ call' = Goto("execute") /\ Begins("execute") /\ green' = {}
    /\ UNCHANGED <<saved, torn, spent, reports>>

BeginVerify ==
    /\ call.pc = "go" /\ call.state = "verify" /\ Retries
    /\ call' = [Goto("verify") EXCEPT !.attempts = @ + 1, !.cmd = 1]
    /\ Begins("verify")
    /\ UNCHANGED <<saved, torn, spent, green, reports>>

(* The retries are used up and verification has not passed.                *)
BarrierFailsLate ==
    /\ call.pc = "go" /\ call.state \in {"execute", "verify"}
    /\ call.attempts > MaxRetries
    /\ call' = Goto("catch")
    /\ UNCHANGED <<saved, torn, spent, runs, green, reports>>
BarrierFails ==
    /\ call.pc = "go" /\ call.state \in {"execute", "verify"}
    /\ ~Retries
    /\ call' = Goto("catch")
    /\ UNCHANGED <<saved, torn, spent, runs, green, reports>>

BeginHandoff ==
    /\ call.pc = "go" /\ call.state = "handoff"
    /\ call' = Goto("handoff") /\ Begins("handoff")
    /\ UNCHANGED <<saved, torn, spent, green, reports>>

(* A terminal checkpoint, read or just written: the receipt is returned.   *)
Return ==
    /\ call.pc = "go" /\ call.state \in Terminal
    /\ Report(call) /\ call' = NoCall
    /\ UNCHANGED <<saved, torn, spent, runs, green>>

-----------------------------------------------------------------------------
(* Handlers answer                                                         *)

After(h) == CASE h = "plan"     -> ToState("execute", "go")
              [] h = "execute"  -> ToState("verify", "go")
              [] h = "handoff"  -> [ToState("COMPLETED", "go") EXCEPT !.success = TRUE]
              [] h = "rollback" -> ToState("CANCELLED", "go")

Succeeds(h) ==
    /\ call.pc = h /\ h \in Handlers \ {"verify"}
    /\ SaveAndGo(After(h))
    /\ UNCHANGED <<runs, green, reports>>

(* The next command of the plan passes; after the last one the barrier is  *)
(* open.                                                                   *)
CommandPassesLast ==
    /\ call.pc = "verify"
    /\ green' = green \cup {call.cmd}
    /\ SaveAndGo([ToState("handoff", "go") EXCEPT !.passed = TRUE])
    /\ UNCHANGED <<runs, reports>>
CommandPasses ==
    /\ call.pc = "verify"
    /\ green' = green \cup {call.cmd}
    /\ IF call.cmd + 1 \in Commands
       THEN call' = [call EXCEPT !.cmd = @ + 1] /\ UNCHANGED <<saved, torn, spent>>
       ELSE SaveAndGo([ToState("handoff", "go") EXCEPT !.passed = TRUE])
    /\ UNCHANGED <<runs, reports>>

(* A command fails: back to execute while attempts remain; BarrierFails is *)
(* next otherwise.                                                         *)
CommandFails ==
    /\ call.pc = "verify"
    /\ IF Retries
       THEN SaveAndGo(ToState("execute", "go"))
       ELSE call' = Goto("go") /\ UNCHANGED <<saved, torn, spent>>
    /\ UNCHANGED <<runs, green, reports>>

(* A handler answers ok: false or throws (for verify: throws).             *)
HandlerFails ==
    /\ call.pc \in Handlers /\ Spend("fail")
    /\ call' = Goto("catch")
    /\ UNCHANGED <<saved, torn, runs, green, reports>>

(* A handler throws SUSPEND: nothing is saved, FAILED is reported.         *)
Suspends ==
    /\ call.pc \in Handlers /\ Spend("suspend")
    /\ Report(call) /\ call' = NoCall
    /\ UNCHANGED <<saved, torn, runs, green>>

(* catch: FAILED is saved and reported; a save that throws there leaves    *)
(* executeStateMFsm by an exception.                                       *)
CatchKeepsState ==
    /\ call.pc = "catch"
    /\ Report(call) /\ call' = NoCall
    /\ UNCHANGED <<saved, torn, spent, runs, green>>
Catch ==
    /\ call.pc = "catch"
    /\ Save(ToState("FAILED", "go"), ToState("FAILED", "go"), NoCall)
    /\ UNCHANGED <<runs, green, reports>>

(* The process dies; what the call held is gone.                           *)
Crash ==
    /\ call.pc # "idle" /\ Spend("crash")
    /\ call' = NoCall
    /\ UNCHANGED <<saved, torn, runs, green, reports>>

Answer == \/ \E h \in Handlers : Succeeds(h)
          \/ CommandPasses \/ CommandFails \/ HandlerFails \/ Suspends
Proceed == \/ \E h \in Handlers : Announce(h)
           \/ BeginExecute \/ BeginVerify \/ BarrierFails \/ BeginHandoff
           \/ Return \/ Catch

Next == (\E cancel \in BOOLEAN : Call(cancel)) \/ Proceed \/ Answer \/ Crash

(* The code runs on, handlers answer, and the owner of the job calls again *)
(* until it is told the outcome.                                           *)
Fairness == WF_vars(Proceed) /\ WF_vars(Answer) /\ WF_vars(Call(FALSE))

Spec == Init /\ [][Next]_vars /\ Fairness

-----------------------------------------------------------------------------
TypeOK ==
    /\ saved \in [state : States, attempts : 0 .. MaxRetries, passed : BOOLEAN]
    /\ torn \in BOOLEAN
    /\ call \in [state : States, attempts : 0 .. MaxRetries, passed : BOOLEAN,
                 pc : Handlers \cup {"idle", "go", "catch"}, cmd : Commands, success : BOOLEAN]
    /\ spent \in [Faults -> Nat]
    /\ runs \in [Handlers -> Nat] /\ green \subseteq Commands
    /\ reports \subseteq {"PASSED", "FAILED", "CANCELLED"}

(* Handoff runs only on work every verification command has passed since   *)
(* execute last touched it, across crashes, resumptions and lost           *)
(* checkpoints ("handoff must NEVER be reached if verification fails").    *)
HandoffIsVerified == call.pc = "handoff" => green = Commands

(* A phase repeats only because a call was cut short, a save was lost, or  *)
(* a checkpoint was glued to a torn line: a tear can cost two repeats, the *)
(* second of them after a call that reported success.                      *)
RepeatsNeedFaults ==
    LET cuts == spent["crash"] + spent["suspend"] + spent["disk"] + 2 * spent["tear"]
    IN  /\ runs["plan"] <= 1 + cuts /\ runs["handoff"] <= 1 + cuts
        /\ runs["execute"] <= MaxRetries + cuts /\ runs["verify"] <= MaxRetries + cuts
        /\ runs["rollback"] <= 1 + cuts + spent["fail"]

(* Once the rollback handler has begun no phase of the runbook runs again, *)
(* unless a checkpoint was torn.                                           *)
RollbackEndsWork == runs["rollback"] > 0 /\ call.pc \in Phases => spent["tear"] > 0

(* What was reported PASSED stays COMPLETED on disk, whatever is called    *)
(* later, unless a save was torn or refused.                               *)
PassedIsKept ==
    "PASSED" \in reports => saved.state = "COMPLETED" \/ spent["tear"] + spent["disk"] > 0

(* A completed or cancelled runbook does nothing more, and a failed one    *)
(* can only be rolled back.                                                *)
EndsAreFinal == [][
    /\ saved.state \in {"COMPLETED", "CANCELLED"} => UNCHANGED <<saved, runs>>
    /\ saved.state = "FAILED" => \A p \in Phases : runs'[p] = runs[p]
    ]_vars

(* A runbook that is called until it answers stays at a terminal           *)
(* checkpoint in the end, although its process may crash, be suspended or  *)
(* lose checkpoints.                                                       *)
RunbookSettles == <>[](saved.state \in Terminal \/ call = NoCall)

(* The phases of a runbook come in their order: handoff only on verified   *)
(* work, nothing after a rollback, and what passed stays passed.           *)
PhasesInOrder == TypeOK /\ HandoffIsVerified /\ RollbackEndsWork /\ PassedIsKept
=============================================================================
