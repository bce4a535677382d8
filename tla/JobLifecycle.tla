---------------------------- MODULE JobLifecycle ----------------------------
(***************************************************************************)
(* What the queue promises about one job, whatever the workers do: the     *)
(* lifecycle queued -> running -> succeeded | retry_scheduled | dead of    *)
(* decision D-0005 in DESIGN.md.  succeeded and dead are final; a run is   *)
(* counted in attempts when it begins; an interrupted READ job goes back   *)
(* to the queue, any other interrupted job is dead.                        *)
(***************************************************************************)
EXTENDS Integers

CONSTANTS Jobs, Reads, MaxRetries, MaxAttempts

VARIABLES status, attempts, retries

vars == <<status, attempts, retries>>

Becomes(j, from, to) ==
    status[j] \in from /\ status' = [status EXCEPT ![j] = to]

Create(j) == /\ Becomes(j, {"absent"}, "queued")
             /\ UNCHANGED <<attempts, retries>>

Begin(j) == /\ Becomes(j, {"queued"}, "running")
            /\ attempts' = [attempts EXCEPT ![j] = @ + 1]
            /\ UNCHANGED retries

Succeed(j) == /\ Becomes(j, {"running"}, "succeeded")
              /\ UNCHANGED <<attempts, retries>>

Retry(j) == /\ j \in Reads /\ attempts[j] < MaxAttempts /\ retries[j] < MaxRetries
            /\ Becomes(j, {"running"}, "retry_scheduled")
            /\ retries' = [retries EXCEPT ![j] = @ + 1]
            /\ UNCHANGED attempts

Die(j) == /\ Becomes(j, {"running"}, "dead")
          /\ UNCHANGED <<attempts, retries>>

Interrupt(j) == /\ IF j \in Reads THEN Becomes(j, {"running"}, "queued")
                                  ELSE Becomes(j, {"queued", "running"}, "dead")
                /\ UNCHANGED <<attempts, retries>>

Init == /\ status = [j \in Jobs |-> "absent"]
        /\ attempts = [j \in Jobs |-> 0] /\ retries = [j \in Jobs |-> 0]

Next == \E j \in Jobs : \/ Create(j) \/ Begin(j) \/ Succeed(j)
                        \/ Retry(j) \/ Die(j) \/ Interrupt(j)

Spec == Init /\ [][Next]_vars
=============================================================================
