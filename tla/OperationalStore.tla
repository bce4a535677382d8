-------------------------- MODULE OperationalStore ---------------------------
(***************************************************************************)
(* The SQLite sidecar of lib/sqlite_operational_store.mjs: jobs that are   *)
(* created, claimed under an expiring claim and moved by transitionJob.    *)
(* (Its replay leases are in ReplayLease.)  Every operation is one         *)
(* IMMEDIATE transaction, hence one step; the workers that call the store  *)
(* crash, stall past their claim, and deliver a request a second time.     *)
(*                                                                         *)
(* Times are reduced to whether a claim is still valid.  Jobs are numbered *)
(* in the order of created_at.                                             *)
(***************************************************************************)
EXTENDS Integers, FiniteSets

CONSTANTS
    Workers, Jobs,  \* worker ids; the job ids 1 .. n in the order of creation
    Reads,          \* the jobs with effect READ
    Keyed,          \* the jobs whose transitions carry an idempotency key
    MaxRetries,     \* how often workers reschedule a job
    MaxFaults,         \* how many faults occur
    None

StoreAssumption ==
    /\ Jobs \subseteq Nat \ {0} /\ Reads \subseteq Jobs /\ Keyed \subseteq Jobs
    /\ MaxRetries \in Nat /\ MaxFaults \in Nat /\ None \notin Workers \cup Jobs

VARIABLES
    job,      \* rows of the table jobs
    applied,  \* the idempotency keys in job_events
    frame,    \* what each worker is executing
    faults,   \* the faults so far
    sent,     \* the transition requests delivered so far
    starts, retries, lapses,  \* history, per job
    stale,    \* history: jobs moved by a request made for an earlier run
    thief     \* history: jobs claimed from a worker whose own claim never lapsed

vars == <<job, applied, frame, faults, sent, starts, retries, lapses, stale, thief>>

Statuses == {"absent", "queued", "running", "retry_scheduled", "succeeded", "dead"}
Terminal == {"succeeded", "dead"}

(* claim: whether claim_expires_at is NULL, in the future or in the past.  *)
NoJob   == [status |-> "absent", owner |-> None, claim |-> "none"]
Idle    == [job |-> None, run |-> 0, claimed |-> FALSE]

Init ==
    /\ job = [j \in Jobs |-> NoJob]
    /\ applied = {} /\ sent = {} /\ stale = {} /\ thief = {}
    /\ frame = [w \in Workers |-> Idle] /\ faults = 0
    /\ starts = [j \in Jobs |-> 0] /\ retries = starts /\ lapses = starts

Fault == faults < MaxFaults /\ faults' = faults + 1

Works(w, j) == frame[w].job = j
OnJob(j, claimed) == [job |-> j, run |-> starts[j] + 1, claimed |-> claimed]

-----------------------------------------------------------------------------
(* createJob; a repeated request with the same key finds its own event.    *)
CreateJob(j) ==
    /\ job[j].status = "absent" /\ \A i \in Jobs : i < j => job[i].status # "absent"
    /\ job' = [job EXCEPT ![j].status = "queued"]
    /\ UNCHANGED <<applied, frame, faults, sent, starts, retries, lapses, stale, thief>>

(* claimNextJob.  The oldest job that is queued or running on an expired   *)
(* claim is taken; an expired WRITE job is declared dead instead, and the  *)
(* search goes on.  retry_scheduled jobs are never taken.                  *)
ExpiredOrNone(j) == job[j].status = "running" /\ job[j].claim # "future"
Expired(j)  == job[j].status = "running" /\ job[j].claim = "past"
Fits(j)     == job[j].status = "queued" \/ (Expired(j) /\ j \in Reads)
Doomed(j)   == Expired(j) /\ j \notin Reads /\ \A i \in Jobs : i < j => ~Fits(i)
Oldest(j)   == Fits(j) /\ \A i \in Jobs : i < j => ~Fits(i)

ClaimNextJob(w) ==
    /\ frame[w] = Idle
    /\ job' = [j \in Jobs |->
         IF Doomed(j) THEN [job[j] EXCEPT !.status = "dead"]
         ELSE IF Oldest(j) THEN [status |-> "running", owner |-> w, claim |-> "future"]
         ELSE job[j]]
    /\ \E j \in Jobs : Doomed(j) \/ Oldest(j)
    /\ starts' = [j \in Jobs |-> IF Oldest(j) THEN starts[j] + 1 ELSE starts[j]]
    /\ frame' = IF \E j \in Jobs : Oldest(j)
                THEN [frame EXCEPT ![w] = OnJob(CHOOSE j \in Jobs : Oldest(j), TRUE)]
                ELSE frame
    /\ thief' = thief \cup {j \in Jobs : /\ Doomed(j) \/ (Oldest(j) /\ Expired(j))
                                         /\ \E v \in Workers : Works(v, j) /\ ~frame[v].claimed}
    /\ UNCHANGED <<applied, faults, sent, retries, lapses, stale>>

(* transitionJob, the status changed under compare and swap.  The claim    *)
(* columns are left as they were.  r is the request: its job, the run it   *)
(* was made for, and its edge.                                             *)
Allowed == [queued |-> {"running", "dead"},
            running |-> {"retry_scheduled", "succeeded", "dead"},
            retry_scheduled |-> {"running", "dead"}]

Transition(r) ==
    IF job[r.job].status = r.from /\ (r.job \in Keyed => r \notin applied)
    THEN /\ job' = [job EXCEPT ![r.job].status = r.to]
         /\ applied' = IF r.job \in Keyed THEN applied \cup {r} ELSE applied
         /\ stale' = IF r.run # starts[r.job] THEN stale \cup {r.job} ELSE stale
         /\ retries' = IF r.to = "retry_scheduled"
                       THEN [retries EXCEPT ![r.job] = @ + 1] ELSE retries
         /\ starts' = IF r.to = "running" THEN [starts EXCEPT ![r.job] = @ + 1] ELSE starts
    ELSE UNCHANGED <<job, applied, stale, retries, starts>>

Request(j, run, to) == [job |-> j, run |-> run, from |-> job[j].status, to |-> to]

(* A worker starts a job without a claim: a queued one, or one whose retry *)
(* is due.  The claim columns keep what an earlier claim left in them.     *)
StartByTransition(w, j) ==
    /\ frame[w] = Idle /\ job[j].status \in {"queued", "retry_scheduled"}
    /\ Transition(Request(j, starts[j], "running"))
    /\ sent' = sent \cup {Request(j, starts[j], "running")}
    /\ frame' = [frame EXCEPT ![w] = OnJob(j, FALSE)]
    /\ UNCHANGED <<faults, lapses, thief>>

(* The worker's run is over; a conflict is an exception it gives up on.    *)
Finish(w, to) ==
    /\ frame[w] # Idle /\ to \in Allowed["running"]
    /\ to = "retry_scheduled" => retries[frame[w].job] < MaxRetries
    /\ LET r == [job |-> frame[w].job, run |-> frame[w].run, from |-> "running", to |-> to]
       IN  Transition(r) /\ sent' = sent \cup {r}
    /\ frame' = [frame EXCEPT ![w] = Idle]
    /\ UNCHANGED <<faults, lapses, thief>>

(* An operator gives up a job that is not running.                         *)
GiveUp(j) ==
    /\ job[j].status \in {"queued", "retry_scheduled"}
    /\ Transition(Request(j, starts[j], "dead"))
    /\ UNCHANGED <<frame, faults, sent, lapses, thief>>

(* A request is delivered again.                                           *)
Redeliver(r) ==
    /\ r \in sent /\ Fault
    /\ Transition(r)
    /\ UNCHANGED <<frame, sent, lapses, thief>>

(* Time passes the claim of a job; while its worker is still at work this  *)
(* is a fault.                                                             *)
ClaimLapses(j) ==
    /\ job[j].claim = "future"
    /\ IF \E w \in Workers : Works(w, j) THEN Fault ELSE UNCHANGED faults
    /\ job' = [job EXCEPT ![j].claim = "past"]
    /\ lapses' = [lapses EXCEPT ![j] = @ + 1]
    /\ UNCHANGED <<applied, frame, sent, starts, retries, stale, thief>>

Crash(w) ==
    /\ frame[w] # Idle /\ Fault
    /\ frame' = [frame EXCEPT ![w] = Idle]
    /\ UNCHANGED <<job, applied, sent, starts, retries, lapses, stale, thief>>

Claims   == \E w \in Workers : ClaimNextJob(w)
Finishes == \E w \in Workers, to \in Statuses : Finish(w, to)

Next ==
    \/ \E j \in Jobs : CreateJob(j) \/ GiveUp(j) \/ ClaimLapses(j)
    \/ Claims \/ Finishes
    \/ \E w \in Workers, j \in Jobs : StartByTransition(w, j)
    \/ \E r \in sent : Redeliver(r)
    \/ \E w \in Workers : Crash(w)

(* Workers keep asking for jobs and end their runs; time passes.           *)
Fairness ==
    /\ \A w \in Workers : /\ SF_vars(ClaimNextJob(w))
                           /\ WF_vars(\E to \in Statuses : Finish(w, to))
    /\ \A j \in Jobs : WF_vars(ClaimLapses(j))

Spec == Init /\ [][Next]_vars /\ Fairness

-----------------------------------------------------------------------------
TypeOK ==
    /\ job \in [Jobs -> [status : Statuses, owner : Workers \cup {None},
                        claim : {"none", "future", "past"}]]
    /\ applied \subseteq sent \cup [job : Jobs, run : Nat, from : Statuses, to : {"dead"}]
    /\ faults \in 0 .. MaxFaults
    /\ stale \subseteq Jobs /\ thief \subseteq Jobs

(* A WRITE job starts again only because a worker rescheduled it, a READ   *)
(* job also because a claim on it expired ("automatic replay blocked").    *)
StartsAreAccounted ==
    \A j \in Jobs : starts[j] <= 1 + retries[j] + (IF j \in Reads THEN lapses[j] ELSE 0)

(* A request made for one run never moves a later run of a job whose       *)
(* requests carry idempotency keys, however late or often it is delivered, *)
(* unless a claim on the job expired.                                      *)
StaleMovesNeedLapse == \A j \in stale \cap Keyed : lapses[j] > 0

(* A run started without a claim is taken from its worker only through the *)
(* claim an earlier run left in the row.                                   *)
TheftsNeedLeftovers == \A j \in thief : lapses[j] > 0 /\ retries[j] > 0

(* Succeeded and dead jobs never change again.                             *)
EndsStay == [][
    \A j \in Jobs : job[j].status \in Terminal => job'[j].status = job[j].status
    ]_vars

(* No job is left running under a claim, its own or a leftover, though its *)
(* worker is gone.                                                         *)
ClaimedRunsEnd ==
    <>[](\A j \in Jobs : job[j].status = "running" => job[j].claim = "none")

(* Every start, move and theft of a run is accounted for by what workers   *)
(* asked for and by claims that expired.                                   *)
RunsAreAccounted == TypeOK /\ StartsAreAccounted /\ StaleMovesNeedLapse /\ TheftsNeedLeftovers
=============================================================================
