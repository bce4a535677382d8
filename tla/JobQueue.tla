------------------------------ MODULE JobQueue ------------------------------
(***************************************************************************)
(* The Redis job queue of lib/queue.mjs as run by worker.mjs: enqueueJob,  *)
(* the worker cycle, the recovery pass and the redis fields they share.    *)
(*                                                                         *)
(* Redis executes one command at a time, so each command (and each EVAL    *)
(* script) is one step; everything a worker does between two commands is   *)
(* folded into the command that precedes it.  A worker remembers what it   *)
(* read in its frame, and acts on it later.                                *)
(*                                                                         *)
(* Lists are bags: which of several ready entries is popped, and in which  *)
(* order recovery visits the processing list, is left open.  Times are     *)
(* reduced to what the code compares: whether a claim's lease has expired, *)
(* whether a delayed entry is due, whether the recovery timer has fired.   *)
(***************************************************************************)
EXTENDS Integers

CONSTANTS
    Workers,      \* worker processes
    Jobs,         \* job ids
    Reads,        \* the jobs with effect READ
    Renewable,    \* READ jobs whose caller chooses the id and may enqueue it again
    MaxEnqueues,  \* how often a renewable job is enqueued
    MaxRetries,   \* max_retries of every job
    MaxAttempts,  \* max_attempts of every job
    Budget,       \* how many crashes, refusals, drops, stalls and disk faults occur
    None          \* no job, no worker

Faults == {"crash", "refuse", "drop", "stall", "disk"}

ASSUME ConstantsAssumption ==
    /\ Renewable \subseteq Reads /\ Reads \subseteq Jobs
    /\ MaxEnqueues \in Nat \ {0} /\ MaxRetries \in Nat /\ MaxAttempts \in Nat
    /\ Budget \in [Faults -> Nat]
    /\ None \notin Workers \cup Jobs

VARIABLES
    ready, processing, dlq, notes,  \* Redis lists, as bags over Jobs
    delayed,                        \* the sorted set of scheduled retries
    hash,                           \* the job hashes
    frame,                          \* what each worker is doing, and for which job
    linked,                         \* whether the worker's Redis client is connected
    budget,                         \* the faults still to come
    runs, deaths, letters,          \* history: executions begun, "dead" writes,
                                    \* jobs with a DLQ record on disk
    enqueues                        \* history: how often enqueueJob created the job

lists   == <<ready, processing, delayed, dlq, notes>>
local   == <<frame, linked>>
history == <<runs, deaths, letters, enqueues>>
vars    == <<lists, hash, local, budget, history>>

Statuses == {"absent", "queued", "running", "retry_scheduled", "succeeded", "dead"}
Terminal == {"succeeded", "dead"}

(* Program points.  Each is named for the command the worker sends next.   *)
AtRest   == {"top", "rec", "due", "claim"}
AtJob    == {"fetch", "start", "markOk", "ackOk", "markRetry", "zadd", "markDead",
             "dlq", "note", "ack", "requeue", "push"}
OffRedis == {"call", "exec", "caught"}

Put(bag, j)  == [bag EXCEPT ![j] = @ + 1]
Take(bag, j) == [bag EXCEPT ![j] = IF @ > 0 THEN @ - 1 ELSE 0]
Nothing      == [j \in Jobs |-> 0]

(* A list that takes an id only while the marker in the hash is not set.   *)
PutAlways(bag, marked, j)   == Put(bag, j)
PutUnmarked(bag, marked, j) == IF marked THEN bag ELSE Put(bag, j)

(* todo holds the processing entries a recovery pass has yet to visit.     *)
Free(p)   == [pc |-> p, job |-> None, rec |-> (p = "rec"), todo |-> Nothing,
              attempts |-> 0, retries |-> 0, noted |-> FALSE]
At(w, p)  == [frame[w] EXCEPT !.pc = p]
NextEntryStale(w) == At(w, "rec")
NextEntry(w) == [Free("rec") EXCEPT !.todo = frame[w].todo]

Spend(fault) == budget[fault] > 0 /\ budget' = [budget EXCEPT ![fault] = @ - 1]

-----------------------------------------------------------------------------
(* Replies and errors                                                      *)

(* Where a rejected command takes the worker: into the catch block around  *)
(* runJob, past the swallowed notification error, out of the recovery pass *)
(* into the cycle, or out of the cycle to the top of workerLoop.           *)
ErrorFrameAcks(w) ==
    IF frame[w].pc \in {"markOk", "ackOk"} THEN At(w, "caught")
    ELSE IF frame[w].pc = "note" THEN At(w, "ack")
    ELSE IF frame[w].rec \/ frame[w].pc = "top" THEN Free("due")
    ELSE Free("top")

ErrorFrame(w) ==
    IF frame[w].pc \in {"markOk", "ackOk"} THEN At(w, "caught")
    ELSE IF frame[w].pc = "note" /\ frame[w].rec THEN NextEntry(w)
    ELSE IF frame[w].rec \/ frame[w].pc = "top" THEN Free("due")
    ELSE Free("top")

(* The command has run; its reply arrives, or the socket is lost with it.  *)
(* The client does not reconnect (reconnectStrategy false).                *)
Reply(w, f) ==
    /\ linked[w]
    /\ \/ frame' = [frame EXCEPT ![w] = f] /\ UNCHANGED <<linked, budget>>
       \/ /\ Spend("drop")
          /\ linked' = [linked EXCEPT ![w] = FALSE]
          /\ frame'  = [frame EXCEPT ![w] = ErrorFrame(w)]

(* A command that never runs: Redis answers with an error, or the client   *)
(* is disconnected.                                                        *)
Rejected(w) ==
    /\ frame[w].pc \in AtRest \cup AtJob
    /\ frame[w].pc = "rec" => frame[w].todo # Nothing
    /\ \/ linked[w] /\ Spend("refuse") /\ UNCHANGED linked
       \/ linked[w] /\ Spend("drop") /\ linked' = [linked EXCEPT ![w] = FALSE]
       \/ ~linked[w] /\ UNCHANGED <<linked, budget>>
    /\ frame' = [frame EXCEPT ![w] = ErrorFrame(w)]
    /\ UNCHANGED <<lists, hash, history>>

-----------------------------------------------------------------------------
(* Producers                                                               *)

(* ENQUEUE_JOB_SCRIPT.  A caller that repeats an idempotency key changes   *)
(* nothing; one that reuses a job id under a new or an expired key writes  *)
(* the hash afresh (the claim fields stay) and pushes the id again.        *)
Enqueue(j) ==
    /\ enqueues[j] < IF j \in Renewable THEN MaxEnqueues ELSE 1
    /\ hash' = [hash EXCEPT ![j].status = "queued", ![j].attempts = 0, ![j].retries = 0,
                            ![j].dlqMark = FALSE, ![j].noteMark = FALSE]
    /\ ready' = Put(ready, j)
    /\ enqueues' = [enqueues EXCEPT ![j] = @ + 1]
    /\ UNCHANGED <<processing, dlq, notes, delayed, local, budget, runs, deaths, letters>>

-----------------------------------------------------------------------------
(* recoverClaimedJobs                                                      *)

StartRecovery(w) ==
    /\ frame[w].pc = "top"
    /\ Reply(w, [Free("rec") EXCEPT !.todo = processing])
    /\ UNCHANGED <<lists, hash, history>>

SkipRecovery(w) ==
    /\ frame[w].pc = "top"
    /\ frame' = [frame EXCEPT ![w] = Free("due")]
    /\ UNCHANGED <<lists, hash, linked, budget, history>>

(* What recovery does about entry j, having read its hash h; "rec" leaves  *)
(* the entry alone.                                                        *)
VerdictReplaysAll(j, h) ==
    IF h.status \in Terminal THEN "ack" ELSE IF h.lease THEN "rec" ELSE "requeue"
VerdictNoRepair(j, h) ==
    IF h.status \in Terminal THEN "ack"
    ELSE IF h.lease THEN "rec" ELSE IF j \in Reads THEN "requeue" ELSE "markDead"
VerdictRunningOnly(j, h) ==
    IF h.status # "running" THEN "ack"
    ELSE IF h.lease THEN "rec" ELSE IF j \in Reads THEN "requeue" ELSE "markDead"

Reported(h) == h.dlqMark /\ h.noteMark
Settled(h)  == h.status \in {"absent", "succeeded"} \/ (h.status = "dead" /\ Reported(h))

Verdict(j, h) ==
    IF Settled(h) THEN "ack"
    ELSE IF h.status = "dead" THEN (IF h.dlqMark THEN "note" ELSE "dlq")
    ELSE IF h.lease THEN "rec"
    ELSE IF h.status = "retry_scheduled" THEN "zadd"
    ELSE IF j \in Reads THEN "requeue" ELSE "markDead"

RecoveryFrame(w, j) ==
    LET p     == Verdict(j, hash[j])
        rest  == [Free("rec") EXCEPT !.todo = [frame[w].todo EXCEPT ![j] = @ - 1]]
    IN  IF p = "rec" THEN rest
        ELSE [rest EXCEPT !.pc = p, !.job = j, !.noted = hash[j].noteMark]

RecoverNext(w) ==
    /\ frame[w].pc = "rec"
    /\ \E j \in Jobs : frame[w].todo[j] > 0 /\ Reply(w, RecoveryFrame(w, j))
    /\ UNCHANGED <<lists, hash, history>>

RecoveryDone(w) ==
    /\ frame[w].pc = "rec" /\ frame[w].todo = Nothing
    /\ frame' = [frame EXCEPT ![w] = Free("due")]
    /\ UNCHANGED <<lists, hash, linked, budget, history>>

Requeue(w) ==
    LET j == frame[w].job IN
    /\ frame[w].pc = "requeue"
    /\ hash' = [hash EXCEPT ![j].status = "queued", ![j].owner = None, ![j].lease = FALSE]
    /\ Reply(w, At(w, "push"))
    /\ UNCHANGED <<lists, history>>

Push(w) ==
    /\ frame[w].pc = "push"
    /\ ready' = Put(ready, frame[w].job)
    /\ Reply(w, At(w, "ack"))
    /\ UNCHANGED <<processing, dlq, notes, delayed, hash, history>>

-----------------------------------------------------------------------------
(* Steps shared by recovery and the worker cycle                           *)

MarkDead(w) ==
    LET j == frame[w].job IN
    /\ frame[w].pc = "markDead"
    /\ hash' = [hash EXCEPT ![j].status = "dead", ![j].owner = None, ![j].lease = FALSE,
                            ![j].dlqMark = FALSE, ![j].noteMark = FALSE]
    /\ deaths' = [deaths EXCEPT ![j] = @ + 1]
    /\ Reply(w, [At(w, "dlq") EXCEPT !.noted = FALSE])
    /\ UNCHANGED <<lists, runs, letters, enqueues>>

(* enqueueDlqOnce: the entry and its marker in one script.                 *)
FileDlq(w) ==
    LET j == frame[w].job IN
    /\ frame[w].pc = "dlq"
    /\ dlq'  = PutUnmarked(dlq, hash[j].dlqMark, j)
    /\ hash' = [hash EXCEPT ![j].dlqMark = TRUE]
    /\ Reply(w, At(w, IF frame[w].noted THEN "ack" ELSE "note"))
    /\ UNCHANGED <<ready, processing, notes, delayed, history>>

(* notifyJobDeath: the notification and its marker in one script.          *)
Notify(w) ==
    LET j == frame[w].job IN
    /\ frame[w].pc = "note"
    /\ notes' = PutUnmarked(notes, hash[j].noteMark, j)
    /\ hash'  = [hash EXCEPT ![j].noteMark = TRUE]
    /\ Reply(w, At(w, "ack"))
    /\ UNCHANGED <<ready, processing, dlq, delayed, history>>

ScheduleRetry(w) ==
    /\ frame[w].pc = "zadd"
    /\ delayed' = delayed \cup {frame[w].job}
    /\ Reply(w, At(w, "ack"))
    /\ UNCHANGED <<ready, processing, dlq, notes, hash, history>>

(* acknowledgeClaim: LREM of one matching entry.                           *)
Acknowledge(w) ==
    /\ frame[w].pc \in {"ack", "ackOk"}
    /\ processing' = Take(processing, frame[w].job)
    /\ Reply(w, IF frame[w].rec THEN NextEntry(w) ELSE Free("top"))
    /\ UNCHANGED <<ready, dlq, notes, delayed, hash, history>>

-----------------------------------------------------------------------------
(* runWorkerCycle                                                          *)

(* Due ids move to the ready list; their hashes are not touched.           *)
MoveDueDelayed(w, due) ==
    /\ frame[w].pc = "due"
    /\ delayed' = delayed \ due
    /\ ready' = [j \in Jobs |-> IF j \in due THEN ready[j] + 1 ELSE ready[j]]
    /\ Reply(w, Free("claim"))
    /\ UNCHANGED <<processing, dlq, notes, hash, history>>

ClaimNothing(w) ==
    /\ frame[w].pc = "claim" /\ ready = Nothing
    /\ Reply(w, Free("top"))
    /\ UNCHANGED <<lists, hash, history>>

(* A popped id whose job is not queued is dropped.                         *)
ClaimStale(w, j) ==
    /\ frame[w].pc = "claim" /\ ready[j] > 0 /\ hash[j].status # "queued"
    /\ ready' = Take(ready, j)
    /\ Reply(w, Free("top"))
    /\ UNCHANGED <<processing, dlq, notes, delayed, hash, history>>

Claim(w, j) ==
    /\ frame[w].pc = "claim" /\ ready[j] > 0 /\ hash[j].status = "queued"
    /\ ready' = Take(ready, j)
    /\ processing' = Put(processing, j)
    /\ hash' = [hash EXCEPT ![j].owner = w, ![j].lease = TRUE]
    /\ Reply(w, [Free("fetch") EXCEPT !.job = j])
    /\ UNCHANGED <<dlq, notes, delayed, history>>

(* The number of the attempt about to begin.                               *)
RetriesOnly(h) == h.retries + 1
Attempt(h)     == h.attempts + 1

Fetch(w) ==
    LET h == hash[frame[w].job] IN
    /\ frame[w].pc = "fetch"
    /\ Reply(w, IF h.status \in Terminal
                THEN At(w, "ack")
                ELSE [At(w, "start") EXCEPT !.attempts = Attempt(h), !.retries = h.retries])
    /\ UNCHANGED <<lists, hash, history>>

MarkRunning(w) ==
    LET j == frame[w].job IN
    /\ frame[w].pc = "start"
    /\ hash' = [hash EXCEPT ![j].status = "running", ![j].attempts = frame[w].attempts]
    /\ Reply(w, At(w, "call"))
    /\ UNCHANGED <<lists, history>>

(* runJob is called, and returns or throws.                                *)
CallTool(w) ==
    /\ frame[w].pc = "call"
    /\ frame' = [frame EXCEPT ![w] = At(w, "exec")]
    /\ runs' = [runs EXCEPT ![frame[w].job] = @ + 1]
    /\ UNCHANGED <<lists, hash, linked, budget, deaths, letters, enqueues>>

ToolReturns(w) ==
    /\ frame[w].pc = "exec"
    /\ \E p \in {"markOk", "caught"} : frame' = [frame EXCEPT ![w] = At(w, p)]
    /\ UNCHANGED <<lists, hash, linked, budget, history>>

MarkSucceeded(w) ==
    LET j == frame[w].job IN
    /\ frame[w].pc = "markOk"
    /\ hash' = [hash EXCEPT ![j].status = "succeeded", ![j].owner = None, ![j].lease = FALSE]
    /\ Reply(w, At(w, "ackOk"))
    /\ UNCHANGED <<lists, history>>

(* The catch block, for an error of the tool or of the two commands after  *)
(* it.  A job that will not be retried is first written to the DLQ file,   *)
(* whose own error is swallowed.                                           *)
MayRetryUnbounded(w) == frame[w].job \in Reads
MayRetry(w) ==
    /\ frame[w].job \in Reads
    /\ frame[w].attempts < MaxAttempts
    /\ frame[w].retries < MaxRetries

CatchRetry(w) ==
    /\ frame[w].pc = "caught" /\ MayRetry(w)
    /\ frame' = [frame EXCEPT ![w] = At(w, "markRetry")]
    /\ UNCHANGED <<lists, hash, linked, budget, history>>

CatchDeadUnfiled(w) ==
    /\ frame[w].pc = "caught"
    /\ frame' = [frame EXCEPT ![w] = At(w, "markDead")]
    /\ UNCHANGED <<lists, hash, linked, budget, history>>
CatchDead(w) ==
    /\ frame[w].pc = "caught"
    /\ frame' = [frame EXCEPT ![w] = At(w, "markDead")]
    /\ \/ letters' = letters \cup {frame[w].job} /\ UNCHANGED budget
       \/ Spend("disk") /\ UNCHANGED letters
    /\ UNCHANGED <<lists, hash, linked, runs, deaths, enqueues>>

MarkRetry(w) ==
    LET j == frame[w].job IN
    /\ frame[w].pc = "markRetry"
    /\ hash' = [hash EXCEPT ![j].status = "retry_scheduled", ![j].retries = frame[w].retries + 1,
                            ![j].owner = None, ![j].lease = FALSE]
    /\ Reply(w, At(w, "zadd"))
    /\ UNCHANGED <<lists, history>>

-----------------------------------------------------------------------------
(* Leases, crashes                                                         *)

(* The heartbeat runs while the tool does, and renews only the owner's     *)
(* lease.                                                                  *)
Renew(w) ==
    LET j == frame[w].job IN
    /\ frame[w].pc \in {"exec", "markOk"} /\ linked[w]
    /\ hash[j].owner = w /\ ~hash[j].lease
    /\ hash' = [hash EXCEPT ![j].lease = TRUE]
    /\ UNCHANGED <<lists, local, budget, history>>

Held(j) == \E w \in Workers : /\ linked[w] /\ frame[w].job = j /\ ~frame[w].rec
                              /\ hash[j].owner = w

(* The lease of a job nobody attends to runs out; under a live holder that *)
(* takes a stall longer than the lease.                                    *)
LeaseExpires(j) ==
    /\ hash[j].lease
    /\ IF Held(j) THEN Spend("stall") ELSE UNCHANGED budget
    /\ hash' = [hash EXCEPT ![j].lease = FALSE]
    /\ UNCHANGED <<lists, local, history>>

(* The process dies and a new one takes its place.                         *)
Crash(w) ==
    /\ Spend("crash")
    /\ frame'  = [frame EXCEPT ![w] = Free("top")]
    /\ linked' = [linked EXCEPT ![w] = TRUE]
    /\ UNCHANGED <<lists, hash, history>>

-----------------------------------------------------------------------------
Recovery(w) == \/ StartRecovery(w) \/ SkipRecovery(w) \/ RecoverNext(w) \/ RecoveryDone(w)
               \/ Requeue(w) \/ Push(w)
Shared(w)   == \/ MarkDead(w) \/ FileDlq(w) \/ Notify(w) \/ ScheduleRetry(w) \/ Acknowledge(w)
Cycle(w)    == \/ \E due \in SUBSET delayed : MoveDueDelayed(w, due)
               \/ ClaimNothing(w)
               \/ \E j \in Jobs : ClaimStale(w, j) \/ Claim(w, j)
               \/ Fetch(w) \/ MarkRunning(w) \/ CallTool(w) \/ ToolReturns(w) \/ MarkSucceeded(w)
               \/ CatchRetry(w) \/ CatchDead(w) \/ MarkRetry(w)
Step(w)     == Recovery(w) \/ Shared(w) \/ Cycle(w) \/ Rejected(w)

Fresh == [status |-> "absent", attempts |-> 0, retries |-> 0, owner |-> None, lease |-> FALSE,
          dlqMark |-> FALSE, noteMark |-> FALSE]

Init ==
    /\ ready = Nothing /\ processing = Nothing /\ dlq = Nothing /\ notes = Nothing
    /\ delayed = {}
    /\ hash = [j \in Jobs |-> Fresh]
    /\ frame = [w \in Workers |-> Free("top")]
    /\ linked = [w \in Workers |-> TRUE]
    /\ budget = Budget
    /\ runs = Nothing /\ deaths = Nothing /\ letters = {} /\ enqueues = Nothing

Next ==
    \/ \E j \in Jobs : Enqueue(j) \/ LeaseExpires(j)
    \/ \E w \in Workers : Step(w) \/ Renew(w) \/ Crash(w)

(* workerLoop runs for ever and its tools return; the recovery timer fires *)
(* again and again; a poll finds every delayed entry due at some time; an  *)
(* unattended lease runs out.  Crashes and faults are never owed.          *)
Fairness ==
    /\ \A w \in Workers :
          /\ WF_vars(Step(w))
          /\ SF_vars(StartRecovery(w))
          /\ SF_vars(MoveDueDelayed(w, delayed) /\ delayed # {})
    /\ \A j \in Jobs : WF_vars(LeaseExpires(j) /\ ~Held(j))

Spec     == Init /\ [][Next]_vars
FairSpec == Spec /\ Fairness

-----------------------------------------------------------------------------
(* Properties                                                              *)

Bag       == [Jobs -> Nat]
FrameType == [pc : AtRest \cup AtJob \cup OffRedis, job : Jobs \cup {None}, rec : BOOLEAN,
              todo : Bag, attempts : Nat, retries : Nat, noted : BOOLEAN]
HashType  == [status : Statuses, attempts : Nat, retries : Nat, owner : Workers \cup {None},
              lease : BOOLEAN, dlqMark : BOOLEAN, noteMark : BOOLEAN]

HasJobUnlessAtRest(f) == f.job = None <=> f.pc \in AtRest

(* Every variable has its type, and a worker that is about to act on a job *)
(* has one: the program points of runWorkerCycle and recoverClaimedJobs.   *)
TypeOK ==
    /\ ready \in Bag /\ processing \in Bag /\ dlq \in Bag /\ notes \in Bag
    /\ runs \in Bag /\ deaths \in Bag /\ enqueues \in Bag
    /\ delayed \subseteq Jobs /\ letters \subseteq Jobs
    /\ hash \in [Jobs -> HashType]
    /\ frame \in [Workers -> FrameType]
    /\ \A w \in Workers : HasJobUnlessAtRest(frame[w])
    /\ linked \in [Workers -> BOOLEAN]
    /\ budget \in [Faults -> Nat]

(* A job that is not READ is executed at most once, whatever crashes, lost *)
(* replies, stalls and concurrent recoveries happen: claims are taken only *)
(* from queued jobs and recovery never puts such a job back.               *)
NonReadAtMostOnce == \A j \in Jobs \ Reads : runs[j] <= 1

(* Why: the one ready entry of such a job is used up by the claim that     *)
(* leads to its one run, and nothing makes another.  Program points that   *)
(* put a job back are reached by READ jobs only.                           *)
ForReadsOnly == {"requeue", "push", "markRetry", "zadd"}
BeforeRun    == {"fetch", "start", "call"}
AboutToRun(w, j) == frame[w].job = j /\ frame[w].pc \in BeforeRun

RunsOnce(j) ==
    /\ enqueues[j] <= 1
    /\ enqueues[j] = 0 => ready[j] = 0 /\ runs[j] = 0 /\ \A w \in Workers : ~AboutToRun(w, j)
    /\ ready[j] + runs[j] <= 1
    /\ j \notin delayed /\ hash[j].status # "retry_scheduled"
    /\ \A w \in Workers : frame[w].job = j => frame[w].pc \notin ForReadsOnly
    /\ \A w \in Workers : AboutToRun(w, j) =>
           ready[j] = 0 /\ runs[j] = 0 /\ \A v \in Workers : AboutToRun(v, j) => v = w

OnceInv == \A j \in Jobs \ Reads : RunsOnce(j)

(* Each write of "dead" leads to at most one DLQ entry and one notification*)
(* (and each repeated enqueue, which clears the markers, to one more),     *)
(* however often recovery repairs them.                                    *)
ReportsPerDeath ==
    \A j \in Jobs : LET allowed == deaths[j] + (IF enqueues[j] > 1 THEN enqueues[j] - 1 ELSE 0)
                    IN  notes[j] <= allowed /\ dlq[j] <= allowed

(* D-0005: a claim is acknowledged only after a durable terminal or retry  *)
(* transition.  So a job that is not finished, or whose death is not yet   *)
(* fully reported, is in a list a later cycle or recovery pass reads.      *)
Accounted ==
    \A j \in Jobs :
        /\ hash[j].status \in {"queued", "running"} => ready[j] > 0 \/ processing[j] > 0
        /\ hash[j].status = "dead" /\ ~Reported(hash[j]) => processing[j] > 0

(* DESIGN.md 3.2: terminal failures are recorded in runtime/dlq: a dead    *)
(* job lacks its record only after a fault (recovery writes none).         *)
DeathsOnRecord ==
    \A j \in Jobs : hash[j].status = "dead" /\ j \notin letters => budget # Budget

(* attempts never undercounts: a run begins only after its attempt was     *)
(* written to the hash.                                                    *)
RunsWithinAttempts == \A j \in Jobs : runs[j] <= hash[j].attempts

(* The queue implements the lifecycle of D-0005.                           *)
Lifecycle == INSTANCE JobLifecycle WITH
                 status   <- [j \in Jobs |-> hash[j].status],
                 attempts <- [j \in Jobs |-> hash[j].attempts],
                 retries  <- [j \in Jobs |-> hash[j].retries]
ImplementsLifecycle == Lifecycle!Spec

(* Every death is eventually filed in the DLQ and announced.               *)
DeathsAreReported ==
    \A j \in Jobs : hash[j].status = "dead" ~> hash[j].status # "dead" \/ Reported(hash[j])

(* Every enqueued job leaves the queued and running states for good or is  *)
(* at least handed to the retry schedule.                                  *)
JobsSettle ==
    \A j \in Jobs : hash[j].status = "queued"
                        ~> hash[j].status \in Terminal \cup {"retry_scheduled"}

(* DESIGN.md 3.2: only READ jobs auto-retry: a scheduled retry is taken up.*)
RetriesResume ==
    \A j \in Jobs : hash[j].status = "retry_scheduled" ~> hash[j].status # "retry_scheduled"
=============================================================================
