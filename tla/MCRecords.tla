----------------------------- MODULE MCRecords -------------------------------
(***************************************************************************)
(* The components that keep durable records beside the Redis queue: the    *)
(* StateM runbook, the SQLite store's jobs and its replay leases, and the  *)
(* review cycle with its history.  They share nothing, so one run checks   *)
(* them side by side: the first state picks a part, only its actions       *)
(* happen, and its fairness holds.  Of the store's jobs one is retried.    *)
(* The constants get their values in Records.cfg; RecordProofs proves the  *)
(* safety properties for all of them.                                      *)
(***************************************************************************)
EXTENDS StatemRunbook

CONSTANTS
    Owners, Keys, Idems, Fingerprints, Requests, MaxFailures, MaxBreakdowns,  \* of the leases
    Workers, Jobs, Reads, Keyed, MaxReschedules, MaxTroubles,                 \* of the store
    Runs, Roles, Required, MaxReviewers, Harnesses, Answers, MinReviews, MaxCycles,
    RequireDisagreement, FailFast, MaxMishaps,                                \* of the reviews
    None

VARIABLES
    part,
    job, applied, frame, troubles, sent, starts, retries, lapses, stale, thief,
    row, holder, breakdowns, effects, breaks, done,
    run, batch, cycles, halved, answers, during, mishaps

jobs      == <<job, applied, frame, troubles, sent, starts, retries, lapses, stale, thief>>
leases    == <<row, holder, breakdowns, effects, breaks, done>>
reviewing == <<run, batch, cycles, halved, answers, during, mishaps>>

S == INSTANCE OperationalStore WITH
        MaxRetries <- MaxReschedules, MaxFaults <- MaxTroubles, faults <- troubles
L == INSTANCE ReplayLease WITH
        MaxFaults <- MaxBreakdowns, frame <- holder, faults <- breakdowns
V == INSTANCE ReviewLoop WITH
        MaxFaults <- MaxMishaps, history <- cycles, torn <- halved, asked <- answers, lapses <- mishaps

(* What Records.cfg takes for Requests and Answers.                        *)
CONSTANTS w1, w2, w3, k1, k2, i1, i2, f1, f2

SomeRequests ==
    {[key |-> k1, idem |-> i1, print |-> f1], [key |-> k1, idem |-> i2, print |-> f1],
     [key |-> k1, idem |-> None, print |-> f1], [key |-> k1, idem |-> i1, print |-> f2],
     [key |-> k2, idem |-> i2, print |-> f1]}
SomeAnswers ==
    {[status |-> "skipped", findings |-> {}]}
    \cup {[status |-> "submitted", findings |-> f] : f \in {{"disagreement"}, {"security"}}}

ASSUME RecordsAssumption == S!StoreAssumption /\ L!ReplayAssumption /\ V!ReviewAssumption

-----------------------------------------------------------------------------
OnRunbook(A) == part = "runbook" /\ A /\ UNCHANGED <<part, jobs, leases, reviewing>>
OnJobs(A)    == part = "jobs"    /\ A /\ UNCHANGED <<part, vars, leases, reviewing>>
OnLeases(A)  == part = "leases"  /\ A /\ UNCHANGED <<part, vars, jobs, reviewing>>
OnReviews(A) == part = "reviews" /\ A /\ UNCHANGED <<part, vars, jobs, leases>>

(* A third review, of the kind that only judges, is begun when both others *)
(* are recorded: it is there to fill the list of cycles.                   *)
ThirdIsLast ==
    run[w3].at = "idle" /\ run'[w3].at # "idle" =>
        run'[w3].program = "cycle" /\ \A p \in Runs \ {w3} : run[p].at = "recorded"

OneRetry == \A i, j \in Jobs : i # j => retries'[i] + retries'[j] <= 1

RecordsInit == part \in {"runbook", "jobs", "leases", "reviews"} /\ Init /\ S!Init /\ L!Init /\ V!Init

RecordsNext ==
    \/ part = "runbook" /\ Next   /\ UNCHANGED <<part, jobs, leases, reviewing>>
    \/ part = "jobs"    /\ S!Next /\ OneRetry /\ UNCHANGED <<part, vars, leases, reviewing>>
    \/ part = "leases"  /\ L!Next /\ UNCHANGED <<part, vars, jobs, reviewing>>
    \/ part = "reviews" /\ V!Next /\ ThirdIsLast /\ UNCHANGED <<part, vars, jobs, leases>>

records == <<part, vars, jobs, leases, reviewing>>

(* One condition of the store and one of the leases with each of the       *)
(* runbook's: only one of the parts ever runs, so the weak (strong)        *)
(* fairness of their union is the weak (strong) fairness of that part's.   *)
Ends(w)     == OnJobs(\E to \in S!Statuses : S!Finish(w, to))
               \/ OnLeases(L!Effect(w) \/ L!CompleteReplayLease(w))
               \/ OnReviews(V!Proceed(w))
Takes(w, k) == OnJobs(S!ClaimNextJob(w))
               \/ OnLeases(\E o \in Owners, r \in Requests : r.key = k /\ L!Acquire(o, r))
Lapses(j, k) == OnJobs(S!ClaimLapses(j)) \/ OnLeases(L!Lapse(k))

RecordsFairness ==
    /\ WF_records(OnRunbook(Proceed) \/ Ends(w1))
    /\ WF_records(OnRunbook(Answer) \/ Ends(w2))
    /\ WF_records(OnRunbook(Call(FALSE)) \/ Lapses(1, k1))
    /\ WF_records(Lapses(2, k2) \/ OnReviews(V!Proceed(w3)))
    /\ SF_records(Takes(w1, k1)) /\ SF_records(Takes(w2, k2))

RecordsSpec == RecordsInit /\ [][RecordsNext]_records /\ RecordsFairness

-----------------------------------------------------------------------------
(* OperationalStore and ReplayLease: every start of a job and every effect *)
(* under a lease is accounted for.  ReviewLoop: the history adds up, loses *)
(* a cycle only to an overlapping run or, from its list, to the later ones *)
(* that fill it, and no candidate is called ready that was not reviewed.   *)
WorkIsAccounted ==
    /\ S!RunsAreAccounted
    /\ L!EffectsAreAccounted
    /\ V!HistoryAddsUp /\ V!LossesNeedOverlap /\ V!ReadyIsEarned

(* Whatever has ended stays so: a runbook's terminal checkpoint, the       *)
(* store's succeeded and dead jobs, and a completed lease, which only its  *)
(* last owner completes.                                                   *)
AllEndsAreFinal == EndsAreFinal /\ S!EndsStay /\ L!ResultsAreFinal

(* Everything begun ends: a runbook settles, no job runs for ever under a  *)
(* claim, every lease asked for is completed, and a review comes to its end. *)
AllWorkEnds == RunbookSettles /\ S!ClaimedRunsEnd /\ L!LeasesComplete /\ V!RunsEnd
=============================================================================
