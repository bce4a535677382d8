----------------------------- MODULE ReviewLoop ------------------------------
(***************************************************************************)
(* The three programs of the review cycle, run by hand and at any time:    *)
(* review_model_batch asks the planned reviewers one after another and     *)
(* keeps what it has in the batch file, from which another run resumes;    *)
(* review_cycle_run judges the reviews of that file; review_loop_supervisor*)
(* does both.  They share the batch file and the history, which a run      *)
(* reads when it plans and replaces when it ends.                          *)
(***************************************************************************)
EXTENDS Naturals, FiniteSets, Sequences

CONSTANTS
    Runs,                \* the runs that may be begun
    Roles,               \* reviewers of the roster
    Required,            \* those the slice's domains require
    MaxReviewers,        \* maxReviewers
    Harnesses,           \* the npm scripts of the plan
    Answers,             \* what a reviewer may answer
    MinReviews,          \* minReviewsForPush
    RequireDisagreement, \* requireDisagreement
    FailFast,            \* failFast
    MaxCycles,           \* the cycles the history lists; the code has 50
    MaxFaults            \* bound on faults

Findings == {"security", "critical", "split", "fixture", "disagreement"}

ReviewAssumption ==
    /\ Required \subseteq Roles /\ IsFiniteSet(Roles) /\ IsFiniteSet(Runs)
    /\ Answers \subseteq [status : {"skipped", "failed"}, findings : {{}}]
                       \cup [status : {"submitted"}, findings : SUBSET Findings]
    /\ MaxReviewers \in Nat \ {0} /\ MinReviews \in Nat /\ MaxFaults \in Nat
    /\ MaxCycles \in Nat \ {0, 1}
    /\ RequireDisagreement \in BOOLEAN /\ FailFast \in BOOLEAN

VARIABLES
    run,      \* what each run is at
    batch,    \* the reviews in model_review_batch_latest.json
    history,  \* review_cycle_history.json; no cycles and no counts when it cannot be parsed
    torn,     \* is the history file half written?
    asked,    \* ghost: the answers reviewers really gave
    during,   \* ghost: the runs that wrote the history after a run read it and before it wrote it
    lapses    \* faults so far

vars == <<run, batch, history, torn, asked, during, lapses>>

Statuses == {"submitted", "skipped", "failed"}
Programs == {"batch", "cycle", "supervisor"}
NoReviews == <<>>

(* The cycles listed, the oldest first, and the counts; of the cycles that *)
(* are counted, cut (a ghost) are those that are no longer listed.         *)
NoHistory == [cycles    |-> <<>>, cut |-> {},
              reviewers |-> [r \in Roles |-> [s \in Statuses |-> 0]],
              harnesses |-> [h \in Harnesses |-> [passed |-> 0, failed |-> 0]]]

Idle == [at |-> "idle", program |-> "none", assigned |-> {}, reviews |-> NoReviews,
         tests |-> <<>>, seen |-> NoHistory, blind |-> FALSE, verdict |-> "none", synthesis |-> "none"]

Init ==
    /\ run = [p \in Runs |-> Idle]
    /\ batch = NoReviews
    /\ history = NoHistory
    /\ torn = FALSE
    /\ asked = {}
    /\ during = [p \in Runs |-> {}]
    /\ lapses = 0

-----------------------------------------------------------------------------
At(p, place) == run[p].at = place

(* What a run leaves when it ends; its results matter no more, except as   *)
(* far as the history lists them.                                          *)
Over(how) == [Idle EXCEPT !.at = how]

Ended == {"recorded", "done", "dead"}

\* mutant: a skipped review counts as one
UsableIfNotFailed(reviews) == {r \in DOMAIN reviews : reviews[r].status # "failed"}

Usable(reviews) == {r \in DOMAIN reviews : reviews[r].status = "submitted"}

Reported(reviews, kinds) == \E r \in Usable(reviews) : reviews[r].findings \cap kinds # {}

AllPassed(tests) == \A h \in DOMAIN tests : tests[h] = "passed"

(* The findings that block, the gravest first, and what each one calls for.*)
Blocking     == <<"security", "critical", "split", "fixture">>
Consequences == <<"quarantine", "reject", "split", "fixture-required">>

(* The verdict over reviews of which `usable` count.                       *)
Reconcile(reviews, usable, tests) ==
    LET blocks == {i \in DOMAIN Blocking : Reported(reviews, {Blocking[i]})}
        enough == /\ usable >= MinReviews
                  /\ RequireDisagreement => Reported(reviews, {"disagreement"})
    IN  IF ~AllPassed(tests) THEN "fixture-required"
        ELSE IF blocks # {} THEN Consequences[CHOOSE i \in blocks : \A j \in blocks : i <= j]
        ELSE IF enough THEN "ready-for-push" ELSE "ready-for-review"

CycleVerdict(reviews, tests) == Reconcile(reviews, Cardinality(Usable(reviews)), tests)

(* The synthesis is given the batch and the cycle's receipt, each with the *)
(* same reviews, and counts them both.                                     *)
SynthesisVerdict(reviews, tests) == Reconcile(reviews, 2 * Cardinality(Usable(reviews)), tests)

\* mutant: the list of cycles starts again, the counts go on
RecordedAlone(h, p, reviews, tests) ==
    [cycles    |-> <<p>>, cut |-> h.cut,
     reviewers |-> [r \in Roles |-> [s \in Statuses |-> h.reviewers[r][s] +
                      (IF r \in DOMAIN reviews /\ reviews[r].status = s THEN 1 ELSE 0)]],
     harnesses |-> h.harnesses]

(* The history with one more cycle on it: the list keeps the latest, the   *)
(* counts go on.                                                           *)
Listed(h)  == {h.cycles[i] : i \in DOMAIN h.cycles}
Counted(h) == Listed(h) \cup h.cut

Kept(h) ==
    IF Len(h.cycles) < MaxCycles THEN h.cycles
    ELSE SubSeq(h.cycles, Len(h.cycles) - MaxCycles + 2, Len(h.cycles))

Recorded(h, p, reviews, tests) ==
    [cycles    |-> Append(Kept(h), p),
     cut       |-> h.cut \cup (IF Len(h.cycles) < MaxCycles THEN {}
                              ELSE {h.cycles[i] : i \in 1..(Len(h.cycles) - MaxCycles + 1)}),
     reviewers |-> [r \in Roles |-> [s \in Statuses |-> h.reviewers[r][s] +
                      (IF r \in DOMAIN reviews /\ reviews[r].status = s THEN 1 ELSE 0)]],
     harnesses |-> [k \in Harnesses |-> [o \in {"passed", "failed"} |-> h.harnesses[k][o] +
                      (IF k \in DOMAIN tests /\ tests[k] = o THEN 1 ELSE 0)]]]

Readable == IF torn THEN NoHistory ELSE history

Larger(a, b) == IF a >= b THEN a ELSE b

(* The required roles, filled up to maxReviewers by score.                 *)
Selections == {a \in SUBSET Roles :
                 /\ Required \subseteq a
                 /\ Cardinality(a) = Larger(Cardinality(Required),
                                      IF MaxReviewers < Cardinality(Roles)
                                      THEN MaxReviewers ELSE Cardinality(Roles))}

-----------------------------------------------------------------------------
(* A run reads the history and plans.  A batch may resume from the batch   *)
(* file: what is there for its own reviewers is not asked again, whether   *)
(* it was submitted, skipped or failed.  A cycle takes the file as it is.  *)
Begin(p) == \E program \in Programs, assigned \in Selections, resumes \in BOOLEAN :
    /\ At(p, "idle")
    /\ resumes => program = "batch"
    /\ run' = [run EXCEPT ![p] =
         [Idle EXCEPT !.at = CASE program = "batch" -> "open"
                               [] program = "cycle" -> "testing"
                               [] program = "supervisor" -> "asking",
                      !.program = program, !.assigned = assigned, !.seen = Readable,
                      !.blind = torn,
                      !.reviews = CASE program = "cycle" -> batch
                                    [] resumes -> [r \in DOMAIN batch \cap assigned |-> batch[r]]
                                    [] OTHER -> NoReviews]]
    /\ during' = [during EXCEPT ![p] = {}]
    /\ UNCHANGED <<batch, history, torn, asked, lapses>>

(* The batch file is replaced before the first reviewer is asked.          *)
Open(p) ==
    /\ At(p, "open")
    /\ batch' = run[p].reviews
    /\ run' = [run EXCEPT ![p].at = "asking"]
    /\ UNCHANGED <<history, torn, asked, during, lapses>>

Ask(p) == \E r \in Roles, answer \in Answers :
    LET reviews == [x \in DOMAIN run[p].reviews \cup {r} |-> IF x = r THEN answer ELSE run[p].reviews[x]]
    IN  /\ At(p, "asking")
        /\ r \in run[p].assigned \ DOMAIN run[p].reviews
        /\ run' = [run EXCEPT ![p].reviews = reviews]
        /\ asked' = asked \cup {<<r, answer>>}
        /\ batch' = IF run[p].program = "batch" THEN reviews ELSE batch
        /\ UNCHANGED <<history, torn, during, lapses>>

AllAsked(p) ==
    /\ At(p, "asking")
    /\ run[p].assigned \subseteq DOMAIN run[p].reviews
    /\ run' = [run EXCEPT ![p] = IF @.program = "batch" THEN Over("done")
                                                      ELSE [@ EXCEPT !.at = "testing"]]
    /\ batch' = IF run[p].program = "batch" THEN run[p].reviews ELSE batch
    /\ UNCHANGED <<history, torn, asked, during, lapses>>

Test(p) == \E h \in Harnesses, outcome \in {"passed", "failed"} :
    /\ At(p, "testing")
    /\ h \notin DOMAIN run[p].tests
    /\ run' = [run EXCEPT ![p].tests = [x \in DOMAIN @ \cup {h} |-> IF x = h THEN outcome ELSE @[x]],
                          ![p].at = IF FailFast /\ outcome = "failed" THEN "judging" ELSE @]
    /\ UNCHANGED <<batch, history, torn, asked, during, lapses>>

(* The reviews are reconciled; with --write a supervisor's receipts follow,*)
(* of which the first replaces the batch file.                             *)
Judge(p) == \E writes \in (IF run[p].program = "supervisor" THEN BOOLEAN ELSE {FALSE}) :
    /\ At(p, "judging") \/ (At(p, "testing") /\ DOMAIN run[p].tests = Harnesses)
    /\ run' = [run EXCEPT ![p].at = "judged",
                          ![p].verdict = CycleVerdict(run[p].reviews, run[p].tests),
                          ![p].synthesis = IF run[p].program = "supervisor"
                              THEN SynthesisVerdict(run[p].reviews, run[p].tests) ELSE "none"]
    /\ batch' = IF writes THEN run[p].reviews ELSE batch
    /\ UNCHANGED <<history, torn, asked, during, lapses>>

(* The history read at the start, with this cycle, replaces the file.      *)
Record(p) ==
    /\ At(p, "judged") \/ At(p, "copying")
    /\ history' = Recorded(run[p].seen, p, run[p].reviews, run[p].tests)
    /\ torn' = FALSE
    /\ during' = [q \in Runs |-> IF q = p \/ run[q].at \in Ended THEN during[q]
                                                       ELSE during[q] \cup {p}]
    /\ run' = [run EXCEPT ![p] = [Over("recorded") EXCEPT !.reviews = run[p].reviews,
                                       !.tests = run[p].tests, !.blind = run[p].blind]]
    /\ UNCHANGED <<batch, asked, lapses>>

(* --no-history, or a supervisor without --write-history.                  *)
Skip(p) ==
    /\ At(p, "judged")
    /\ run' = [run EXCEPT ![p] = Over("done")]
    /\ UNCHANGED <<batch, history, torn, asked, during, lapses>>

(* The rename of the temporary file is refused: it is copied over the old  *)
(* file, which for that time is neither the old nor the new.               *)
RenameRefused(p) ==
    /\ At(p, "judged") /\ lapses < MaxFaults
    /\ torn' = TRUE
    /\ run' = [run EXCEPT ![p].at = "copying"]
    /\ lapses' = lapses + 1
    /\ UNCHANGED <<batch, history, asked, during>>

Crash(p) ==
    /\ run[p].at \notin {"idle"} \cup Ended /\ lapses < MaxFaults
    /\ run' = [run EXCEPT ![p] = Over("dead")]
    /\ lapses' = lapses + 1
    /\ UNCHANGED <<batch, history, torn, asked, during>>

Proceed(p) == Open(p) \/ Ask(p) \/ AllAsked(p) \/ Test(p) \/ Judge(p) \/ Record(p) \/ Skip(p)

Next == \E p \in Runs : Begin(p) \/ Proceed(p) \/ RenameRefused(p) \/ Crash(p)

Spec == Init /\ [][Next]_vars /\ \A p \in Runs : WF_vars(Proceed(p))

-----------------------------------------------------------------------------
(* The file says of each reviewer and each harness what the cycles it has  *)
(* counted found, no more and no less, whatever runs overlapped or were    *)
(* lost: updateReviewCycleHistory counts a cycle when it lists it, and goes*)
(* on counting those the list no longer has, once it is full.              *)
HistoryAddsUp ==
    /\ \A r \in Roles, s \in Statuses : history.reviewers[r][s] =
         Cardinality({p \in Counted(history) : r \in DOMAIN run[p].reviews
                                               /\ run[p].reviews[r].status = s})
    /\ \A h \in Harnesses, o \in {"passed", "failed"} : history.harnesses[h][o] =
         Cardinality({p \in Counted(history) : h \in DOMAIN run[p].tests /\ run[p].tests[h] = o})
    /\ history.cut # {} => Len(history.cycles) = MaxCycles

(* A recorded cycle leaves the counts only because a run that had read it  *)
(* before wrote it after, or because the file was unreadable when another  *)
(* run began: the window is the whole of a review, not the write.  It      *)
(* leaves the list for one more reason, the cycles recorded after it.      *)
LossesNeedOverlap ==
    \A p \in Runs : At(p, "recorded") /\ p \notin Listed(history) =>
        \/ \E q \in Runs : At(q, "recorded") /\ (p \in during[q] \/ run[q].blind)
        \/ p \in history.cut /\ Len(history.cycles) = MaxCycles

(* A candidate is called ready for a push only after enough different      *)
(* reviewers have really answered it, none with a finding that blocks, and *)
(* every planned harness passed in this very run.  The synthesis counts    *)
(* each review twice, so half as many reviewers satisfy it.                *)
ReadyIsEarned ==
    \A p \in Runs :
        LET answered == {r \in DOMAIN run[p].reviews :
                           /\ run[p].reviews[r].status = "submitted"
                           /\ <<r, run[p].reviews[r]>> \in asked}
            clean == /\ ~Reported(run[p].reviews, {"security", "critical", "split", "fixture"})
                     /\ \A h \in Harnesses : h \in DOMAIN run[p].tests /\ run[p].tests[h] = "passed"
        IN  /\ run[p].verdict = "ready-for-push" => clean /\ Cardinality(answered) >= MinReviews
            /\ run[p].synthesis = "ready-for-push" => clean /\ 2 * Cardinality(answered) >= MinReviews
            /\ run[p].synthesis \notin {"none", run[p].verdict} =>
                 run[p].verdict = "ready-for-review" /\ run[p].synthesis = "ready-for-push"

(* A run that has begun ends: it is recorded, done, or its process died.   *)
RunsEnd == <>[](\A p \in Runs : run[p].at \in {"idle"} \cup Ended)
=============================================================================
