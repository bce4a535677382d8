--------------------------- MODULE JobQueueProofs ---------------------------
(***************************************************************************)
(* Proofs about JobQueue for any number of workers, jobs and faults: type  *)
(* correctness, that a non-READ job runs at most once, that a death is not *)
(* reported twice and that none goes unrecorded without a fault.  With one *)
(* worker process, for any number of jobs: no run goes uncounted and no job*)
(* is lost, whatever fails, and, unless Redis refuses a command it could   *)
(* have run, the hashes follow the lifecycle of D-0005.                    *)
(*                                                                         *)
(* After it what stands around the queue, each for all values of its       *)
(* constants: the tools a job runs, the rules of the core they consult, and*)
(* the operator's page, its panels and its chat; and last all of them side *)
(* by side, as MCWorker has them.                                          *)
(***************************************************************************)
EXTENDS MCWorker, Sequences, FiniteSetTheorems, TLAPS

FrameOK(f) == f \in FrameType /\ HasJobUnlessAtRest(f)

-----------------------------------------------------------------------------
(* Type correctness                                                        *)

(* A worker sent past an error by workerLoop or a catch block is in a      *)
(* legal frame.                                                            *)
LEMMA ErrorFrameOK ==
    ASSUME TypeOK, NEW w \in Workers, frame[w].pc \in AtRest \cup AtJob
    PROVE  FrameOK(ErrorFrame(w))
<1>1. frame[w] \in FrameType /\ HasJobUnlessAtRest(frame[w])
  BY DEF TypeOK
<1>2. \A p \in AtRest : FrameOK(Free(p))
  BY ConstantsAssumption DEF FrameOK, FrameType, Free, HasJobUnlessAtRest, AtRest, AtJob,
     OffRedis, Nothing, Bag
<1>3. FrameOK(NextEntry(w))
  BY <1>1, <1>2 DEF FrameOK, FrameType, Free, NextEntry, HasJobUnlessAtRest, AtRest
<1>4. CASE frame[w].pc \in {"markOk", "ackOk"}
  <2>1. ErrorFrame(w) = At(w, "caught")
    BY <1>4 DEF ErrorFrame
  <2> QED BY <1>1, <1>4, <2>1 DEF FrameOK, FrameType, At, HasJobUnlessAtRest, AtRest, AtJob,
             OffRedis
<1>5. CASE frame[w].pc \notin {"markOk", "ackOk"}
  <2>1. ErrorFrame(w) \in {NextEntry(w), Free("due"), Free("top")}
    BY <1>5, <1>1 DEF ErrorFrame
  <2> QED BY <1>2, <1>3, <2>1 DEF AtRest
<1> QED BY <1>4, <1>5

(* Sending a command keeps the workers' frames, connections and budgets    *)
(* well typed, whether its reply arrives or not.                           *)
LEMMA ReplyOK ==
    ASSUME TypeOK, NEW w \in Workers, NEW f, frame[w].pc \in AtRest \cup AtJob,
           FrameOK(f), Reply(w, f)
    PROVE  /\ frame' \in [Workers -> FrameType]
           /\ \A v \in Workers : HasJobUnlessAtRest(frame'[v])
           /\ linked' \in [Workers -> BOOLEAN]
           /\ budget' \in [Faults -> Nat]
<1>1. FrameOK(ErrorFrame(w))
  BY ErrorFrameOK
<1>2. \/ frame' = [frame EXCEPT ![w] = f] /\ UNCHANGED <<linked, budget>>
      \/ /\ frame' = [frame EXCEPT ![w] = ErrorFrame(w)]
         /\ linked' = [linked EXCEPT ![w] = FALSE]
         /\ budget["drop"] > 0 /\ budget' = [budget EXCEPT !["drop"] = @ - 1]
  BY DEF Reply, Spend
<1>3. budget' \in [Faults -> Nat]
  BY <1>2 DEF TypeOK, Faults
<1>4. linked' \in [Workers -> BOOLEAN]
  BY <1>2 DEF TypeOK
<1>5. frame' \in [Workers -> FrameType] /\ \A v \in Workers : HasJobUnlessAtRest(frame'[v])
  BY <1>1, <1>2 DEF TypeOK, FrameOK
<1> QED BY <1>3, <1>4, <1>5

(* The bags and frames the actions build are well typed.                   *)
LEMMA BagsOK ==
    ASSUME NEW b \in Bag, NEW j \in Jobs
    PROVE  /\ Put(b, j) \in Bag /\ Take(b, j) \in Bag
           /\ \A marked \in BOOLEAN : PutUnmarked(b, marked, j) \in Bag
BY DEF Put, Take, PutUnmarked, Bag

LEMMA FreeOK ==
    /\ Nothing \in Bag
    /\ \A p \in AtRest : FrameOK(Free(p))
    /\ \A b \in Bag : FrameOK([Free("rec") EXCEPT !.todo = b])
    /\ \A j \in Jobs : FrameOK([Free("fetch") EXCEPT !.job = j])
BY ConstantsAssumption DEF FrameOK, FrameType, Free, HasJobUnlessAtRest, AtRest, AtJob,
   OffRedis, Nothing, Bag

LEMMA AtOK ==
    ASSUME TypeOK, NEW w \in Workers, frame[w].pc \notin AtRest
    PROVE  /\ frame[w].job \in Jobs
           /\ FrameOK(NextEntry(w))
           /\ \A p \in AtJob \cup OffRedis : FrameOK(At(w, p))
           /\ \A p \in AtJob : FrameOK([At(w, p) EXCEPT !.noted = FALSE])
           /\ \A p \in AtJob, m, n \in Nat :
                 FrameOK([At(w, p) EXCEPT !.attempts = m, !.retries = n])
<1>1. frame[w] \in FrameType /\ HasJobUnlessAtRest(frame[w])
  BY DEF TypeOK
<1>2. frame[w].job \in Jobs
  BY <1>1 DEF FrameType, HasJobUnlessAtRest
<1>3. FrameOK(NextEntry(w))
  BY <1>1, FreeOK DEF FrameType, NextEntry
<1>4. ASSUME NEW p \in AtJob \cup OffRedis PROVE FrameOK(At(w, p)) /\ p \notin AtRest
  BY <1>1, <1>2, ConstantsAssumption DEF FrameOK, FrameType, At, HasJobUnlessAtRest, AtRest,
     AtJob, OffRedis
<1>5. ASSUME NEW p \in AtJob PROVE FrameOK([At(w, p) EXCEPT !.noted = FALSE])
  <2>1. FrameOK(At(w, p))
    BY <1>4
  <2> QED BY <2>1 DEF FrameOK, FrameType, HasJobUnlessAtRest
<1>6. ASSUME NEW p \in AtJob, NEW m \in Nat, NEW n \in Nat
      PROVE  FrameOK([At(w, p) EXCEPT !.attempts = m, !.retries = n])
  <2>1. FrameOK(At(w, p))
    BY <1>4
  <2> QED BY <2>1 DEF FrameOK, FrameType, HasJobUnlessAtRest
<1> QED BY <1>2, <1>3, <1>4, <1>5, <1>6

LEMMA RecoveryFrameOK ==
    ASSUME TypeOK, NEW w \in Workers, NEW j \in Jobs, frame[w].todo[j] > 0
    PROVE  FrameOK(RecoveryFrame(w, j))
<1> DEFINE left == [frame[w].todo EXCEPT ![j] = @ - 1]
<1>1. frame[w] \in FrameType
  BY DEF TypeOK
<1>2. left \in Bag
  BY <1>1 DEF FrameType, Bag
<1> DEFINE rest == [Free("rec") EXCEPT !.todo = left]
<1>3. FrameOK(rest)
  BY <1>2, FreeOK
<1>4. Verdict(j, hash[j]) \in AtJob \cup {"rec"}
  BY DEF Verdict, AtJob
<1>5. hash[j].noteMark \in BOOLEAN
  BY DEF TypeOK, HashType
<1>6. ASSUME NEW p \in AtJob PROVE FrameOK([rest EXCEPT !.pc = p, !.job = j, !.noted = hash[j].noteMark])
  BY <1>3, <1>5, ConstantsAssumption DEF FrameOK, FrameType, HasJobUnlessAtRest, AtRest, AtJob
<1> QED BY <1>3, <1>4, <1>6 DEF RecoveryFrame

(* A worker step whose frame is legal leaves only the lists, the hashes    *)
(* and the history to check.                                               *)
DataOK ==
    /\ ready \in Bag /\ processing \in Bag /\ dlq \in Bag /\ notes \in Bag
    /\ runs \in Bag /\ deaths \in Bag /\ enqueues \in Bag
    /\ delayed \subseteq Jobs /\ letters \subseteq Jobs
    /\ hash \in [Jobs -> HashType]

LocalOK ==
    /\ frame \in [Workers -> FrameType]
    /\ \A w \in Workers : HasJobUnlessAtRest(frame[w])
    /\ linked \in [Workers -> BOOLEAN]
    /\ budget \in [Faults -> Nat]

LEMMA TypeParts == /\ TypeOK <=> DataOK /\ LocalOK
                   /\ TypeOK' <=> DataOK' /\ LocalOK'
BY DEF TypeOK, DataOK, LocalOK

LEMMA ReplyLocal ==
    ASSUME TypeOK, NEW w \in Workers, NEW f, frame[w].pc \in AtRest \cup AtJob,
           FrameOK(f), Reply(w, f)
    PROVE  LocalOK'
BY ReplyOK DEF LocalOK

LEMMA MoveLocal ==
    ASSUME TypeOK, NEW w \in Workers, NEW f, FrameOK(f),
           frame' = [frame EXCEPT ![w] = f],
           linked' \in [Workers -> BOOLEAN], budget' \in [Faults -> Nat]
    PROVE  LocalOK'
BY DEF TypeOK, LocalOK, FrameOK

LEMMA SpendOK == ASSUME TypeOK, NEW f \in Faults, Spend(f) PROVE budget' \in [Faults -> Nat]
BY DEF TypeOK, Spend

LEMMA RecoveryType ==
    ASSUME TypeOK, NEW w \in Workers, Recovery(w)
    PROVE  TypeOK'
<1> USE DEF lists, history
<1>0. DataOK /\ LocalOK
  BY TypeParts
<1>1. CASE StartRecovery(w)
  <2>1. LocalOK'
    BY <1>1, <1>0, FreeOK, ReplyLocal DEF StartRecovery, DataOK, AtRest
  <2> QED BY <1>0, <1>1, <2>1, TypeParts DEF StartRecovery, DataOK
<1>2. CASE SkipRecovery(w) \/ RecoveryDone(w)
  <2>1. LocalOK'
    BY <1>2, <1>0, FreeOK, MoveLocal DEF SkipRecovery, RecoveryDone, LocalOK, AtRest
  <2> QED BY <1>0, <1>2, <2>1, TypeParts DEF SkipRecovery, RecoveryDone, DataOK
<1>3. CASE RecoverNext(w)
  <2>1. LocalOK'
    BY <1>3, RecoveryFrameOK, ReplyLocal DEF RecoverNext, AtRest
  <2> QED BY <1>0, <1>3, <2>1, TypeParts DEF RecoverNext, DataOK
<1>4. CASE Requeue(w)
  <2>1. LocalOK' /\ frame[w].job \in Jobs
    BY <1>4, AtOK, ReplyLocal DEF Requeue, AtRest, AtJob
  <2>2. DataOK'
    BY <1>0, <1>4, <2>1 DEF Requeue, DataOK, HashType, Statuses
  <2> QED BY <2>1, <2>2, TypeParts
<1>5. CASE Push(w)
  <2>1. LocalOK' /\ frame[w].job \in Jobs
    BY <1>5, AtOK, ReplyLocal DEF Push, AtRest, AtJob
  <2>2. DataOK'
    BY <1>0, <1>5, <2>1, BagsOK DEF Push, DataOK
  <2> QED BY <2>1, <2>2, TypeParts
<1> QED BY <1>1, <1>2, <1>3, <1>4, <1>5 DEF Recovery

(* The hash of a job that dies: markDead leaves its counts and every other *)
(* job's hash.                                                             *)
LEMMA DeadHash ==
    ASSUME hash \in [Jobs -> HashType], NEW w \in Workers, frame[w].job \in Jobs, MarkDead(w)
    PROVE  \E r \in HashType :
              /\ hash' = [hash EXCEPT ![frame[w].job] = r]
              /\ r.status = "dead" /\ r.attempts = hash[frame[w].job].attempts
              /\ r.retries = hash[frame[w].job].retries
<1>1. PICK j \in Jobs : j = frame[w].job
  OBVIOUS
<1>2. PICK h \in HashType : h = hash[j]
  BY <1>1
<1>3. PICK r : r = [h EXCEPT !.status = "dead", !.owner = None, !.lease = FALSE, !.dlqMark = FALSE, !.noteMark = FALSE]
  OBVIOUS
<1>4. r \in HashType /\ r.status = "dead" /\ r.attempts = h.attempts /\ r.retries = h.retries
  BY <1>2, <1>3 DEF HashType, Statuses
<1>5. hash' = [hash EXCEPT ![j].status = "dead", ![j].owner = None, ![j].lease = FALSE,
                           ![j].dlqMark = FALSE, ![j].noteMark = FALSE]
  BY <1>1 DEF MarkDead
<1>6. hash' = [hash EXCEPT ![j] = r]
  BY <1>1, <1>2, <1>3, <1>5
<1> QED BY <1>1, <1>2, <1>4, <1>6

LEMMA SharedType ==
    ASSUME TypeOK, NEW w \in Workers, Shared(w)
    PROVE  TypeOK'
<1> USE DEF lists, history
<1>0. DataOK /\ LocalOK
  BY TypeParts
<1>1. CASE MarkDead(w)
  <2>1. LocalOK' /\ frame[w].job \in Jobs
    BY <1>1, AtOK, ReplyLocal DEF MarkDead, AtRest, AtJob
  <2>2. hash' \in [Jobs -> HashType]
    <3>1. hash \in [Jobs -> HashType]
      BY <1>0 DEF DataOK
    <3>2. PICK r \in HashType : hash' = [hash EXCEPT ![frame[w].job] = r]
      BY <1>1, <2>1, <3>1, DeadHash
    <3> QED BY <2>1, <3>1, <3>2
  <2>3. deaths' \in Bag
    <3>1. deaths \in [Jobs -> Nat]
      BY <1>0 DEF DataOK, Bag
    <3>2. deaths' = [deaths EXCEPT ![frame[w].job] = @ + 1]
      BY <1>1 DEF MarkDead
    <3> QED BY <2>1, <3>1, <3>2 DEF Bag
  <2> QED BY <1>0, <1>1, <2>1, <2>2, <2>3, TypeParts DEF MarkDead, DataOK
<1>2. CASE FileDlq(w)
  <2>1. LocalOK' /\ frame[w].job \in Jobs
    BY <1>2, AtOK, ReplyLocal DEF FileDlq, AtRest, AtJob
  <2>2. hash' \in [Jobs -> HashType] /\ hash[frame[w].job].dlqMark \in BOOLEAN
    BY <1>0, <1>2, <2>1 DEF FileDlq, DataOK, HashType
  <2> QED BY <1>0, <1>2, <2>1, <2>2, BagsOK, TypeParts DEF FileDlq, DataOK
<1>3. CASE Notify(w)
  <2>1. LocalOK' /\ frame[w].job \in Jobs
    BY <1>3, AtOK, ReplyLocal DEF Notify, AtRest, AtJob
  <2>2. hash' \in [Jobs -> HashType] /\ hash[frame[w].job].noteMark \in BOOLEAN
    BY <1>0, <1>3, <2>1 DEF Notify, DataOK, HashType
  <2> QED BY <1>0, <1>3, <2>1, <2>2, BagsOK, TypeParts DEF Notify, DataOK
<1>4. CASE ScheduleRetry(w)
  <2>1. LocalOK' /\ frame[w].job \in Jobs
    BY <1>4, AtOK, ReplyLocal DEF ScheduleRetry, AtRest, AtJob
  <2> QED BY <1>0, <1>4, <2>1, TypeParts DEF ScheduleRetry, DataOK
<1>5. CASE Acknowledge(w)
  <2>1. LocalOK' /\ frame[w].job \in Jobs
    BY <1>5, AtOK, FreeOK, ReplyLocal DEF Acknowledge, AtRest, AtJob
  <2> QED BY <1>0, <1>5, <2>1, BagsOK, TypeParts DEF Acknowledge, DataOK
<1> QED BY <1>1, <1>2, <1>3, <1>4, <1>5 DEF Shared

LEMMA CycleType ==
    ASSUME TypeOK, NEW w \in Workers, Cycle(w)
    PROVE  TypeOK'
<1> USE DEF lists, history
<1>0. DataOK /\ LocalOK
  BY TypeParts
<1>1. ASSUME NEW due \in SUBSET delayed, MoveDueDelayed(w, due) PROVE TypeOK'
  <2>1. LocalOK'
    BY <1>1, FreeOK, ReplyLocal DEF MoveDueDelayed, AtRest
  <2>2. ready' \in Bag /\ delayed' \subseteq Jobs
    BY <1>0, <1>1 DEF MoveDueDelayed, DataOK, Bag
  <2> QED BY <1>0, <1>1, <2>1, <2>2, TypeParts DEF MoveDueDelayed, DataOK
<1>2. CASE ClaimNothing(w)
  <2>1. LocalOK'
    BY <1>2, FreeOK, ReplyLocal DEF ClaimNothing, AtRest
  <2> QED BY <1>0, <1>2, <2>1, TypeParts DEF ClaimNothing, DataOK
<1>3. ASSUME NEW j \in Jobs, ClaimStale(w, j) PROVE TypeOK'
  <2>1. LocalOK'
    BY <1>3, FreeOK, ReplyLocal DEF ClaimStale, AtRest
  <2> QED BY <1>0, <1>3, <2>1, BagsOK, TypeParts DEF ClaimStale, DataOK
<1>4. ASSUME NEW j \in Jobs, Claim(w, j) PROVE TypeOK'
  <2>1. LocalOK'
    BY <1>4, FreeOK, ReplyLocal DEF Claim, AtRest
  <2>2. hash' \in [Jobs -> HashType]
    BY <1>0, <1>4 DEF Claim, DataOK, HashType
  <2> QED BY <1>0, <1>4, <2>1, <2>2, BagsOK, TypeParts DEF Claim, DataOK
<1>5. CASE Fetch(w)
  <2>1. frame[w].job \in Jobs
    BY <1>5, AtOK DEF Fetch, AtRest
  <2>2. hash[frame[w].job].attempts + 1 \in Nat /\ hash[frame[w].job].retries \in Nat
    BY <1>0, <2>1 DEF DataOK, HashType
  <2>3. LocalOK'
    BY <1>5, <2>2, AtOK, ReplyLocal DEF Fetch, Attempt, AtRest, AtJob
  <2> QED BY <1>0, <1>5, <2>3, TypeParts DEF Fetch, DataOK
<1>6. CASE MarkRunning(w)
  <2>1. LocalOK' /\ frame[w].job \in Jobs
    BY <1>6, AtOK, ReplyLocal DEF MarkRunning, AtRest, AtJob, OffRedis
  <2>2. frame[w].attempts \in Nat
    BY <1>0 DEF LocalOK, FrameType
  <2>3. hash' \in [Jobs -> HashType]
    BY <1>0, <1>6, <2>1, <2>2 DEF MarkRunning, DataOK, HashType, Statuses
  <2> QED BY <1>0, <1>6, <2>1, <2>3, TypeParts DEF MarkRunning, DataOK
<1>7. CASE CallTool(w)
  <2>1. LocalOK' /\ frame[w].job \in Jobs
    BY <1>0, <1>7, AtOK, MoveLocal DEF CallTool, LocalOK, AtRest, OffRedis
  <2>2. runs' \in Bag
    BY <1>0, <1>7, <2>1 DEF CallTool, DataOK, Bag
  <2> QED BY <1>0, <1>7, <2>1, <2>2, TypeParts DEF CallTool, DataOK
<1>8. CASE ToolReturns(w)
  <2>1. LocalOK'
    BY <1>0, <1>8, AtOK, MoveLocal DEF ToolReturns, LocalOK, AtRest, AtJob, OffRedis
  <2> QED BY <1>0, <1>8, <2>1, TypeParts DEF ToolReturns, DataOK
<1>9. CASE MarkSucceeded(w)
  <2>1. LocalOK' /\ frame[w].job \in Jobs
    BY <1>9, AtOK, ReplyLocal DEF MarkSucceeded, AtRest, AtJob
  <2>2. hash' \in [Jobs -> HashType]
    BY <1>0, <1>9, <2>1, ConstantsAssumption DEF MarkSucceeded, DataOK, HashType, Statuses
  <2> QED BY <1>0, <1>9, <2>1, <2>2, TypeParts DEF MarkSucceeded, DataOK
<1>10. CASE CatchRetry(w)
  <2>1. LocalOK'
    BY <1>0, <1>10, AtOK, MoveLocal DEF CatchRetry, LocalOK, AtRest, AtJob
  <2> QED BY <1>0, <1>10, <2>1, TypeParts DEF CatchRetry, DataOK
<1>11. CASE CatchDead(w)
  <2>1. budget' \in [Faults -> Nat]
    BY <1>0, <1>11, SpendOK DEF CatchDead, LocalOK, Faults
  <2>2. LocalOK' /\ frame[w].job \in Jobs
    BY <1>0, <1>11, <2>1, AtOK, MoveLocal DEF CatchDead, LocalOK, AtRest, AtJob
  <2> QED BY <1>0, <1>11, <2>2, TypeParts DEF CatchDead, DataOK
<1>12. CASE MarkRetry(w)
  <2>1. LocalOK' /\ frame[w].job \in Jobs
    BY <1>12, AtOK, ReplyLocal DEF MarkRetry, AtRest, AtJob
  <2>2. frame[w].retries + 1 \in Nat
    BY <1>0 DEF LocalOK, FrameType
  <2>3. hash' \in [Jobs -> HashType]
    BY <1>0, <1>12, <2>1, <2>2 DEF MarkRetry, DataOK, HashType, Statuses
  <2> QED BY <1>0, <1>12, <2>1, <2>3, TypeParts DEF MarkRetry, DataOK
<1> QED BY <1>1, <1>2, <1>3, <1>4, <1>5, <1>6, <1>7, <1>8, <1>9, <1>10, <1>11, <1>12 DEF Cycle

LEMMA RejectedType ==
    ASSUME TypeOK, NEW w \in Workers, Rejected(w)
    PROVE  TypeOK'
<1>0. DataOK /\ LocalOK
  BY TypeParts
<1>1. FrameOK(ErrorFrame(w))
  BY ErrorFrameOK DEF Rejected
<1>2. budget' \in [Faults -> Nat] /\ linked' \in [Workers -> BOOLEAN]
  BY <1>0, SpendOK DEF Rejected, LocalOK, Faults
<1>3. LocalOK'
  BY <1>1, <1>2, MoveLocal DEF Rejected
<1> QED BY <1>0, <1>3, TypeParts DEF Rejected, DataOK, lists, history

LEMMA EnvironmentType ==
    ASSUME TypeOK,
           \/ \E j \in Jobs : Enqueue(j) \/ LeaseExpires(j)
           \/ \E w \in Workers : Renew(w) \/ Crash(w)
    PROVE  TypeOK'
<1> USE DEF lists, history, local
<1>0. DataOK /\ LocalOK
  BY TypeParts
<1>1. ASSUME NEW j \in Jobs, Enqueue(j) PROVE TypeOK'
  <2>0. /\ hash' = [hash EXCEPT ![j].status = "queued", ![j].attempts = 0, ![j].retries = 0,
                                ![j].dlqMark = FALSE, ![j].noteMark = FALSE]
        /\ enqueues' = [enqueues EXCEPT ![j] = @ + 1]
    BY <1>1 DEF Enqueue
  <2> DEFINE h == [hash[j] EXCEPT !.status = "queued", !.attempts = 0, !.retries = 0,
                                  !.dlqMark = FALSE, !.noteMark = FALSE]
  <2>1. hash' \in [Jobs -> HashType]
    <3>1. hash' = [hash EXCEPT ![j] = h]
      BY <1>0, <2>0, Zenon DEF DataOK
    <3>2. h \in HashType
      BY <1>0 DEF DataOK, HashType, Statuses
    <3> HIDE DEF h
    <3> QED BY <1>0, <3>1, <3>2 DEF DataOK
  <2>2. enqueues' \in Bag
    BY <1>0, <2>0 DEF DataOK, Bag
  <2> QED BY <1>0, <1>1, <2>1, <2>2, BagsOK, TypeParts DEF Enqueue, DataOK, LocalOK
<1>2. ASSUME NEW j \in Jobs, LeaseExpires(j) PROVE TypeOK'
  <2>1. hash' \in [Jobs -> HashType]
    BY <1>0, <1>2 DEF LeaseExpires, DataOK, HashType
  <2>2. budget' \in [Faults -> Nat]
    BY <1>0, <1>2, SpendOK DEF LeaseExpires, LocalOK, Faults
  <2> QED BY <1>0, <1>2, <2>1, <2>2, TypeParts DEF LeaseExpires, DataOK, LocalOK
<1>3. ASSUME NEW w \in Workers, Renew(w) PROVE TypeOK'
  <2>1. hash' \in [Jobs -> HashType]
    BY <1>0, <1>3 DEF Renew, DataOK, HashType
  <2> QED BY <1>0, <1>3, <2>1, TypeParts DEF Renew, DataOK, LocalOK
<1>4. ASSUME NEW w \in Workers, Crash(w) PROVE TypeOK'
  <2>1. budget' \in [Faults -> Nat] /\ linked' \in [Workers -> BOOLEAN]
    BY <1>0, <1>4, SpendOK DEF Crash, LocalOK, Faults
  <2>2. LocalOK'
    BY <1>4, <2>1, FreeOK, MoveLocal DEF Crash, AtRest
  <2> QED BY <1>0, <1>4, <2>2, TypeParts DEF Crash, DataOK
<1> QED BY <1>1, <1>2, <1>3, <1>4

(* Every variable keeps its type, and every worker that is about to act on *)
(* a job has one, for any number of workers, jobs and faults.              *)
THEOREM TypeCorrect == Spec => []TypeOK
<1>1. Init => TypeOK
  BY FreeOK, ConstantsAssumption DEF Init, TypeOK, HashType, Fresh, Statuses, FrameOK,
     AtRest, Bag, Nothing
<1>2. TypeOK /\ [Next]_vars => TypeOK'
  <2>1. ASSUME TypeOK, UNCHANGED vars PROVE TypeOK'
    BY <2>1 DEF TypeOK, vars, lists, local, history, HasJobUnlessAtRest
  <2> QED BY <2>1, RecoveryType, SharedType, CycleType, RejectedType, EnvironmentType
          DEF Next, Step
<1> QED BY <1>1, <1>2, PTL DEF Spec

-----------------------------------------------------------------------------
(* A non-READ job runs at most once                                        *)

LEMMA Fields ==
    ASSUME TypeOK, NEW w \in Workers
    PROVE  /\ \A p : At(w, p).pc = p /\ At(w, p).job = frame[w].job
           /\ \A p : Free(p).pc = p /\ Free(p).job = None
           /\ NextEntry(w).pc = "rec"
           /\ ErrorFrame(w).pc \in {"caught", "rec", "due", "top"}
<1>1. frame[w] \in FrameType
  BY DEF TypeOK
<1>2. \A p : At(w, p).pc = p /\ At(w, p).job = frame[w].job
  BY <1>1 DEF At, FrameType
<1>3. \A p : Free(p).pc = p /\ Free(p).job = None
  BY DEF Free
<1>4. NextEntry(w).pc = "rec"
  BY DEF NextEntry, Free
<1>5. At(w, "caught").pc = "caught" /\ Free("due").pc = "due" /\ Free("top").pc = "top"
  BY <1>2, <1>3
<1>6. ErrorFrame(w).pc \in {"caught", "rec", "due", "top"}
  BY <1>4, <1>5 DEF ErrorFrame
<1> QED BY <1>2, <1>3, <1>4, <1>6

(* A step of one worker that makes no ready entry of j, does not run it    *)
(* and does not bring the worker closer to a run or a replay of it.        *)
LEMMA QuietStep ==
    ASSUME TypeOK, NEW j \in Jobs, RunsOnce(j), NEW w \in Workers, NEW g,
           frame' = [frame EXCEPT ![w] = g],
           g.job = j => g.pc \notin ForReadsOnly,
           g.job = j /\ g.pc \in BeforeRun => AboutToRun(w, j),
           ready'[j] = ready[j] \/ ready'[j] = 0, runs'[j] = runs[j], enqueues'[j] = enqueues[j],
           j \notin delayed', hash'[j].status # "retry_scheduled"
    PROVE  RunsOnce(j)'
<1>1. \A v \in Workers : frame'[v] = IF v = w THEN g ELSE frame[v]
  BY DEF TypeOK
<1>2. \A v \in Workers : AboutToRun(v, j)' => AboutToRun(v, j)
  BY <1>1 DEF AboutToRun
<1>3. ready[j] \in Nat /\ runs[j] \in Nat
  BY DEF TypeOK, Bag
<1> QED BY <1>1, <1>2, <1>3 DEF RunsOnce

(* The same for a command and its reply.                                   *)
LEMMA QuietReply ==
    ASSUME TypeOK, NEW j \in Jobs, RunsOnce(j), NEW w \in Workers, NEW f, Reply(w, f),
           f.job = j => f.pc \notin ForReadsOnly,
           f.job = j /\ f.pc \in BeforeRun => AboutToRun(w, j),
           ready'[j] = ready[j] \/ ready'[j] = 0, runs'[j] = runs[j], enqueues'[j] = enqueues[j],
           j \notin delayed', hash'[j].status # "retry_scheduled"
    PROVE  RunsOnce(j)'
<1>1. CASE frame' = [frame EXCEPT ![w] = f]
  BY <1>1, QuietStep
<1>2. CASE frame' = [frame EXCEPT ![w] = ErrorFrame(w)]
  <2>1. ErrorFrame(w).pc \notin ForReadsOnly \cup BeforeRun
    BY Fields DEF ForReadsOnly, BeforeRun
  <2> QED BY <1>2, <2>1, QuietStep
<1> QED BY <1>1, <1>2 DEF Reply

LEMMA RecoveryOnce ==
    ASSUME TypeOK, NEW j \in Jobs \ Reads, RunsOnce(j), NEW w \in Workers, Recovery(w)
    PROVE  RunsOnce(j)'
<1> USE DEF lists, history
<1>a. j # None /\ (frame[w].pc \notin AtRest => frame[w].job \in Jobs)
  BY AtOK, ConstantsAssumption
<1>b. j \notin delayed /\ hash[j].status # "retry_scheduled"
      /\ (frame[w].job = j => frame[w].pc \notin ForReadsOnly)
  BY DEF RunsOnce
<1>c. hash \in [Jobs -> HashType]
  BY DEF TypeOK
<1>1. CASE StartRecovery(w)
  <2> DEFINE f == [Free("rec") EXCEPT !.todo = processing]
  <2>1. f.job = None
    BY DEF Free
  <2>2. Reply(w, f)
    BY <1>1 DEF StartRecovery
  <2> HIDE DEF f
  <2> QED BY <1>a, <1>b, <1>1, <2>1, <2>2, QuietReply DEF StartRecovery
<1>2. CASE SkipRecovery(w) \/ RecoveryDone(w)
  <2>1. Free("due").job = None
    BY DEF Free
  <2> QED BY <1>a, <1>b, <1>2, <2>1, QuietStep DEF SkipRecovery, RecoveryDone
<1>3. CASE RecoverNext(w)
  <2>1. PICK i \in Jobs : Reply(w, RecoveryFrame(w, i))
    BY <1>3 DEF RecoverNext
  <2> DEFINE f == RecoveryFrame(w, i)
  <2>2. f.job \in {None, i} /\ (f.job = i => f.pc = Verdict(i, hash[i]))
    BY <1>a, ConstantsAssumption DEF RecoveryFrame, Free
  <2>3. f.job = j => f.pc \notin ForReadsOnly \cup BeforeRun
    BY <1>a, <1>b, <2>2 DEF Verdict, ForReadsOnly, BeforeRun
  <2> HIDE DEF f
  <2> QED BY <1>b, <1>3, <2>1, <2>3, QuietReply DEF RecoverNext, f
<1>4. CASE Requeue(w) \/ Push(w)
  <2>1. frame[w].job # j /\ frame[w].job \in Jobs
    BY <1>a, <1>b, <1>4 DEF Requeue, Push, ForReadsOnly, AtRest
  <2>2. /\ hash'[j] = hash[j] /\ ready'[j] = ready[j]
        /\ runs' = runs /\ enqueues' = enqueues /\ delayed' = delayed
    BY <1>4, <1>c, <2>1 DEF Requeue, Push, Put, TypeOK, Bag
  <2>3. \E p \in {"push", "ack"} : Reply(w, At(w, p))
    BY <1>4 DEF Requeue, Push
  <2>4. \A p \in {"push", "ack"} : At(w, p).job = frame[w].job
    BY Fields
  <2> QED BY <1>b, <2>1, <2>2, <2>3, <2>4, QuietReply
<1> QED BY <1>1, <1>2, <1>3, <1>4 DEF Recovery

LEMMA SharedOnce ==
    ASSUME TypeOK, NEW j \in Jobs \ Reads, RunsOnce(j), NEW w \in Workers, Shared(w)
    PROVE  RunsOnce(j)'
<1> USE DEF lists, history
<1>a. j # None
  BY ConstantsAssumption
<1>b. j \notin delayed /\ hash[j].status # "retry_scheduled"
      /\ (frame[w].job = j => frame[w].pc \notin ForReadsOnly)
  BY DEF RunsOnce
<1>c. hash \in [Jobs -> HashType]
  BY DEF TypeOK
<1>d. ASSUME NEW p \in {"ack", "note", "dlq"}
      PROVE  At(w, p).pc \notin ForReadsOnly \cup BeforeRun
  BY Fields DEF ForReadsOnly, BeforeRun
<1>1. CASE MarkDead(w)
  <2> DEFINE f == [At(w, "dlq") EXCEPT !.noted = FALSE]
  <2>1. f.pc \notin ForReadsOnly \cup BeforeRun
    BY <1>d DEF At, TypeOK, FrameType
  <2>2. Reply(w, f) /\ ready' = ready /\ runs' = runs /\ enqueues' = enqueues /\ delayed' = delayed
    BY <1>1 DEF MarkDead
  <2>3. hash'[j].status # "retry_scheduled"
    BY <1>b, <1>c, <1>1 DEF MarkDead, HashType
  <2> HIDE DEF f
  <2> QED BY <1>b, <2>1, <2>2, <2>3, QuietReply
<1>2. CASE FileDlq(w) \/ Notify(w)
  <2>1. \E p \in {"ack", "note"} : Reply(w, At(w, p))
    BY <1>2 DEF FileDlq, Notify
  <2>2. ready' = ready /\ runs' = runs /\ enqueues' = enqueues /\ delayed' = delayed
    BY <1>2 DEF FileDlq, Notify
  <2>3. hash'[j].status # "retry_scheduled"
    BY <1>b, <1>c, <1>2 DEF FileDlq, Notify, HashType
  <2> QED BY <1>b, <1>d, <2>1, <2>2, <2>3, QuietReply
<1>3. CASE ScheduleRetry(w)
  <2>1. frame[w].job # j
    BY <1>b, <1>3 DEF ScheduleRetry, ForReadsOnly
  <2> QED BY <1>b, <1>d, <1>3, <2>1, QuietReply DEF ScheduleRetry
<1>4. CASE Acknowledge(w)
  <2> DEFINE f == IF frame[w].rec THEN NextEntry(w) ELSE Free("top")
  <2>1. f.pc \notin ForReadsOnly \cup BeforeRun
    BY Fields DEF ForReadsOnly, BeforeRun
  <2>2. Reply(w, f)
    BY <1>4 DEF Acknowledge
  <2> HIDE DEF f
  <2> QED BY <1>b, <1>4, <2>1, <2>2, QuietReply DEF Acknowledge
<1> QED BY <1>1, <1>2, <1>3, <1>4 DEF Shared

(* The claim moves the one ready entry to the one worker about to run it.  *)
LEMMA ClaimOnce ==
    ASSUME TypeOK, NEW j \in Jobs \ Reads, RunsOnce(j), NEW w \in Workers,
           NEW i \in Jobs, Claim(w, i)
    PROVE  RunsOnce(j)'
<1> USE DEF lists, history
<1>0. /\ ready \in Bag /\ runs \in Bag /\ enqueues \in Bag /\ hash \in [Jobs -> HashType]
      /\ frame \in [Workers -> FrameType] /\ j # None
  BY ConstantsAssumption DEF TypeOK
<1> DEFINE f == [Free("fetch") EXCEPT !.job = i]
<1>1. f.job = i /\ f.pc = "fetch"
  BY DEF Free
<1>2. Reply(w, f) /\ ready' = Take(ready, i) /\ runs' = runs /\ enqueues' = enqueues
      /\ delayed' = delayed /\ ready[i] > 0
  BY <1>0 DEF Claim
<1>3. hash'[j].status = hash[j].status
  BY <1>0 DEF Claim, HashType
<1> HIDE DEF f
<1>4. CASE i # j
  <2>1. ready'[j] = ready[j]
    BY <1>0, <1>2, <1>4 DEF Take, Bag
  <2> QED BY <1>1, <1>2, <1>3, <1>4, <2>1, QuietReply DEF RunsOnce
<1>5. CASE i = j
  <2>1. ready[j] = 1 /\ ready'[j] = 0 /\ runs[j] = 0 /\ runs'[j] = 0
    BY <1>0, <1>2, <1>5 DEF Take, Bag, RunsOnce
  <2>2. \A v \in Workers : ~AboutToRun(v, j)
    BY <2>1 DEF RunsOnce
  <2>3. \E g : frame' = [frame EXCEPT ![w] = g] /\ g.pc \notin ForReadsOnly
    BY <1>1, <1>2, Fields DEF Reply, ForReadsOnly
  <2>4. \A v \in Workers : v # w => frame'[v] = frame[v]
    BY <1>0, <2>3
  <2>5. frame'[w].pc \notin ForReadsOnly
    BY <1>0, <2>3
  <2>6. \A v \in Workers : AboutToRun(v, j)' => v = w
    BY <2>2, <2>4 DEF AboutToRun
  <2>7. enqueues[j] # 0 /\ enqueues'[j] = enqueues[j] /\ enqueues[j] <= 1
    BY <1>2, <2>1 DEF RunsOnce
  <2>8. j \notin delayed' /\ hash'[j].status # "retry_scheduled"
    BY <1>2, <1>3 DEF RunsOnce
  <2>9. \A v \in Workers : frame'[v].job = j => frame'[v].pc \notin ForReadsOnly
    BY <2>4, <2>5 DEF RunsOnce
  <2> QED BY <2>1, <2>6, <2>7, <2>8, <2>9 DEF RunsOnce
<1> QED BY <1>4, <1>5

LEMMA CallOnce ==
    ASSUME TypeOK, NEW j \in Jobs \ Reads, RunsOnce(j), NEW w \in Workers, CallTool(w)
    PROVE  RunsOnce(j)'
<1> USE DEF lists, history
<1>0. /\ ready \in Bag /\ runs \in Bag /\ frame \in [Workers -> FrameType]
  BY DEF TypeOK
<1>1. frame' = [frame EXCEPT ![w] = At(w, "exec")] /\ At(w, "exec").pc = "exec"
      /\ At(w, "exec").job = frame[w].job /\ frame[w].job \in Jobs /\ frame[w].pc = "call"
  BY Fields, AtOK DEF CallTool, AtRest
<1>2. ready' = ready /\ enqueues' = enqueues /\ delayed' = delayed /\ hash' = hash
      /\ runs' = [runs EXCEPT ![frame[w].job] = @ + 1]
  BY DEF CallTool
<1>3. CASE frame[w].job # j
  <2>1. runs'[j] = runs[j]
    BY <1>0, <1>1, <1>2, <1>3 DEF Bag
  <2> QED BY <1>1, <1>2, <1>3, <2>1, QuietStep DEF RunsOnce
<1>4. CASE frame[w].job = j
  <2>1. ready[j] = 0 /\ runs[j] = 0 /\ \A v \in Workers : AboutToRun(v, j) => v = w
    BY <1>1, <1>4 DEF RunsOnce, AboutToRun, BeforeRun
  <2>2. runs'[j] = 1 /\ ready'[j] = 0
    BY <1>0, <1>2, <1>4, <2>1 DEF Bag
  <2>3. \A v \in Workers : ~AboutToRun(v, j)'
    BY <1>0, <1>1, <2>1 DEF AboutToRun, BeforeRun
  <2>4. enqueues[j] # 0
    BY <1>1, <1>4 DEF RunsOnce, AboutToRun, BeforeRun
  <2>5. \A v \in Workers : frame'[v].job = j => frame'[v].pc \notin ForReadsOnly
    BY <1>0, <1>1 DEF RunsOnce, ForReadsOnly
  <2> QED BY <1>2, <2>2, <2>3, <2>4, <2>5 DEF RunsOnce
<1> QED BY <1>3, <1>4

LEMMA CycleOnce ==
    ASSUME TypeOK, NEW j \in Jobs \ Reads, RunsOnce(j), NEW w \in Workers, Cycle(w)
    PROVE  RunsOnce(j)'
<1> USE DEF lists, history
<1>a. j # None /\ (frame[w].pc \notin AtRest => frame[w].job \in Jobs)
  BY AtOK, ConstantsAssumption
<1>b. j \notin delayed /\ hash[j].status # "retry_scheduled"
      /\ (frame[w].job = j => frame[w].pc \notin ForReadsOnly)
  BY DEF RunsOnce
<1>c. /\ ready \in Bag /\ hash \in [Jobs -> HashType] /\ frame \in [Workers -> FrameType]
  BY DEF TypeOK
<1>1. ASSUME NEW due \in SUBSET delayed, MoveDueDelayed(w, due) PROVE RunsOnce(j)'
  <2>1. ready'[j] = ready[j] /\ j \notin delayed'
    BY <1>b, <1>1 DEF MoveDueDelayed
  <2> QED BY <1>a, <1>b, <1>1, <2>1, Fields, QuietReply DEF MoveDueDelayed
<1>2. CASE ClaimNothing(w)
  BY <1>a, <1>b, <1>2, Fields, QuietReply DEF ClaimNothing
<1>3. ASSUME NEW i \in Jobs, ClaimStale(w, i) PROVE RunsOnce(j)'
  <2>1. CASE i # j
    <3>1. ready'[j] = ready[j]
      BY <1>c, <1>3, <2>1 DEF ClaimStale, Take, Bag
    <3> QED BY <1>a, <1>b, <1>3, <3>1, Fields, QuietReply DEF ClaimStale
  <2>2. CASE i = j
    <3>1. ready'[j] = 0
      BY <1>c, <1>3, <2>2 DEF ClaimStale, Take, Bag, RunsOnce, TypeOK
    <3> QED BY <1>a, <1>b, <1>3, <3>1, Fields, QuietReply DEF ClaimStale
  <2> QED BY <2>1, <2>2
<1>4. CASE Fetch(w)
  <2> DEFINE h == hash[frame[w].job]
             f == IF h.status \in Terminal
                  THEN At(w, "ack")
                  ELSE [At(w, "start") EXCEPT !.attempts = Attempt(h), !.retries = h.retries]
  <2>1. f.job = frame[w].job /\ f.pc \notin ForReadsOnly
    BY <1>c DEF At, FrameType, ForReadsOnly
  <2>2. AboutToRun(w, frame[w].job)
    BY <1>4 DEF Fetch, AboutToRun, BeforeRun
  <2>3. Reply(w, f)
    BY <1>4 DEF Fetch
  <2> HIDE DEF f
  <2> QED BY <1>b, <1>4, <2>1, <2>2, <2>3, QuietReply DEF Fetch
<1>5. CASE MarkRunning(w)
  <2>1. hash'[j].status # "retry_scheduled"
    BY <1>b, <1>c, <1>5 DEF MarkRunning, HashType
  <2>2. AboutToRun(w, frame[w].job)
    BY <1>5 DEF MarkRunning, AboutToRun, BeforeRun
  <2>3. At(w, "call").pc \notin ForReadsOnly /\ At(w, "call").job = frame[w].job
    BY Fields DEF ForReadsOnly
  <2> QED BY <1>b, <1>5, <2>1, <2>2, <2>3, QuietReply DEF MarkRunning
<1>6. CASE ToolReturns(w)
  <2>1. \A p \in {"markOk", "caught"} : At(w, p).pc \notin ForReadsOnly \cup BeforeRun
    BY Fields DEF ForReadsOnly, BeforeRun
  <2> QED BY <1>b, <1>6, <2>1, QuietStep DEF ToolReturns
<1>7. CASE MarkSucceeded(w)
  <2>1. hash'[j].status # "retry_scheduled"
    BY <1>b, <1>c, <1>7 DEF MarkSucceeded, HashType
  <2>2. At(w, "ackOk").pc \notin ForReadsOnly \cup BeforeRun
    BY Fields DEF ForReadsOnly, BeforeRun
  <2> QED BY <1>b, <1>7, <2>1, <2>2, QuietReply DEF MarkSucceeded
<1>8. CASE CatchRetry(w)
  <2>1. At(w, "markRetry").job # j /\ frame' = [frame EXCEPT ![w] = At(w, "markRetry")]
    BY <1>8, Fields DEF CatchRetry, MayRetry
  <2> QED BY <1>b, <1>8, <2>1, QuietStep DEF CatchRetry
<1>9. CASE CatchDead(w)
  <2>1. At(w, "markDead").pc \notin ForReadsOnly \cup BeforeRun
    BY Fields DEF ForReadsOnly, BeforeRun
  <2> QED BY <1>b, <1>9, <2>1, QuietStep DEF CatchDead
<1>10. CASE MarkRetry(w)
  <2>1. frame[w].job # j /\ frame[w].job \in Jobs
    BY <1>a, <1>b, <1>10 DEF MarkRetry, ForReadsOnly, AtRest
  <2>2. hash'[j] = hash[j]
    BY <1>c, <1>10, <2>1 DEF MarkRetry
  <2>3. At(w, "zadd").job = frame[w].job
    BY Fields
  <2> QED BY <1>b, <1>10, <2>1, <2>2, <2>3, QuietReply DEF MarkRetry
<1> QED BY <1>1, <1>2, <1>3, <1>4, <1>5, <1>6, <1>7, <1>8, <1>9, <1>10, ClaimOnce, CallOnce
        DEF Cycle

LEMMA OthersOnce ==
    ASSUME TypeOK, NEW j \in Jobs \ Reads, RunsOnce(j),
           \/ \E i \in Jobs : Enqueue(i) \/ LeaseExpires(i)
           \/ \E w \in Workers : Rejected(w) \/ Renew(w) \/ Crash(w)
    PROVE  RunsOnce(j)'
<1> USE DEF lists, history, local
<1>a. j # None /\ j \notin delayed /\ hash[j].status # "retry_scheduled" /\ j \notin Renewable
  BY ConstantsAssumption DEF RunsOnce
<1>c. /\ ready \in Bag /\ enqueues \in Bag /\ runs \in Bag /\ hash \in [Jobs -> HashType]
      /\ frame \in [Workers -> FrameType]
  BY DEF TypeOK
<1>1. ASSUME NEW i \in Jobs, Enqueue(i) PROVE RunsOnce(j)'
  <2>1. frame' = frame /\ runs' = runs /\ delayed' = delayed
        /\ ready' = [ready EXCEPT ![i] = @ + 1] /\ enqueues' = [enqueues EXCEPT ![i] = @ + 1]
    BY <1>1 DEF Enqueue, Put
  <2> DEFINE h == [hash[i] EXCEPT !.status = "queued", !.attempts = 0, !.retries = 0,
                                  !.dlqMark = FALSE, !.noteMark = FALSE]
  <2>2. hash'[j].status # "retry_scheduled"
    <3>1. hash' = [hash EXCEPT ![i] = h]
      BY <1>c, <1>1, Zenon DEF Enqueue
    <3>2. h.status = "queued"
      BY <1>c DEF HashType
    <3> HIDE DEF h
    <3> QED BY <1>a, <1>c, <3>1, <3>2
  <2>3. \A w \in Workers : AboutToRun(w, j)' <=> AboutToRun(w, j)
    BY <2>1 DEF AboutToRun
  <2>4. CASE i # j
    <3>1. ready'[j] = ready[j] /\ enqueues'[j] = enqueues[j]
      BY <1>c, <2>1, <2>4 DEF Bag
    <3> QED BY <2>1, <2>2, <2>3, <3>1 DEF RunsOnce
  <2>5. CASE i = j
    <3>0. enqueues[i] < IF i \in Renewable THEN MaxEnqueues ELSE 1
      BY <1>1 DEF Enqueue
    <3>1. enqueues[j] = 0
      BY <1>a, <1>c, <2>5, <3>0 DEF Bag
    <3>2. ready[j] = 0 /\ runs[j] = 0 /\ \A w \in Workers : ~AboutToRun(w, j)
      BY <3>1 DEF RunsOnce
    <3>3. ready'[j] = 1 /\ enqueues'[j] = 1
      BY <1>c, <2>1, <2>5, <3>1, <3>2 DEF Bag
    <3> QED BY <2>1, <2>2, <2>3, <3>2, <3>3 DEF RunsOnce
  <2> QED BY <2>4, <2>5
<1>2. ASSUME NEW i \in Jobs, LeaseExpires(i) PROVE RunsOnce(j)'
  <2>1. hash'[j].status = hash[j].status
    BY <1>c, <1>2 DEF LeaseExpires, HashType
  <2> QED BY <1>2, <2>1 DEF LeaseExpires, RunsOnce, AboutToRun
<1>3. ASSUME NEW w \in Workers, Rejected(w) PROVE RunsOnce(j)'
  <2>1. ErrorFrame(w).pc \notin ForReadsOnly \cup BeforeRun
    BY Fields DEF ForReadsOnly, BeforeRun
  <2> QED BY <1>a, <1>3, <2>1, QuietStep DEF Rejected
<1>4. ASSUME NEW w \in Workers, Renew(w) PROVE RunsOnce(j)'
  <2>1. hash'[j].status = hash[j].status
    BY <1>c, <1>4 DEF Renew, HashType
  <2> QED BY <1>4, <2>1 DEF Renew, RunsOnce, AboutToRun
<1>5. ASSUME NEW w \in Workers, Crash(w) PROVE RunsOnce(j)'
  BY <1>a, <1>5, Fields, QuietStep DEF Crash
<1> QED BY <1>1, <1>2, <1>3, <1>4, <1>5

(* A job whose effect is not READ is executed at most once: with any       *)
(* number of workers, crashes, refused commands, lost replies, stalls and  *)
(* concurrent recovery passes.                                             *)
THEOREM NonReadRunsOnce == Spec => []NonReadAtMostOnce
<1>1. Init => OnceInv
  BY ConstantsAssumption DEF Init, OnceInv, RunsOnce, AboutToRun, Free, Fresh, Nothing, ForReadsOnly
<1>2. TypeOK /\ OnceInv /\ [Next]_vars => OnceInv'
  <2>1. ASSUME TypeOK, NEW j \in Jobs \ Reads, RunsOnce(j), Next PROVE RunsOnce(j)'
    BY <2>1, RecoveryOnce, SharedOnce, CycleOnce, OthersOnce DEF Next, Step
  <2>2. ASSUME NEW j \in Jobs \ Reads, RunsOnce(j), UNCHANGED vars PROVE RunsOnce(j)'
    BY <2>2 DEF RunsOnce, AboutToRun, vars, lists, local, history
  <2> QED BY <2>1, <2>2 DEF OnceInv
<1>3. TypeOK /\ OnceInv => NonReadAtMostOnce
  BY DEF TypeOK, OnceInv, RunsOnce, NonReadAtMostOnce, Bag
<1> QED BY <1>1, <1>2, <1>3, TypeCorrect, PTL DEF Spec

-----------------------------------------------------------------------------
(* No death is reported twice                                              *)

(* A marker that is not set stands for one report still allowed: the write *)
(* of "dead" resets it and allows one, the report sets it and uses it up,  *)
(* in one script.  A repeated enqueue resets the markers too, and allows   *)
(* one more.  The first enqueue does not, so the argument needs that no    *)
(* death precedes it: a job that was never enqueued is in no list and in   *)
(* no worker's hands.                                                      *)
Known(j) ==
    \/ ready[j] > 0 \/ processing[j] > 0 \/ j \in delayed \/ deaths[j] > 0
    \/ \E w \in Workers : frame[w].job = j \/ frame[w].todo[j] > 0

KnownInv == \A j \in Jobs : Known(j) => enqueues[j] > 0

Allowed(j) == deaths[j] + (IF enqueues[j] > 1 THEN enqueues[j] - 1 ELSE 0)

Reporting == {"dlq", "note"}

ReportInv(j) ==
    /\ hash[j].status = "dead" => deaths[j] > 0
    /\ \A w \in Workers : frame[w].job = j /\ frame[w].pc \in Reporting => deaths[j] > 0
    /\ notes[j] <= Allowed(j) /\ dlq[j] <= Allowed(j)
    /\ deaths[j] > 0 /\ ~hash[j].noteMark => notes[j] + 1 <= Allowed(j)
    /\ deaths[j] > 0 /\ ~hash[j].dlqMark => dlq[j] + 1 <= Allowed(j)

-----------------------------------------------------------------------------
(* A job nobody enqueued                                                   *)

LEMMA Todos ==
    ASSUME TypeOK, NEW w \in Workers
    PROVE  /\ \A p : At(w, p).todo = frame[w].todo
           /\ \A p : Free(p).todo = Nothing
           /\ NextEntry(w).todo = frame[w].todo /\ NextEntry(w).job = None
           /\ ErrorFrame(w).todo \in {frame[w].todo, Nothing}
           /\ ErrorFrame(w).job \in {frame[w].job, None}
<1>1. frame[w] \in FrameType
  BY DEF TypeOK
<1>2. \A p : At(w, p).todo = frame[w].todo /\ At(w, p).job = frame[w].job
  BY <1>1 DEF At, FrameType
<1>3. \A p : Free(p).todo = Nothing /\ Free(p).job = None
  BY DEF Free
<1>4. NextEntry(w).todo = frame[w].todo /\ NextEntry(w).job = None
  BY DEF NextEntry, Free
<1>5. ErrorFrame(w) \in {At(w, "caught"), NextEntry(w), Free("due"), Free("top")}
  BY DEF ErrorFrame
<1> QED BY <1>2, <1>3, <1>4, <1>5

LEMMA UnknownStep ==
    ASSUME TypeOK, NEW j \in Jobs, ~Known(j), NEW w \in Workers, NEW g,
           frame' = [frame EXCEPT ![w] = g], g.job # j, g.todo[j] = 0,
           ready'[j] = 0, processing'[j] = 0, deaths'[j] = 0, j \notin delayed'
    PROVE  ~Known(j)'
<1>1. \A v \in Workers : frame'[v] = IF v = w THEN g ELSE frame[v]
  BY DEF TypeOK
<1>2. \A v \in Workers : ~(frame'[v].job = j \/ frame'[v].todo[j] > 0)
  BY <1>1 DEF Known
<1> QED BY <1>2 DEF Known

LEMMA UnknownReply ==
    ASSUME TypeOK, NEW j \in Jobs, ~Known(j), NEW w \in Workers, NEW f, Reply(w, f),
           f.job # j, f.todo[j] = 0,
           ready'[j] = 0, processing'[j] = 0, deaths'[j] = 0, j \notin delayed'
    PROVE  ~Known(j)'
<1>1. CASE frame' = [frame EXCEPT ![w] = f]
  BY <1>1, UnknownStep
<1>2. CASE frame' = [frame EXCEPT ![w] = ErrorFrame(w)]
  <2>1. frame[w].job # j /\ j # None /\ frame[w] \in FrameType /\ ~(frame[w].todo[j] > 0)
    BY ConstantsAssumption DEF Known, TypeOK
  <2>2. frame[w].todo[j] = 0 /\ Nothing[j] = 0
    BY <2>1 DEF FrameType, Bag, Nothing
  <2>3. ErrorFrame(w).job # j /\ ErrorFrame(w).todo[j] = 0
    BY <2>1, <2>2, Todos
  <2> QED BY <1>2, <2>3, UnknownStep
<1> QED BY <1>1, <1>2 DEF Reply

(* What is known of an unknown job, in the form the steps need.            *)
LEMMA UnknownParts ==
    ASSUME TypeOK, NEW j \in Jobs, ~Known(j), NEW w \in Workers
    PROVE  /\ j # None /\ Nothing[j] = 0
           /\ ready[j] = 0 /\ processing[j] = 0 /\ deaths[j] = 0 /\ j \notin delayed
           /\ frame[w].job # j /\ frame[w].todo[j] = 0
           /\ \A p : /\ At(w, p).job # j /\ At(w, p).todo[j] = 0
                     /\ Free(p).job # j /\ Free(p).todo[j] = 0
           /\ NextEntry(w).job # j /\ NextEntry(w).todo[j] = 0
           /\ ErrorFrame(w).job # j /\ ErrorFrame(w).todo[j] = 0
<1>1. j # None /\ Nothing[j] = 0
  BY ConstantsAssumption DEF Nothing
<1>2. ready[j] = 0 /\ processing[j] = 0 /\ deaths[j] = 0 /\ j \notin delayed
  BY DEF Known, TypeOK, Bag
<1>3. frame[w] \in FrameType
  BY DEF TypeOK
<1>4. frame[w].todo[j] \in Nat
  BY <1>3 DEF FrameType, Bag
<1>5. frame[w].job # j /\ frame[w].todo[j] = 0
  BY <1>4 DEF Known
<1> QED BY <1>1, <1>2, <1>5, Todos, Fields

LEMMA UnknownRecovery ==
    ASSUME TypeOK, NEW j \in Jobs, ~Known(j), NEW w \in Workers, Recovery(w)
    PROVE  ~Known(j)'
<1> USE DEF lists, history
<1>0. /\ j # None /\ Nothing[j] = 0
      /\ ready[j] = 0 /\ processing[j] = 0 /\ deaths[j] = 0 /\ j \notin delayed
      /\ frame[w].job # j /\ frame[w].todo[j] = 0
      /\ \A p : At(w, p).job # j /\ At(w, p).todo[j] = 0
      /\ \A p : Free(p).job # j /\ Free(p).todo[j] = 0
  BY UnknownParts
<1>1. CASE StartRecovery(w)
  <2> DEFINE f == [Free("rec") EXCEPT !.todo = processing]
  <2>1. f.job # j /\ f.todo[j] = 0
    BY <1>0 DEF Free
  <2>2. Reply(w, f)
    BY <1>1 DEF StartRecovery
  <2> HIDE DEF f
  <2> QED BY <1>0, <1>1, <2>1, <2>2, UnknownReply DEF StartRecovery
<1>2. CASE SkipRecovery(w) \/ RecoveryDone(w)
  BY <1>0, <1>2, UnknownStep DEF SkipRecovery, RecoveryDone
<1>3. CASE RecoverNext(w)
  <2>1. PICK i \in Jobs : frame[w].todo[i] > 0 /\ Reply(w, RecoveryFrame(w, i))
    BY <1>3 DEF RecoverNext
  <2>2. i # j
    BY <1>0, <2>1
  <2>3. frame[w].todo \in Bag
    BY DEF TypeOK, FrameType
  <2> DEFINE f == RecoveryFrame(w, i)
             left == [frame[w].todo EXCEPT ![i] = @ - 1]
  <2>4. left[j] = 0
    BY <1>0, <2>2, <2>3 DEF Bag
  <2>5. f.job \in {None, i} /\ f.todo = left
    <3> HIDE DEF left
    <3>1. f = LET rest == [Free("rec") EXCEPT !.todo = left]
              IN  IF Verdict(i, hash[i]) = "rec" THEN rest
                  ELSE [rest EXCEPT !.pc = Verdict(i, hash[i]), !.job = i, !.noted = hash[i].noteMark]
      BY DEF RecoveryFrame, left
    <3> QED BY <3>1 DEF Free
  <2> HIDE DEF f, left
  <2> QED BY <1>0, <1>3, <2>1, <2>2, <2>4, <2>5, UnknownReply DEF RecoverNext, f
<1>4. CASE Requeue(w)
  BY <1>0, <1>4, UnknownReply DEF Requeue
<1>5. CASE Push(w)
  <2>1. ready'[j] = 0
    BY <1>0, <1>5 DEF Push, Put, TypeOK, Bag
  <2> QED BY <1>0, <1>5, <2>1, UnknownReply DEF Push
<1> QED BY <1>1, <1>2, <1>3, <1>4, <1>5 DEF Recovery

LEMMA UnknownShared ==
    ASSUME TypeOK, NEW j \in Jobs, ~Known(j), NEW w \in Workers, Shared(w)
    PROVE  ~Known(j)'
<1> USE DEF lists, history
<1>0. /\ ready[j] = 0 /\ processing[j] = 0 /\ deaths[j] = 0 /\ j \notin delayed
      /\ frame[w].job # j /\ frame[w].todo[j] = 0
      /\ \A p : At(w, p).job # j /\ At(w, p).todo[j] = 0
      /\ \A p : Free(p).job # j /\ Free(p).todo[j] = 0
      /\ NextEntry(w).job # j /\ NextEntry(w).todo[j] = 0
  BY UnknownParts
<1>1. CASE MarkDead(w)
  <2> DEFINE f == [At(w, "dlq") EXCEPT !.noted = FALSE]
  <2>1. f.job # j /\ f.todo[j] = 0
    BY <1>0 DEF At, TypeOK, FrameType
  <2>2. Reply(w, f)
    BY <1>1 DEF MarkDead
  <2>3. deaths'[j] = 0
    BY <1>0, <1>1 DEF MarkDead, TypeOK, Bag
  <2> HIDE DEF f
  <2> QED BY <1>0, <1>1, <2>1, <2>2, <2>3, UnknownReply DEF MarkDead
<1>2. CASE FileDlq(w)
  BY <1>0, <1>2, UnknownReply DEF FileDlq
<1>3. CASE Notify(w)
  BY <1>0, <1>3, UnknownReply DEF Notify
<1>4. CASE ScheduleRetry(w)
  BY <1>0, <1>4, UnknownReply DEF ScheduleRetry
<1>5. CASE Acknowledge(w)
  <2>1. processing'[j] = 0
    BY <1>0, <1>5 DEF Acknowledge, Take, TypeOK, Bag
  <2>2. \E f \in {NextEntry(w), Free("top")} : Reply(w, f)
    BY <1>5 DEF Acknowledge
  <2> QED BY <1>0, <1>5, <2>1, <2>2, UnknownReply DEF Acknowledge
<1> QED BY <1>1, <1>2, <1>3, <1>4, <1>5 DEF Shared

LEMMA UnknownCycle ==
    ASSUME TypeOK, NEW j \in Jobs, ~Known(j), NEW w \in Workers, Cycle(w)
    PROVE  ~Known(j)'
<1> USE DEF lists, history
<1>0. /\ ready[j] = 0 /\ processing[j] = 0 /\ deaths[j] = 0 /\ j \notin delayed
      /\ frame[w].job # j /\ frame[w].todo[j] = 0
      /\ \A p : At(w, p).job # j /\ At(w, p).todo[j] = 0
      /\ \A p : Free(p).job # j /\ Free(p).todo[j] = 0
  BY UnknownParts
<1>1. ASSUME NEW due \in SUBSET delayed, MoveDueDelayed(w, due) PROVE ~Known(j)'
  <2>1. ready'[j] = 0 /\ j \notin delayed'
    BY <1>0, <1>1 DEF MoveDueDelayed
  <2> QED BY <1>0, <1>1, <2>1, UnknownReply DEF MoveDueDelayed
<1>2. CASE ClaimNothing(w)
  BY <1>0, <1>2, UnknownReply DEF ClaimNothing
<1>3. ASSUME NEW i \in Jobs, ClaimStale(w, i) PROVE ~Known(j)'
  <2>1. ready'[j] = 0
    BY <1>0, <1>3 DEF ClaimStale, Take, TypeOK, Bag
  <2> QED BY <1>0, <1>3, <2>1, UnknownReply DEF ClaimStale
<1>4. ASSUME NEW i \in Jobs, Claim(w, i) PROVE ~Known(j)'
  <2>1. i # j
    BY <1>0, <1>4 DEF Claim
  <2>2. ready'[j] = 0 /\ processing'[j] = 0
    BY <1>0, <1>4, <2>1 DEF Claim, Take, Put, TypeOK, Bag
  <2> DEFINE f == [Free("fetch") EXCEPT !.job = i]
  <2>3. f.job # j /\ f.todo[j] = 0
    BY <1>0, <2>1 DEF Free
  <2>4. Reply(w, f)
    BY <1>4 DEF Claim
  <2> HIDE DEF f
  <2> QED BY <1>0, <1>4, <2>2, <2>3, <2>4, UnknownReply DEF Claim
<1>5. CASE Fetch(w)
  <2> DEFINE h == hash[frame[w].job]
             f == IF h.status \in Terminal
                  THEN At(w, "ack")
                  ELSE [At(w, "start") EXCEPT !.attempts = Attempt(h), !.retries = h.retries]
  <2>1. f.job # j /\ f.todo[j] = 0
    BY <1>0 DEF At, TypeOK, FrameType
  <2>2. Reply(w, f)
    BY <1>5 DEF Fetch
  <2> HIDE DEF f
  <2> QED BY <1>0, <1>5, <2>1, <2>2, UnknownReply DEF Fetch
<1>6. CASE MarkRunning(w) \/ MarkSucceeded(w) \/ MarkRetry(w)
  BY <1>0, <1>6, UnknownReply DEF MarkRunning, MarkSucceeded, MarkRetry
<1>7. CASE CallTool(w) \/ CatchRetry(w) \/ CatchDead(w)
  BY <1>0, <1>7, UnknownStep DEF CallTool, CatchRetry, CatchDead
<1>8. CASE ToolReturns(w)
  <2>1. PICK p \in {"markOk", "caught"} : frame' = [frame EXCEPT ![w] = At(w, p)]
    BY <1>8 DEF ToolReturns
  <2> QED BY <1>0, <1>8, <2>1, UnknownStep DEF ToolReturns
<1> QED BY <1>1, <1>2, <1>3, <1>4, <1>5, <1>6, <1>7, <1>8 DEF Cycle

LEMMA KnownStep ==
    ASSUME TypeOK, NEW j \in Jobs, Known(j) => enqueues[j] > 0, Next
    PROVE  Known(j)' => enqueues'[j] > 0
<1> USE DEF lists, history, local
<1>1. ASSUME NEW i \in Jobs, Enqueue(i) PROVE Known(j)' => enqueues'[j] > 0
  <2>1. enqueues' = [enqueues EXCEPT ![i] = @ + 1] /\ enqueues \in Bag
    BY <1>1 DEF Enqueue, TypeOK
  <2>2. CASE i = j
    BY <2>1, <2>2 DEF Bag
  <2>3. CASE i # j
    <3>1. ready'[j] = ready[j] /\ enqueues'[j] = enqueues[j]
      BY <1>1, <2>1, <2>3 DEF Enqueue, Put, TypeOK, Bag
    <3> QED BY <1>1, <3>1 DEF Enqueue, Known
  <2> QED BY <2>2, <2>3
<1>2. ASSUME NEW i \in Jobs, LeaseExpires(i) PROVE Known(j)' => enqueues'[j] > 0
  BY <1>2 DEF LeaseExpires, Known
<1>3. ASSUME NEW w \in Workers, Renew(w) PROVE Known(j)' => enqueues'[j] > 0
  BY <1>3 DEF Renew, Known
<1>4. ASSUME NEW w \in Workers, Step(w) \/ Crash(w) PROVE Known(j)' => enqueues'[j] > 0
  <2>1. enqueues' = enqueues
    BY <1>4 DEF Step, Crash, Recovery, Shared, Cycle, Rejected, StartRecovery, SkipRecovery,
       RecoverNext, RecoveryDone, Requeue, Push, MarkDead, FileDlq, Notify, ScheduleRetry,
       Acknowledge, MoveDueDelayed, ClaimNothing, ClaimStale, Claim, Fetch, MarkRunning, CallTool,
       ToolReturns, MarkSucceeded, CatchRetry, CatchDead, MarkRetry
  <2>2. ASSUME ~Known(j), Rejected(w) \/ Crash(w) PROVE ~Known(j)'
    BY <2>2, UnknownParts, UnknownStep DEF Rejected, Crash
  <2> QED BY <1>4, <2>1, <2>2, UnknownRecovery, UnknownShared, UnknownCycle DEF Step
<1> QED BY <1>1, <1>2, <1>3, <1>4 DEF Next

-----------------------------------------------------------------------------
(* Reports and markers                                                     *)

(* A step of one worker that reports nothing about j, resets none of its   *)
(* markers and does not bring a worker closer to reporting it.             *)
LEMMA SilentStep ==
    ASSUME TypeOK, NEW j \in Jobs, ReportInv(j), NEW w \in Workers, NEW g,
           frame' = [frame EXCEPT ![w] = g],
           g.job = j /\ g.pc \in Reporting => deaths[j] > 0,
           hash'[j].status = "dead" => deaths[j] > 0,
           hash'[j].dlqMark = hash[j].dlqMark, hash'[j].noteMark = hash[j].noteMark,
           deaths'[j] = deaths[j], enqueues'[j] = enqueues[j],
           notes'[j] = notes[j], dlq'[j] = dlq[j]
    PROVE  ReportInv(j)'
<1>1. \A v \in Workers : frame'[v] = IF v = w THEN g ELSE frame[v]
  BY DEF TypeOK
<1>2. \A v \in Workers : frame'[v].job = j /\ frame'[v].pc \in Reporting => deaths'[j] > 0
  BY <1>1 DEF ReportInv
<1>3. Allowed(j)' = Allowed(j)
  BY DEF Allowed
<1> QED BY <1>2, <1>3 DEF ReportInv

LEMMA SilentReply ==
    ASSUME TypeOK, NEW j \in Jobs, ReportInv(j), NEW w \in Workers, NEW f, Reply(w, f),
           f.job = j /\ f.pc \in Reporting => deaths[j] > 0,
           hash'[j].status = "dead" => deaths[j] > 0,
           hash'[j].dlqMark = hash[j].dlqMark, hash'[j].noteMark = hash[j].noteMark,
           deaths'[j] = deaths[j], enqueues'[j] = enqueues[j],
           notes'[j] = notes[j], dlq'[j] = dlq[j]
    PROVE  ReportInv(j)'
<1>1. CASE frame' = [frame EXCEPT ![w] = f]
  BY <1>1, SilentStep
<1>2. CASE frame' = [frame EXCEPT ![w] = ErrorFrame(w)]
  <2>1. ErrorFrame(w).pc \notin Reporting
    BY Fields DEF Reporting
  <2> QED BY <1>2, <2>1, SilentStep
<1> QED BY <1>1, <1>2 DEF Reply

LEMMA RecoverySilent ==
    ASSUME TypeOK, NEW j \in Jobs, ReportInv(j), NEW w \in Workers, Recovery(w)
    PROVE  ReportInv(j)'
<1> USE DEF lists, history
<1>0. hash \in [Jobs -> HashType] /\ (hash[j].status = "dead" => deaths[j] > 0)
  BY DEF TypeOK, ReportInv
<1>1. CASE StartRecovery(w)
  <2> DEFINE f == [Free("rec") EXCEPT !.todo = processing]
  <2>1. f.pc \notin Reporting
    BY DEF Free, Reporting
  <2>2. Reply(w, f)
    BY <1>1 DEF StartRecovery
  <2> HIDE DEF f
  <2> QED BY <1>0, <1>1, <2>1, <2>2, SilentReply DEF StartRecovery
<1>2. CASE SkipRecovery(w) \/ RecoveryDone(w)
  <2>1. Free("due").pc \notin Reporting
    BY Fields DEF Reporting
  <2> QED BY <1>0, <1>2, <2>1, SilentStep DEF SkipRecovery, RecoveryDone
<1>3. CASE RecoverNext(w)
  <2>1. PICK i \in Jobs : Reply(w, RecoveryFrame(w, i))
    BY <1>3 DEF RecoverNext
  <2> DEFINE f == RecoveryFrame(w, i)
  <2>2. f.job \in {None, i} /\ (f.job = i => f.pc = Verdict(i, hash[i]))
    BY ConstantsAssumption DEF RecoveryFrame, Free
  <2>3. f.job = j /\ f.pc \in Reporting => deaths[j] > 0
    BY <1>0, <2>2, ConstantsAssumption DEF Verdict, Reporting
  <2> HIDE DEF f
  <2> QED BY <1>0, <1>3, <2>1, <2>3, SilentReply DEF RecoverNext, f
<1>4. CASE Requeue(w)
  <2>1. At(w, "push").pc \notin Reporting
    BY Fields DEF Reporting
  <2>2. /\ hash'[j].status = "dead" => hash[j].status = "dead"
        /\ hash'[j].dlqMark = hash[j].dlqMark /\ hash'[j].noteMark = hash[j].noteMark
    BY <1>0, <1>4 DEF Requeue, HashType
  <2> QED BY <1>0, <1>4, <2>1, <2>2, SilentReply DEF Requeue
<1>5. CASE Push(w)
  <2>1. At(w, "ack").pc \notin Reporting
    BY Fields DEF Reporting
  <2> QED BY <1>0, <1>5, <2>1, SilentReply DEF Push
<1> QED BY <1>1, <1>2, <1>3, <1>4, <1>5 DEF Recovery

(* The write of "dead" allows one report of each kind and resets both      *)
(* markers.                                                                *)
LEMMA DeathAllows ==
    ASSUME TypeOK, NEW j \in Jobs, ReportInv(j), NEW w \in Workers, MarkDead(w)
    PROVE  ReportInv(j)'
<1> USE DEF lists
<1> DEFINE f == [At(w, "dlq") EXCEPT !.noted = FALSE]
<1>0. /\ hash \in [Jobs -> HashType] /\ deaths \in Bag /\ enqueues \in Bag
      /\ notes \in Bag /\ dlq \in Bag /\ frame \in [Workers -> FrameType]
  BY DEF TypeOK
<1>1. Reply(w, f) /\ deaths' = [deaths EXCEPT ![frame[w].job] = @ + 1]
      /\ notes' = notes /\ dlq' = dlq /\ enqueues' = enqueues
  BY DEF MarkDead
<1>2. f.job = frame[w].job
  BY <1>0 DEF At, FrameType
<1> HIDE DEF f
<1>3. CASE frame[w].job # j
  <2>1. hash'[j] = hash[j] /\ deaths'[j] = deaths[j]
    BY <1>0, <1>1, <1>3 DEF MarkDead, Bag
  <2> QED BY <1>1, <1>2, <1>3, <2>1, SilentReply DEF ReportInv
<1>4. CASE frame[w].job = j
  <2>1. deaths'[j] = deaths[j] + 1 /\ deaths'[j] > 0
    BY <1>0, <1>1, <1>4 DEF Bag
  <2>2. Allowed(j)' = Allowed(j) + 1 /\ Allowed(j) \in Nat
    BY <1>0, <1>1, <2>1 DEF Allowed, Bag
  <2>3. notes[j] <= Allowed(j) /\ dlq[j] <= Allowed(j) /\ notes[j] \in Nat /\ dlq[j] \in Nat
    BY <1>0 DEF ReportInv, Bag
  <2> QED BY <1>1, <2>1, <2>2, <2>3 DEF ReportInv
<1> QED BY <1>3, <1>4

(* A report sets its marker in the same step, and needs it unset.          *)
LEMMA DlqUsesUp ==
    ASSUME TypeOK, NEW j \in Jobs, ReportInv(j), NEW w \in Workers, FileDlq(w)
    PROVE  ReportInv(j)'
<1> USE DEF lists, history
<1>0. /\ hash \in [Jobs -> HashType] /\ deaths \in Bag /\ enqueues \in Bag
      /\ notes \in Bag /\ dlq \in Bag
  BY DEF TypeOK
<1>1. PICK p \in {"ack", "note"} : Reply(w, At(w, p))
  BY DEF FileDlq
<1>2. /\ hash' = [hash EXCEPT ![frame[w].job].dlqMark = TRUE]
      /\ dlq' = PutUnmarked(dlq, hash[frame[w].job].dlqMark, frame[w].job)
      /\ notes' = notes /\ deaths' = deaths /\ enqueues' = enqueues /\ frame[w].pc = "dlq"
  BY DEF FileDlq
<1>3. CASE frame[w].job # j
  <2>1. hash'[j] = hash[j] /\ dlq'[j] = dlq[j]
    BY <1>0, <1>2, <1>3 DEF PutUnmarked, Put, Bag
  <2>2. At(w, p).job # j
    BY <1>3, Fields
  <2> QED BY <1>1, <1>2, <2>1, <2>2, SilentReply DEF ReportInv
<1>4. CASE frame[w].job = j
  <2>1. deaths[j] > 0
    BY <1>2, <1>4 DEF ReportInv, Reporting
  <2>2. Allowed(j)' = Allowed(j) /\ Allowed(j) \in Nat
    BY <1>0, <1>2 DEF Allowed, Bag
  <2>3. hash'[j].dlqMark = TRUE /\ hash'[j].noteMark = hash[j].noteMark
    BY <1>0, <1>2, <1>4 DEF HashType
  <2>4. dlq'[j] <= Allowed(j)
    BY <1>0, <1>2, <1>4, <2>1, <2>2 DEF ReportInv, PutUnmarked, Put, Bag
  <2> QED BY <1>2, <2>1, <2>2, <2>3, <2>4 DEF ReportInv
<1> QED BY <1>3, <1>4

LEMMA NoteUsesUp ==
    ASSUME TypeOK, NEW j \in Jobs, ReportInv(j), NEW w \in Workers, Notify(w)
    PROVE  ReportInv(j)'
<1> USE DEF lists, history
<1>0. /\ hash \in [Jobs -> HashType] /\ deaths \in Bag /\ enqueues \in Bag
      /\ notes \in Bag /\ dlq \in Bag
  BY DEF TypeOK
<1>1. Reply(w, At(w, "ack"))
  BY DEF Notify
<1>2. /\ hash' = [hash EXCEPT ![frame[w].job].noteMark = TRUE]
      /\ notes' = PutUnmarked(notes, hash[frame[w].job].noteMark, frame[w].job)
      /\ dlq' = dlq /\ deaths' = deaths /\ enqueues' = enqueues /\ frame[w].pc = "note"
  BY DEF Notify
<1>3. CASE frame[w].job # j
  <2>1. hash'[j] = hash[j] /\ notes'[j] = notes[j]
    BY <1>0, <1>2, <1>3 DEF PutUnmarked, Put, Bag
  <2>2. At(w, "ack").job # j
    BY <1>3, Fields
  <2> QED BY <1>1, <1>2, <2>1, <2>2, SilentReply DEF ReportInv
<1>4. CASE frame[w].job = j
  <2>1. deaths[j] > 0
    BY <1>2, <1>4 DEF ReportInv, Reporting
  <2>2. Allowed(j)' = Allowed(j) /\ Allowed(j) \in Nat
    BY <1>0, <1>2 DEF Allowed, Bag
  <2>3. hash'[j].noteMark = TRUE /\ hash'[j].dlqMark = hash[j].dlqMark
    BY <1>0, <1>2, <1>4 DEF HashType
  <2>4. notes'[j] <= Allowed(j)
    BY <1>0, <1>2, <1>4, <2>1, <2>2 DEF ReportInv, PutUnmarked, Put, Bag
  <2> QED BY <1>2, <2>1, <2>2, <2>3, <2>4 DEF ReportInv
<1> QED BY <1>3, <1>4

LEMMA SharedReports ==
    ASSUME TypeOK, NEW j \in Jobs, ReportInv(j), NEW w \in Workers, Shared(w)
    PROVE  ReportInv(j)'
<1> USE DEF lists, history
<1>1. CASE ScheduleRetry(w)
  <2>1. At(w, "ack").pc \notin Reporting
    BY Fields DEF Reporting
  <2> QED BY <1>1, <2>1, SilentReply DEF ScheduleRetry, ReportInv
<1>2. CASE Acknowledge(w)
  <2>1. NextEntry(w).pc \notin Reporting /\ Free("top").pc \notin Reporting
    BY Fields DEF Reporting
  <2>2. \E f \in {NextEntry(w), Free("top")} : Reply(w, f)
    BY <1>2 DEF Acknowledge
  <2> QED BY <1>2, <2>1, <2>2, SilentReply DEF Acknowledge, ReportInv
<1> QED BY <1>1, <1>2, DeathAllows, DlqUsesUp, NoteUsesUp DEF Shared

LEMMA CycleSilent ==
    ASSUME TypeOK, NEW j \in Jobs, ReportInv(j), NEW w \in Workers, Cycle(w)
    PROVE  ReportInv(j)'
<1> USE DEF lists, history
<1>0. hash \in [Jobs -> HashType] /\ (hash[j].status = "dead" => deaths[j] > 0)
  BY DEF TypeOK, ReportInv
<1>a. \A p \in {"claim", "top", "ack", "call", "exec", "markOk", "caught", "ackOk", "markRetry",
                "zadd", "markDead"} : At(w, p).pc \notin Reporting /\ Free(p).pc \notin Reporting
  BY Fields DEF Reporting
<1>1. ASSUME NEW due \in SUBSET delayed, MoveDueDelayed(w, due) PROVE ReportInv(j)'
  BY <1>0, <1>a, <1>1, SilentReply DEF MoveDueDelayed
<1>2. CASE ClaimNothing(w)
  BY <1>0, <1>a, <1>2, SilentReply DEF ClaimNothing
<1>3. ASSUME NEW i \in Jobs, ClaimStale(w, i) PROVE ReportInv(j)'
  BY <1>0, <1>a, <1>3, SilentReply DEF ClaimStale
<1>4. ASSUME NEW i \in Jobs, Claim(w, i) PROVE ReportInv(j)'
  <2> DEFINE f == [Free("fetch") EXCEPT !.job = i]
  <2>1. f.pc \notin Reporting
    BY DEF Free, Reporting
  <2>2. Reply(w, f)
    BY <1>4 DEF Claim
  <2>3. /\ hash'[j].status = hash[j].status
        /\ hash'[j].dlqMark = hash[j].dlqMark /\ hash'[j].noteMark = hash[j].noteMark
    BY <1>0, <1>4 DEF Claim, HashType
  <2> HIDE DEF f
  <2> QED BY <1>0, <1>4, <2>1, <2>2, <2>3, SilentReply DEF Claim
<1>5. CASE Fetch(w)
  <2> DEFINE h == hash[frame[w].job]
             f == IF h.status \in Terminal
                  THEN At(w, "ack")
                  ELSE [At(w, "start") EXCEPT !.attempts = Attempt(h), !.retries = h.retries]
  <2>1. f.pc \notin Reporting
    BY DEF At, TypeOK, FrameType, Reporting
  <2>2. Reply(w, f)
    BY <1>5 DEF Fetch
  <2> HIDE DEF f
  <2> QED BY <1>0, <1>5, <2>1, <2>2, SilentReply DEF Fetch
<1>6. CASE MarkRunning(w) \/ MarkSucceeded(w) \/ MarkRetry(w)
  <2>1. /\ hash'[j].status = "dead" => hash[j].status = "dead"
        /\ hash'[j].dlqMark = hash[j].dlqMark /\ hash'[j].noteMark = hash[j].noteMark
    <3>1. CASE MarkRunning(w)
      BY <1>0, <3>1 DEF MarkRunning, HashType
    <3>2. CASE MarkSucceeded(w)
      BY <1>0, <3>2 DEF MarkSucceeded, HashType
    <3>3. CASE MarkRetry(w)
      BY <1>0, <3>3 DEF MarkRetry, HashType
    <3> QED BY <1>6, <3>1, <3>2, <3>3
  <2>2. \E p \in {"call", "ackOk", "zadd"} : Reply(w, At(w, p))
    BY <1>6 DEF MarkRunning, MarkSucceeded, MarkRetry
  <2>3. notes' = notes /\ dlq' = dlq /\ deaths' = deaths /\ enqueues' = enqueues
    BY <1>6 DEF MarkRunning, MarkSucceeded, MarkRetry
  <2> QED BY <1>0, <1>a, <2>1, <2>2, <2>3, SilentReply
<1>7. CASE CallTool(w) \/ ToolReturns(w) \/ CatchRetry(w) \/ CatchDead(w)
  <2>1. \E p \in {"exec", "markOk", "caught", "markRetry", "markDead"} :
           frame' = [frame EXCEPT ![w] = At(w, p)]
    BY <1>7 DEF CallTool, ToolReturns, CatchRetry, CatchDead
  <2>2. hash' = hash /\ notes' = notes /\ dlq' = dlq /\ deaths' = deaths /\ enqueues' = enqueues
    BY <1>7 DEF CallTool, ToolReturns, CatchRetry, CatchDead
  <2> QED BY <1>0, <1>a, <2>1, <2>2, SilentStep
<1> QED BY <1>1, <1>2, <1>3, <1>4, <1>5, <1>6, <1>7 DEF Cycle

LEMMA OthersReports ==
    ASSUME TypeOK, NEW j \in Jobs, ReportInv(j), Known(j) => enqueues[j] > 0,
           \/ \E i \in Jobs : Enqueue(i) \/ LeaseExpires(i)
           \/ \E w \in Workers : Rejected(w) \/ Renew(w) \/ Crash(w)
    PROVE  ReportInv(j)'
<1> USE DEF lists, history, local
<1>0. /\ hash \in [Jobs -> HashType] /\ deaths \in Bag /\ enqueues \in Bag
      /\ notes \in Bag /\ dlq \in Bag /\ (hash[j].status = "dead" => deaths[j] > 0)
  BY DEF TypeOK, ReportInv
<1>1. ASSUME NEW i \in Jobs, Enqueue(i) PROVE ReportInv(j)'
  <2>1. /\ frame' = frame /\ notes' = notes /\ dlq' = dlq /\ deaths' = deaths
        /\ enqueues' = [enqueues EXCEPT ![i] = @ + 1]
    BY <1>1 DEF Enqueue
  <2> DEFINE h == [hash[i] EXCEPT !.status = "queued", !.attempts = 0, !.retries = 0,
                                  !.dlqMark = FALSE, !.noteMark = FALSE]
  <2>2. hash' = [hash EXCEPT ![i] = h]
    BY <1>0, <1>1, Zenon DEF Enqueue
  <2>3. h.status = "queued"
    BY <1>0 DEF HashType
  <2> HIDE DEF h
  <2>4. CASE i # j
    <3>1. hash'[j] = hash[j] /\ enqueues'[j] = enqueues[j]
      BY <1>0, <2>1, <2>2, <2>4 DEF Bag
    <3> QED BY <2>1, <3>1 DEF ReportInv, Allowed
  <2>5. CASE i = j
    <3>1. hash'[j].status = "queued"
      BY <1>0, <2>2, <2>3, <2>5
    <3>2. enqueues'[j] = enqueues[j] + 1
      BY <1>0, <2>1, <2>5 DEF Bag
    <3>3. deaths[j] > 0 => enqueues[j] > 0
      BY DEF Known
    <3>4. notes[j] <= Allowed(j) /\ dlq[j] <= Allowed(j)
      BY DEF ReportInv
    <3>5. Allowed(j)' >= Allowed(j) /\ (deaths[j] > 0 => Allowed(j)' = Allowed(j) + 1)
          /\ Allowed(j) \in Nat /\ Allowed(j)' \in Nat
      BY <1>0, <2>1, <3>2, <3>3 DEF Allowed, Bag
    <3>6. notes[j] \in Nat /\ dlq[j] \in Nat
      BY <1>0 DEF Bag
    <3> QED BY <2>1, <3>1, <3>4, <3>5, <3>6 DEF ReportInv
  <2> QED BY <2>4, <2>5
<1>2. ASSUME NEW i \in Jobs, LeaseExpires(i) PROVE ReportInv(j)'
  <2>1. /\ hash'[j].status = hash[j].status
        /\ hash'[j].dlqMark = hash[j].dlqMark /\ hash'[j].noteMark = hash[j].noteMark
    BY <1>0, <1>2 DEF LeaseExpires, HashType
  <2> QED BY <1>2, <2>1 DEF LeaseExpires, ReportInv, Allowed
<1>3. ASSUME NEW w \in Workers, Rejected(w) PROVE ReportInv(j)'
  <2>1. ErrorFrame(w).pc \notin Reporting
    BY Fields DEF Reporting
  <2> QED BY <1>0, <1>3, <2>1, SilentStep DEF Rejected
<1>4. ASSUME NEW w \in Workers, Renew(w) PROVE ReportInv(j)'
  <2>1. /\ hash'[j].status = hash[j].status
        /\ hash'[j].dlqMark = hash[j].dlqMark /\ hash'[j].noteMark = hash[j].noteMark
    BY <1>0, <1>4 DEF Renew, HashType
  <2> QED BY <1>4, <2>1 DEF Renew, ReportInv, Allowed
<1>5. ASSUME NEW w \in Workers, Crash(w) PROVE ReportInv(j)'
  <2>1. Free("top").pc \notin Reporting
    BY Fields DEF Reporting
  <2> QED BY <1>0, <1>5, <2>1, SilentStep DEF Crash
<1> QED BY <1>1, <1>2, <1>3, <1>4, <1>5

(* However often recovery repeats a report whose reply was lost or whose   *)
(* worker died, each write of "dead" is filed and announced at most once,  *)
(* and each repeated enqueue allows one more.                              *)
THEOREM DeathReportedOnce == Spec => []ReportsPerDeath
<1> DEFINE Inv == KnownInv /\ \A j \in Jobs : ReportInv(j)
<1>1. Init => Inv
  BY ConstantsAssumption DEF Init, KnownInv, Known, ReportInv, Allowed, Free, Fresh, Nothing, Reporting
<1>2. TypeOK /\ Inv /\ [Next]_vars => Inv'
  <2>1. ASSUME TypeOK, KnownInv, NEW j \in Jobs, ReportInv(j), Next
        PROVE  (Known(j)' => enqueues'[j] > 0) /\ ReportInv(j)'
    <3>1. Known(j) => enqueues[j] > 0
      BY <2>1 DEF KnownInv
    <3> QED BY <2>1, <3>1, KnownStep, RecoverySilent, SharedReports, CycleSilent, OthersReports
            DEF Next, Step
  <2>2. ASSUME KnownInv, NEW j \in Jobs, ReportInv(j), UNCHANGED vars
        PROVE  (Known(j)' => enqueues'[j] > 0) /\ ReportInv(j)'
    BY <2>2 DEF KnownInv, Known, ReportInv, Allowed, vars, lists, local, history
  <2> QED BY <2>1, <2>2 DEF KnownInv
<1>3. Inv => ReportsPerDeath
  BY DEF ReportInv, ReportsPerDeath, Allowed
<1> QED BY <1>1, <1>2, <1>3, TypeCorrect, PTL DEF Spec

-----------------------------------------------------------------------------
(* One worker process, and no caller that reuses a job id.                 *)
Alone == (\A v, w \in Workers : v = w) /\ Renewable = {}

-----------------------------------------------------------------------------
(* The inductive invariants                                                *)

(* A job nobody has enqueued is untouched; an attempt is counted before it *)
(* is run.                                                                 *)
JobCounted(h, ran, enqueued) ==
    /\ enqueued \in {0, 1}
    /\ enqueued = 0 => h.status = "absent" /\ h.attempts = 0 /\ h.retries = 0 /\ ran = 0
    /\ ran <= h.attempts

(* The points at which the worker's job has been enqueued for certain: an  *)
(* acknowledgement may be of a processing entry whose hash is gone.        *)
Acting == (AtJob \cup OffRedis) \ {"ack"}

FrameCounted(f, h, ran, enqueued) ==
    /\ f.pc \in Acting => enqueued = 1
    /\ f.pc = "start"  => f.attempts = h.attempts + 1
    /\ f.pc = "call"   => ran < h.attempts

CountInv ==
    /\ \A j \in Jobs : JobCounted(hash[j], runs[j], enqueues[j])
    /\ \A w \in Workers : LET j == frame[w].job IN
           frame[w].pc \notin AtRest => FrameCounted(frame[w], hash[j], runs[j], enqueues[j])

(* What a connected worker remembers still describes the hash, whenever it *)
(* is about to write it.                                                   *)
Executing == {"call", "exec", "markOk", "caught", "markRetry"}

FrameCurrent(f, h) ==
    /\ f.pc \in {"fetch", "start"} => h.status = "queued"
    /\ f.pc = "start" => f.attempts = h.attempts + 1 /\ f.retries = h.retries
    /\ f.pc \in Executing =>
           h.status = "running" /\ f.attempts = h.attempts /\ f.retries = h.retries
    /\ f.pc = "markRetry" => f.job \in Reads /\ f.attempts < MaxAttempts /\ f.retries < MaxRetries
    /\ f.pc = "requeue"   => f.job \in Reads /\ h.status \in {"queued", "running"}
    /\ f.pc = "markDead"  => h.status = "running" \/ (f.job \notin Reads /\ h.status = "queued")

CurrentInv ==
    /\ budget["refuse"] = 0
    /\ \A w \in Workers : linked[w] => FrameCurrent(frame[w], hash[frame[w].job])

-----------------------------------------------------------------------------
(* What the steps do to the fields the lifecycle is about                  *)

Same(j) == /\ hash'[j].status = hash[j].status
           /\ hash'[j].attempts = hash[j].attempts
           /\ hash'[j].retries = hash[j].retries

(* Where a command leaves its worker.                                      *)
LEMMA Landing ==
    ASSUME TypeOK, NEW w \in Workers, NEW f, Reply(w, f)
    PROVE  \/ frame'[w] = f /\ linked' = linked /\ budget' = budget
           \/ /\ frame'[w] = ErrorFrame(w) /\ ~linked'[w]
              /\ budget'["refuse"] = budget["refuse"]
BY DEF TypeOK, Reply, Spend, Faults

(* Every step but an enqueue and five writes leaves those fields alone.    *)
Reading(w) == \/ StartRecovery(w) \/ SkipRecovery(w) \/ RecoverNext(w) \/ RecoveryDone(w)
              \/ Push(w) \/ FileDlq(w) \/ Notify(w) \/ ScheduleRetry(w) \/ Acknowledge(w)
              \/ \E due \in SUBSET delayed : MoveDueDelayed(w, due)
              \/ ClaimNothing(w) \/ \E j \in Jobs : ClaimStale(w, j) \/ Claim(w, j)
              \/ Fetch(w) \/ CallTool(w) \/ ToolReturns(w) \/ CatchRetry(w) \/ CatchDead(w)
              \/ Rejected(w) \/ Renew(w) \/ Crash(w)

LEMMA ReadingSame ==
    ASSUME TypeOK, NEW j \in Jobs,
           (\E w \in Workers : Reading(w)) \/ \E i \in Jobs : LeaseExpires(i)
    PROVE  Same(j)
<1>0. hash \in [Jobs -> HashType]
  BY DEF TypeOK
<1>1. ASSUME hash' = hash PROVE Same(j)
  BY <1>1 DEF Same
<1>2. ASSUME NEW i \in Jobs, LeaseExpires(i) PROVE Same(j)
  BY <1>0, <1>2 DEF LeaseExpires, Same, HashType
<1>3. ASSUME NEW w \in Workers, FileDlq(w) \/ Notify(w) \/ Renew(w) PROVE Same(j)
  BY <1>0, <1>3 DEF FileDlq, Notify, Renew, Same, HashType
<1>4. ASSUME NEW w \in Workers, NEW i \in Jobs, Claim(w, i) PROVE Same(j)
  BY <1>0, <1>4 DEF Claim, Same, HashType
<1>5. ASSUME NEW w \in Workers, Reading(w), ~FileDlq(w), ~Notify(w), ~Renew(w),
             \A i \in Jobs : ~Claim(w, i)
      PROVE  hash' = hash
  BY <1>5 DEF Reading, StartRecovery, SkipRecovery, RecoverNext, RecoveryDone, Push,
     ScheduleRetry, Acknowledge, MoveDueDelayed, ClaimNothing, ClaimStale, Fetch, CallTool,
     ToolReturns, CatchRetry, CatchDead, Rejected, Crash
<1> QED BY <1>1, <1>2, <1>3, <1>4, <1>5

Read(w) == hash[frame[w].job]

(* The five writes change the fields of the worker's own job only.         *)
Writes(w, status, attempts, retries) ==
    LET i == frame[w].job IN
    /\ i \in Jobs
    /\ hash'[i].status = status /\ hash'[i].attempts = attempts /\ hash'[i].retries = retries
    /\ \A j \in Jobs : j # i => Same(j)
    /\ runs' = runs /\ enqueues' = enqueues

LEMMA WritesOutcome ==
    ASSUME TypeOK, NEW w \in Workers
    PROVE  /\ Requeue(w)       => Writes(w, "queued", Read(w).attempts, Read(w).retries)
           /\ MarkDead(w)      => Writes(w, "dead", Read(w).attempts, Read(w).retries)
           /\ MarkRunning(w)   => Writes(w, "running", frame[w].attempts, Read(w).retries)
           /\ MarkSucceeded(w) => Writes(w, "succeeded", Read(w).attempts, Read(w).retries)
           /\ MarkRetry(w)     => Writes(w, "retry_scheduled", Read(w).attempts, frame[w].retries + 1)
<1> USE DEF history
<1>0. hash \in [Jobs -> HashType]
  BY DEF TypeOK
<1>a. frame[w].pc \in {"requeue", "markDead", "start", "markOk", "markRetry"} => frame[w].job \in Jobs
  BY AtOK DEF AtRest
<1>1. Requeue(w) => Writes(w, "queued", Read(w).attempts, Read(w).retries)
  BY <1>0, <1>a DEF Requeue, Writes, Read, Same, HashType
<1>2. MarkDead(w) => Writes(w, "dead", Read(w).attempts, Read(w).retries)
  <2> SUFFICES ASSUME MarkDead(w) PROVE Writes(w, "dead", Read(w).attempts, Read(w).retries)
    OBVIOUS
  <2>1. frame[w].job \in Jobs /\ runs' = runs /\ enqueues' = enqueues
    BY <1>a DEF MarkDead
  <2>2. PICK r \in HashType : /\ hash' = [hash EXCEPT ![frame[w].job] = r]
                              /\ r.status = "dead" /\ r.attempts = hash[frame[w].job].attempts
                              /\ r.retries = hash[frame[w].job].retries
    BY <1>0, <2>1, DeadHash
  <2> QED BY <1>0, <2>1, <2>2 DEF Writes, Read, Same
<1>3. MarkRunning(w) => Writes(w, "running", frame[w].attempts, Read(w).retries)
  BY <1>0, <1>a DEF MarkRunning, Writes, Read, Same, HashType
<1>4. MarkSucceeded(w) => Writes(w, "succeeded", Read(w).attempts, Read(w).retries)
  BY <1>0, <1>a DEF MarkSucceeded, Writes, Read, Same, HashType
<1>5. MarkRetry(w) => Writes(w, "retry_scheduled", Read(w).attempts, frame[w].retries + 1)
  BY <1>0, <1>a DEF MarkRetry, Writes, Read, Same, HashType
<1> QED BY <1>1, <1>2, <1>3, <1>4, <1>5

LEMMA EnqueueOutcome ==
    ASSUME TypeOK, Alone, NEW i \in Jobs, Enqueue(i)
    PROVE  /\ enqueues[i] = 0 /\ enqueues'[i] = 1
           /\ runs' = runs /\ frame' = frame /\ linked' = linked /\ budget' = budget
           /\ hash'[i].status = "queued" /\ hash'[i].attempts = 0 /\ hash'[i].retries = 0
           /\ \A j \in Jobs : j # i => Same(j) /\ enqueues'[j] = enqueues[j]
<1>0. hash \in [Jobs -> HashType] /\ enqueues \in Bag
  BY DEF TypeOK
<1>1. enqueues[i] < 1 /\ enqueues' = [enqueues EXCEPT ![i] = @ + 1]
      /\ runs' = runs /\ frame' = frame /\ linked' = linked /\ budget' = budget
  BY DEF Enqueue, Alone, local
<1>2. enqueues[i] = 0 /\ enqueues'[i] = 1 /\ \A j \in Jobs : j # i => enqueues'[j] = enqueues[j]
  BY <1>0, <1>1 DEF Bag
<1> DEFINE h == [hash[i] EXCEPT !.status = "queued", !.attempts = 0, !.retries = 0,
                                !.dlqMark = FALSE, !.noteMark = FALSE]
<1>3. hash' = [hash EXCEPT ![i] = h]
  BY <1>0, Zenon DEF Enqueue
<1>4. h.status = "queued" /\ h.attempts = 0 /\ h.retries = 0
  BY <1>0 DEF HashType
<1> HIDE DEF h
<1> QED BY <1>0, <1>1, <1>2, <1>3, <1>4 DEF Same

-----------------------------------------------------------------------------
(* Every run is counted                                                    *)

(* A step that neither enqueues nor runs a job nor changes its attempts,   *)
(* and takes the worker to no start and no call.                           *)
LEMMA QuietCount ==
    ASSUME TypeOK, Alone, CountInv, NEW w \in Workers,
           runs' = runs, enqueues' = enqueues,
           \A j \in Jobs : hash'[j].attempts = hash[j].attempts,
           \A j \in Jobs : enqueues[j] # 1 => Same(j),
           frame'[w].pc \notin {"start", "call"},
           frame'[w].pc \in Acting => frame'[w].job \in Jobs /\ enqueues[frame'[w].job] = 1
    PROVE  CountInv'
<1>1. ASSUME NEW j \in Jobs PROVE JobCounted(hash'[j], runs'[j], enqueues'[j])
  <2>1. JobCounted(hash[j], runs[j], enqueues[j])
    BY DEF CountInv
  <2> QED BY <2>1 DEF JobCounted, Same
<1>2. FrameCounted(frame'[w], hash'[frame'[w].job], runs'[frame'[w].job], enqueues'[frame'[w].job])
  BY DEF FrameCounted
<1> QED BY <1>1, <1>2 DEF CountInv, Alone

(* The worker of a frame that will act holds an enqueued job.              *)
LEMMA ActingJob ==
    ASSUME TypeOK, CountInv, NEW w \in Workers, frame[w].pc \in Acting
    PROVE  frame[w].job \in Jobs /\ enqueues[frame[w].job] = 1
<1>1. frame[w].pc \notin AtRest
  BY DEF Acting, AtRest, AtJob, OffRedis
<1> QED BY <1>1, AtOK DEF CountInv, FrameCounted

LEMMA ErrorCount ==
    ASSUME TypeOK, CountInv, NEW w \in Workers
    PROVE  /\ ErrorFrame(w).pc \notin {"start", "call"}
           /\ ErrorFrame(w).pc \in Acting =>
                  ErrorFrame(w).job \in Jobs /\ enqueues[ErrorFrame(w).job] = 1
<1>1. ErrorFrame(w).pc \in {"caught", "rec", "due", "top"}
  BY Fields
<1>2. ASSUME ErrorFrame(w).pc = "caught" PROVE frame[w].pc \in Acting /\ ErrorFrame(w).job = frame[w].job
  BY <1>2, Fields DEF ErrorFrame, Acting, AtJob
<1> QED BY <1>1, <1>2, ActingJob DEF Acting, AtJob, OffRedis

(* A command whose reply brings the worker to f, or which fails.           *)
LEMMA ReplyCount ==
    ASSUME TypeOK, Alone, CountInv, NEW w \in Workers, NEW f, Reply(w, f),
           runs' = runs, enqueues' = enqueues,
           \A j \in Jobs : hash'[j].attempts = hash[j].attempts,
           \A j \in Jobs : enqueues[j] # 1 => Same(j),
           f.pc \notin {"start", "call"},
           f.pc \in Acting => f.job \in Jobs /\ enqueues[f.job] = 1
    PROVE  CountInv'
<1>1. frame'[w] \in {f, ErrorFrame(w)}
  BY Landing
<1> QED BY <1>1, ErrorCount, QuietCount

LEMMA RecoveryCount ==
    ASSUME TypeOK, Alone, CountInv, NEW w \in Workers, Recovery(w)
    PROVE  CountInv'
<1> USE DEF history
<1>a. frame \in [Workers -> FrameType]
  BY DEF TypeOK
<1>1. ASSUME StartRecovery(w) \/ SkipRecovery(w) \/ RecoverNext(w) \/ RecoveryDone(w) \/ Push(w)
      PROVE  /\ runs' = runs /\ enqueues' = enqueues
             /\ \A j \in Jobs : Same(j) /\ hash'[j].attempts = hash[j].attempts
  BY <1>1, ReadingSame DEF Reading, Same, StartRecovery, SkipRecovery, RecoverNext, RecoveryDone, Push
<1>2. CASE StartRecovery(w)
  <2> DEFINE f == [Free("rec") EXCEPT !.todo = processing]
  <2>1. f.pc = "rec" /\ Reply(w, f)
    BY <1>2 DEF Free, StartRecovery
  <2> HIDE DEF f
  <2> QED BY <1>1, <1>2, <2>1, ReplyCount DEF Acting, AtJob, OffRedis
<1>3. CASE SkipRecovery(w) \/ RecoveryDone(w)
  <2>1. frame'[w].pc = "due"
    BY <1>a, <1>3, Fields DEF SkipRecovery, RecoveryDone
  <2> QED BY <1>1, <1>3, <2>1, QuietCount DEF Acting, AtJob, OffRedis
<1>4. CASE RecoverNext(w)
  <2>1. PICK i \in Jobs : Reply(w, RecoveryFrame(w, i))
    BY <1>4 DEF RecoverNext
  <2>2. PICK f : f = RecoveryFrame(w, i)
    OBVIOUS
  <2>3. f.pc = Verdict(i, hash[i]) /\ (f.pc # "rec" => f.job = i)
    BY <2>2 DEF RecoveryFrame, Free
  <2>4. f.pc \notin {"ack", "rec"} => hash[i].status # "absent"
    BY <2>3 DEF Verdict, Settled
  <2>5. JobCounted(hash[i], runs[i], enqueues[i])
    BY DEF CountInv
  <2>6. f.pc \in Acting => f.job \in Jobs /\ enqueues[f.job] = 1
    BY <2>3, <2>4, <2>5 DEF JobCounted, Acting, AtJob, OffRedis
  <2>7. f.pc \notin {"start", "call"}
    BY <2>3 DEF Verdict
  <2> QED BY <1>1, <1>4, <2>1, <2>2, <2>6, <2>7, ReplyCount
<1>5. CASE Push(w)
  <2>1. Reply(w, At(w, "ack")) /\ At(w, "ack").pc = "ack"
    BY <1>5, Fields DEF Push
  <2> QED BY <1>1, <1>5, <2>1, ReplyCount DEF Acting
<1>6. CASE Requeue(w)
  <2>1. Reply(w, At(w, "push")) /\ At(w, "push").pc = "push" /\ At(w, "push").job = frame[w].job
    BY <1>6, Fields DEF Requeue
  <2>2. frame[w].job \in Jobs /\ enqueues[frame[w].job] = 1
    BY <1>6, ActingJob DEF Requeue, Acting, AtJob
  <2>3. Writes(w, "queued", Read(w).attempts, Read(w).retries)
    BY <1>6, WritesOutcome
  <2>4. /\ \A j \in Jobs : hash'[j].attempts = hash[j].attempts
        /\ \A j \in Jobs : enqueues[j] # 1 => Same(j)
        /\ runs' = runs /\ enqueues' = enqueues
    BY <2>2, <2>3 DEF Writes, Read, Same
  <2> QED BY <2>1, <2>2, <2>4, ReplyCount
<1> QED BY <1>1, <1>2, <1>3, <1>4, <1>5, <1>6 DEF Recovery

LEMMA SharedCount ==
    ASSUME TypeOK, Alone, CountInv, NEW w \in Workers, Shared(w)
    PROVE  CountInv'
<1> USE DEF history
<1>1. ASSUME FileDlq(w) \/ Notify(w) \/ ScheduleRetry(w) \/ Acknowledge(w)
      PROVE  /\ runs' = runs /\ enqueues' = enqueues
             /\ \A j \in Jobs : Same(j) /\ hash'[j].attempts = hash[j].attempts
  BY <1>1, ReadingSame DEF Reading, Same, FileDlq, Notify, ScheduleRetry, Acknowledge
<1>2. CASE MarkDead(w)
  <2>1. PICK f : f = [At(w, "dlq") EXCEPT !.noted = FALSE]
    OBVIOUS
  <2>2. Reply(w, f) /\ f.pc = "dlq" /\ f.job = frame[w].job
    BY <1>2, <2>1 DEF MarkDead, At, TypeOK, FrameType
  <2>3. frame[w].job \in Jobs /\ enqueues[frame[w].job] = 1
    BY <1>2, ActingJob DEF MarkDead, Acting, AtJob
  <2>4. Writes(w, "dead", Read(w).attempts, Read(w).retries)
    BY <1>2, WritesOutcome
  <2>5. /\ \A j \in Jobs : hash'[j].attempts = hash[j].attempts
        /\ \A j \in Jobs : enqueues[j] # 1 => Same(j)
        /\ runs' = runs /\ enqueues' = enqueues
    BY <2>3, <2>4 DEF Writes, Read, Same
  <2> QED BY <2>2, <2>3, <2>5, ReplyCount
<1>3. CASE FileDlq(w) \/ Notify(w) \/ ScheduleRetry(w)
  <2>1. PICK p \in {"ack", "note"} : Reply(w, At(w, p))
    BY <1>3 DEF FileDlq, Notify, ScheduleRetry
  <2>2. At(w, p).pc = p /\ At(w, p).job = frame[w].job
    BY Fields
  <2>3. frame[w].job \in Jobs /\ enqueues[frame[w].job] = 1
    BY <1>3, ActingJob DEF FileDlq, Notify, ScheduleRetry, Acting, AtJob
  <2> QED BY <1>1, <1>3, <2>1, <2>2, <2>3, ReplyCount
<1>4. CASE Acknowledge(w)
  <2>1. PICK f : f = IF frame[w].rec THEN NextEntry(w) ELSE Free("top")
    OBVIOUS
  <2>2. Reply(w, f) /\ f.pc \in {"rec", "top"}
    BY <1>4, <2>1, Fields DEF Acknowledge
  <2> QED BY <1>1, <1>4, <2>2, ReplyCount DEF Acting, AtJob, OffRedis
<1> QED BY <1>2, <1>3, <1>4 DEF Shared

LEMMA FetchCount ==
    ASSUME TypeOK, Alone, CountInv, NEW w \in Workers, Fetch(w)
    PROVE  CountInv'
<1>1. PICK i : i = frame[w].job
  OBVIOUS
<1>2. i \in Jobs /\ enqueues[i] = 1
  BY <1>1, ActingJob DEF Fetch, Acting, AtJob
<1>3. PICK f : f = IF hash[i].status \in Terminal
                   THEN At(w, "ack")
                   ELSE [At(w, "start") EXCEPT !.attempts = Attempt(hash[i]), !.retries = hash[i].retries]
  OBVIOUS
<1>4. Reply(w, f) /\ hash' = hash /\ runs' = runs /\ enqueues' = enqueues
  BY <1>1, <1>3 DEF Fetch, history
<1>5. f.pc \in {"ack", "start"} /\ f.job = i /\ (f.pc = "start" => f.attempts = hash[i].attempts + 1)
  BY <1>1, <1>3 DEF At, TypeOK, FrameType, Attempt
<1>6. FrameCounted(f, hash[i], runs[i], enqueues[i])
  BY <1>2, <1>5 DEF FrameCounted
<1>7. frame'[w] = f \/ frame'[w] = ErrorFrame(w)
  BY <1>4, Landing
<1>8. CASE frame'[w] = f
  BY <1>4, <1>5, <1>6, <1>8 DEF CountInv, Alone
<1>9. CASE frame'[w] = ErrorFrame(w)
  BY <1>4, <1>9, ErrorCount, QuietCount DEF Same
<1> QED BY <1>7, <1>8, <1>9

(* The attempt is written with the number the worker read plus one, so the *)
(* run that follows has been counted.                                      *)
LEMMA StartCount ==
    ASSUME TypeOK, Alone, CountInv, NEW w \in Workers, MarkRunning(w)
    PROVE  CountInv'
<1>1. PICK i : i = frame[w].job
  OBVIOUS
<1>2. i \in Jobs /\ enqueues[i] = 1
  BY <1>1, ActingJob DEF MarkRunning, Acting, AtJob
<1>3. frame[w].attempts = hash[i].attempts + 1 /\ JobCounted(hash[i], runs[i], enqueues[i])
  BY <1>1, <1>2 DEF MarkRunning, CountInv, FrameCounted, AtRest
<1>4. hash[i].attempts \in Nat /\ runs[i] \in Nat
  BY <1>2 DEF TypeOK, HashType, Bag
<1>5. Writes(w, "running", frame[w].attempts, Read(w).retries)
  BY WritesOutcome
<1>6. /\ hash'[i].attempts = hash[i].attempts + 1 /\ runs' = runs /\ enqueues' = enqueues
      /\ \A j \in Jobs : j # i => Same(j)
  BY <1>1, <1>3, <1>5 DEF Writes
<1>7. ASSUME NEW j \in Jobs PROVE JobCounted(hash'[j], runs'[j], enqueues'[j])
  <2>1. JobCounted(hash[j], runs[j], enqueues[j])
    BY DEF CountInv
  <2> QED BY <1>2, <1>4, <1>6, <2>1 DEF JobCounted, Same
<1>8. Reply(w, At(w, "call")) /\ At(w, "call").pc = "call" /\ At(w, "call").job = i
  BY <1>1, Fields DEF MarkRunning
<1>9. FrameCounted(At(w, "call"), hash'[i], runs'[i], enqueues'[i])
  BY <1>2, <1>3, <1>4, <1>6, <1>8 DEF FrameCounted, JobCounted
<1>10. CASE frame'[w] = At(w, "call")
  BY <1>7, <1>8, <1>9, <1>10 DEF CountInv, Alone
<1>11. CASE frame'[w] = ErrorFrame(w)
  <2>1. FrameCounted(frame'[w], hash'[frame'[w].job], runs'[frame'[w].job], enqueues'[frame'[w].job])
    BY <1>6, <1>11, ErrorCount DEF FrameCounted
  <2> QED BY <1>7, <2>1 DEF CountInv, Alone
<1> QED BY <1>8, <1>10, <1>11, Landing

LEMMA CallCount ==
    ASSUME TypeOK, Alone, CountInv, NEW w \in Workers, CallTool(w)
    PROVE  CountInv'
<1>1. PICK i : i = frame[w].job
  OBVIOUS
<1>2. i \in Jobs /\ enqueues[i] = 1
  BY <1>1, ActingJob DEF CallTool, Acting, OffRedis
<1>3. runs[i] < hash[i].attempts
  BY <1>1, <1>2 DEF CallTool, CountInv, FrameCounted, AtRest
<1>4. hash[i].attempts \in Nat /\ runs \in Bag
  BY <1>2 DEF TypeOK, HashType
<1>5. hash' = hash /\ enqueues' = enqueues /\ frame'[w] = At(w, "exec")
      /\ runs' = [runs EXCEPT ![i] = @ + 1]
  BY <1>1 DEF CallTool, lists, TypeOK
<1>6. runs'[i] = runs[i] + 1 /\ \A j \in Jobs : j # i => runs'[j] = runs[j]
  BY <1>2, <1>4, <1>5 DEF Bag
<1>7. ASSUME NEW j \in Jobs PROVE JobCounted(hash'[j], runs'[j], enqueues'[j])
  <2>1. JobCounted(hash[j], runs[j], enqueues[j]) /\ runs[j] \in Nat
    BY <1>4 DEF CountInv, Bag
  <2> QED BY <1>2, <1>3, <1>4, <1>5, <1>6, <2>1 DEF JobCounted
<1>8. At(w, "exec").pc = "exec" /\ At(w, "exec").job = i
  BY <1>1, Fields
<1>9. FrameCounted(At(w, "exec"), hash'[i], runs'[i], enqueues'[i])
  BY <1>2, <1>5, <1>8 DEF FrameCounted
<1> QED BY <1>5, <1>7, <1>8, <1>9 DEF CountInv, Alone

LEMMA CycleCount ==
    ASSUME TypeOK, Alone, CountInv, NEW w \in Workers, Cycle(w)
    PROVE  CountInv'
<1> USE DEF history
<1>a. frame \in [Workers -> FrameType]
  BY DEF TypeOK
<1>b. frame[w].pc \in Acting => frame[w].job \in Jobs /\ enqueues[frame[w].job] = 1
  BY ActingJob
<1>1. ASSUME Reading(w), runs' = runs, enqueues' = enqueues
      PROVE  \A j \in Jobs : Same(j) /\ hash'[j].attempts = hash[j].attempts
  BY <1>1, ReadingSame DEF Same
<1>2. CASE ClaimNothing(w) \/ (\E j \in Jobs : ClaimStale(w, j))
           \/ \E due \in SUBSET delayed : MoveDueDelayed(w, due)
  <2>1. PICK p \in AtRest : Reply(w, Free(p)) /\ runs' = runs /\ enqueues' = enqueues
    BY <1>2 DEF ClaimNothing, ClaimStale, MoveDueDelayed, AtRest
  <2>2. Free(p).pc \notin Acting \cup {"start", "call"}
    BY Fields DEF Acting, AtRest, AtJob, OffRedis
  <2> QED BY <1>1, <1>2, <2>1, <2>2, ReplyCount DEF Reading
<1>3. ASSUME NEW i \in Jobs, Claim(w, i) PROVE CountInv'
  <2>1. PICK f : f = [Free("fetch") EXCEPT !.job = i]
    OBVIOUS
  <2>2. Reply(w, f) /\ f.pc = "fetch" /\ f.job = i
    BY <1>3, <2>1 DEF Claim, Free
  <2>3. hash[i].status = "queued" /\ runs' = runs /\ enqueues' = enqueues
    BY <1>3 DEF Claim
  <2>4. enqueues[i] = 1
    BY <2>3 DEF CountInv, JobCounted
  <2>5. Reading(w)
    BY <1>3 DEF Reading
  <2> QED BY <1>1, <2>2, <2>3, <2>4, <2>5, ReplyCount
<1>4. CASE ToolReturns(w) \/ CatchRetry(w) \/ CatchDead(w)
  <2>1. PICK p \in {"markOk", "caught", "markRetry", "markDead"} : frame'[w] = At(w, p)
    BY <1>a, <1>4 DEF ToolReturns, CatchRetry, CatchDead
  <2>2. At(w, p).pc = p /\ At(w, p).job = frame[w].job
    BY Fields
  <2>3. frame[w].pc \in Acting /\ runs' = runs /\ enqueues' = enqueues
    BY <1>4 DEF ToolReturns, CatchRetry, CatchDead, Acting, OffRedis
  <2>4. Reading(w)
    BY <1>4 DEF Reading
  <2> QED BY <1>b, <1>1, <2>1, <2>2, <2>3, <2>4, QuietCount
<1>5. CASE MarkSucceeded(w) \/ MarkRetry(w)
  <2>1. PICK p \in {"ackOk", "zadd"} : Reply(w, At(w, p))
    BY <1>5 DEF MarkSucceeded, MarkRetry
  <2>2. At(w, p).pc = p /\ At(w, p).job = frame[w].job
    BY Fields
  <2>3. frame[w].job \in Jobs /\ enqueues[frame[w].job] = 1
    BY <1>b, <1>5 DEF MarkSucceeded, MarkRetry, Acting, AtJob
  <2>4. \E s, n : Writes(w, s, Read(w).attempts, n)
    BY <1>5, WritesOutcome
  <2>5. /\ \A j \in Jobs : hash'[j].attempts = hash[j].attempts
        /\ \A j \in Jobs : enqueues[j] # 1 => Same(j)
        /\ runs' = runs /\ enqueues' = enqueues
    BY <2>3, <2>4 DEF Writes, Read, Same
  <2> QED BY <2>1, <2>2, <2>3, <2>5, ReplyCount
<1> QED BY <1>2, <1>3, <1>4, <1>5, FetchCount, StartCount, CallCount DEF Cycle

LEMMA OthersCount ==
    ASSUME TypeOK, Alone, CountInv,
           \/ \E i \in Jobs : Enqueue(i) \/ LeaseExpires(i)
           \/ \E w \in Workers : Rejected(w) \/ Renew(w) \/ Crash(w)
    PROVE  CountInv'
<1> USE DEF history, local
<1>a. frame \in [Workers -> FrameType]
  BY DEF TypeOK
<1>1. ASSUME NEW i \in Jobs, Enqueue(i) PROVE CountInv'
  <2>1. /\ enqueues[i] = 0 /\ enqueues'[i] = 1 /\ runs' = runs /\ frame' = frame
        /\ hash'[i].attempts = 0
        /\ \A j \in Jobs : j # i => Same(j) /\ enqueues'[j] = enqueues[j]
    BY <1>1, EnqueueOutcome
  <2>2. ASSUME NEW j \in Jobs PROVE JobCounted(hash'[j], runs'[j], enqueues'[j])
    <3>1. JobCounted(hash[j], runs[j], enqueues[j])
      BY DEF CountInv
    <3> QED BY <2>1, <3>1 DEF JobCounted, Same
  <2>3. ASSUME NEW w \in Workers, frame[w].pc \notin AtRest
        PROVE  LET j == frame[w].job IN FrameCounted(frame'[w], hash'[j], runs'[j], enqueues'[j])
    <3>1. frame[w].job \in Jobs
      BY <2>3, AtOK
    <3>2. FrameCounted(frame[w], hash[frame[w].job], runs[frame[w].job], enqueues[frame[w].job])
      BY <2>3 DEF CountInv
    <3>3. CASE frame[w].job = i
      <4>1. frame[w].pc \notin Acting
        BY <2>1, <3>2, <3>3 DEF FrameCounted
      <4> QED BY <2>1, <4>1 DEF FrameCounted, Acting, AtJob, OffRedis
    <3>4. CASE frame[w].job # i
      BY <2>1, <3>1, <3>2, <3>4 DEF FrameCounted, Same
    <3> QED BY <3>3, <3>4
  <2> QED BY <2>1, <2>2, <2>3 DEF CountInv
<1>2. ASSUME NEW i \in Jobs, LeaseExpires(i) PROVE CountInv'
  <2>1. \A j \in Jobs : Same(j)
    BY <1>2, ReadingSame
  <2>2. runs' = runs /\ enqueues' = enqueues /\ frame' = frame
    BY <1>2 DEF LeaseExpires
  <2>3. \A j \in Jobs : JobCounted(hash'[j], runs[j], enqueues[j])
    BY <2>1 DEF CountInv, JobCounted, Same
  <2>4. ASSUME NEW w \in Workers, frame[w].pc \notin AtRest
        PROVE  LET j == frame[w].job IN FrameCounted(frame[w], hash'[j], runs[j], enqueues[j])
    BY <2>1, <2>4, AtOK DEF CountInv, FrameCounted, Same
  <2> QED BY <2>2, <2>3, <2>4 DEF CountInv
<1>3. ASSUME NEW w \in Workers, Renew(w) PROVE CountInv'
  <2>1. \A j \in Jobs : Same(j) /\ hash'[j].attempts = hash[j].attempts
    BY <1>3, ReadingSame DEF Reading, Same
  <2>2. runs' = runs /\ enqueues' = enqueues /\ frame' = frame
    BY <1>3 DEF Renew
  <2>3. frame[w].pc \in {"exec", "markOk"}
    BY <1>3 DEF Renew
  <2>4. frame[w].pc \in Acting /\ frame[w].pc \notin {"start", "call"}
    BY <2>3 DEF Acting, AtJob, OffRedis
  <2> QED BY <2>1, <2>2, <2>4, ActingJob, QuietCount
<1>4. ASSUME NEW w \in Workers, Rejected(w) \/ Crash(w) PROVE CountInv'
  <2>1. \A j \in Jobs : Same(j) /\ hash'[j].attempts = hash[j].attempts
    BY <1>4, ReadingSame DEF Reading, Same
  <2>2. runs' = runs /\ enqueues' = enqueues /\ frame'[w] \in {ErrorFrame(w), Free("top")}
    BY <1>a, <1>4 DEF Rejected, Crash
  <2>3. Free("top").pc \notin Acting \cup {"start", "call"}
    BY Fields DEF Acting, AtJob, OffRedis
  <2> QED BY <2>1, <2>2, <2>3, ErrorCount, QuietCount
<1> QED BY <1>1, <1>2, <1>3, <1>4

(* A run begins only after its attempt has been written: with one worker   *)
(* the attempts in the hash never undercount the runs of a job, whatever   *)
(* crashes, refusals, lost replies, stalls and disk faults occur.          *)
THEOREM RunsAreCounted ==
    ASSUME Alone
    PROVE  Spec => []RunsWithinAttempts
<1>1. Init => CountInv
  BY DEF Init, CountInv, JobCounted, FrameCounted, Free, Fresh, Nothing, AtRest
<1>2. TypeOK /\ CountInv /\ [Next]_vars => CountInv'
  <2>1. ASSUME CountInv, UNCHANGED vars PROVE CountInv'
    BY <2>1 DEF CountInv, vars, lists, local, history
  <2> QED BY <2>1, RecoveryCount, SharedCount, CycleCount, OthersCount DEF Next, Step
<1>3. CountInv => RunsWithinAttempts
  BY DEF CountInv, JobCounted, RunsWithinAttempts
<1> QED BY <1>1, <1>2, <1>3, TypeCorrect, PTL DEF Spec

-----------------------------------------------------------------------------
(* The hashes follow the lifecycle                                         *)

(* Program points at which nothing the worker remembers will be written.   *)
Indifferent == AtRest \cup {"push", "zadd", "dlq", "note", "ack", "ackOk"}

LEMMA IndifferentCurrent ==
    ASSUME NEW f, NEW h, f.pc \in Indifferent
    PROVE  FrameCurrent(f, h)
BY DEF FrameCurrent, Indifferent, AtRest, Executing

LEMMA CurrentStep ==
    ASSUME TypeOK, Alone, CurrentInv, NEW w \in Workers, budget'["refuse"] = budget["refuse"],
           linked'[w] => FrameCurrent(frame'[w], hash'[frame'[w].job])
    PROVE  CurrentInv'
BY DEF CurrentInv, Alone

(* A lost reply disconnects the worker, so that only the reply that does   *)
(* arrive has to find the hash as the worker will remember it.             *)
LEMMA CurrentReply ==
    ASSUME TypeOK, Alone, CurrentInv, NEW w \in Workers, NEW f, Reply(w, f),
           FrameCurrent(f, hash'[f.job])
    PROVE  CurrentInv'
BY Landing, CurrentStep

LEMMA IndifferentReply ==
    ASSUME TypeOK, Alone, CurrentInv, NEW w \in Workers, NEW f, Reply(w, f), f.pc \in Indifferent
    PROVE  CurrentInv'
BY IndifferentCurrent, CurrentReply

LEMMA Connected ==
    ASSUME CurrentInv, NEW w \in Workers, NEW f, Reply(w, f)
    PROVE  FrameCurrent(frame[w], hash[frame[w].job])
BY DEF CurrentInv, Reply

LEMMA RecoveryCurrent ==
    ASSUME TypeOK, Alone, CurrentInv, NEW w \in Workers, Recovery(w)
    PROVE  CurrentInv'
<1>1. CASE StartRecovery(w)
  <2>1. PICK f : f = [Free("rec") EXCEPT !.todo = processing]
    OBVIOUS
  <2>2. Reply(w, f) /\ f.pc = "rec"
    BY <1>1, <2>1 DEF StartRecovery, Free
  <2> QED BY <2>2, IndifferentReply DEF Indifferent, AtRest
<1>2. CASE SkipRecovery(w) \/ RecoveryDone(w)
  <2>1. frame'[w] = Free("due") /\ budget' = budget
    BY <1>2 DEF SkipRecovery, RecoveryDone, TypeOK
  <2>2. frame'[w].pc \in Indifferent
    BY <2>1, Fields DEF Indifferent, AtRest
  <2> QED BY <2>1, <2>2, IndifferentCurrent, CurrentStep
<1>3. CASE RecoverNext(w)
  <2>1. PICK i \in Jobs : Reply(w, RecoveryFrame(w, i)) /\ hash' = hash
    BY <1>3 DEF RecoverNext
  <2>2. PICK f : f = RecoveryFrame(w, i)
    OBVIOUS
  <2>3. f.pc = Verdict(i, hash[i]) /\ (f.pc # "rec" => f.job = i)
    BY <2>2 DEF RecoveryFrame, Free
  <2>4. hash[i].status \in Statuses
    BY DEF TypeOK, HashType
  <2>5. f.pc \in Indifferent \cup {"requeue", "markDead"}
    BY <2>3 DEF Verdict, Indifferent, AtRest
  <2>6. f.pc \in {"requeue", "markDead"} =>
            hash[i].status \in {"queued", "running"} /\ (i \in Reads <=> f.pc = "requeue")
    BY <2>3, <2>4 DEF Verdict, Settled, Statuses
  <2>7. f.pc \in {"requeue", "markDead"} => FrameCurrent(f, hash[f.job])
    BY <2>3, <2>6 DEF FrameCurrent, Executing
  <2> QED BY <2>1, <2>2, <2>5, <2>7, IndifferentReply, CurrentReply
<1>4. CASE Requeue(w) \/ Push(w)
  <2>1. PICK p \in {"push", "ack"} : Reply(w, At(w, p))
    BY <1>4 DEF Requeue, Push
  <2>2. At(w, p).pc \in Indifferent
    BY Fields DEF Indifferent
  <2> QED BY <2>1, <2>2, IndifferentReply
<1> QED BY <1>1, <1>2, <1>3, <1>4 DEF Recovery

LEMMA SharedCurrent ==
    ASSUME TypeOK, Alone, CurrentInv, NEW w \in Workers, Shared(w)
    PROVE  CurrentInv'
<1>1. CASE MarkDead(w)
  <2>1. PICK f : f = [At(w, "dlq") EXCEPT !.noted = FALSE]
    OBVIOUS
  <2>2. Reply(w, f) /\ f.pc = "dlq"
    BY <1>1, <2>1 DEF MarkDead, At, TypeOK, FrameType
  <2> QED BY <2>2, IndifferentReply DEF Indifferent
<1>2. CASE FileDlq(w) \/ Notify(w) \/ ScheduleRetry(w)
  <2>1. PICK p \in {"ack", "note"} : Reply(w, At(w, p))
    BY <1>2 DEF FileDlq, Notify, ScheduleRetry
  <2>2. At(w, p).pc \in Indifferent
    BY Fields DEF Indifferent
  <2> QED BY <2>1, <2>2, IndifferentReply
<1>3. CASE Acknowledge(w)
  <2>1. PICK f : f = IF frame[w].rec THEN NextEntry(w) ELSE Free("top")
    OBVIOUS
  <2>2. Reply(w, f) /\ f.pc \in {"rec", "top"}
    BY <1>3, <2>1, Fields DEF Acknowledge
  <2> QED BY <2>2, IndifferentReply DEF Indifferent, AtRest
<1> QED BY <1>1, <1>2, <1>3 DEF Shared

LEMMA CycleCurrent ==
    ASSUME TypeOK, Alone, CurrentInv, NEW w \in Workers, Cycle(w)
    PROVE  CurrentInv'
<1>a. frame \in [Workers -> FrameType] /\ hash \in [Jobs -> HashType]
  BY DEF TypeOK
<1>1. CASE ClaimNothing(w) \/ (\E j \in Jobs : ClaimStale(w, j))
           \/ \E due \in SUBSET delayed : MoveDueDelayed(w, due)
  <2>1. PICK p \in AtRest : Reply(w, Free(p))
    BY <1>1 DEF ClaimNothing, ClaimStale, MoveDueDelayed, AtRest
  <2>2. Free(p).pc \in Indifferent
    BY Fields DEF Indifferent
  <2> QED BY <2>1, <2>2, IndifferentReply
<1>2. ASSUME NEW i \in Jobs, Claim(w, i) PROVE CurrentInv'
  <2>1. PICK f : f = [Free("fetch") EXCEPT !.job = i]
    OBVIOUS
  <2>2. Reply(w, f) /\ f.pc = "fetch" /\ f.job = i
    BY <1>2, <2>1 DEF Claim, Free
  <2>3. hash'[i].status = "queued"
    BY <1>2, ReadingSame DEF Reading, Same, Claim
  <2> QED BY <2>2, <2>3, CurrentReply DEF FrameCurrent, Executing
<1>3. CASE Fetch(w)
  <2>1. PICK i : i = frame[w].job
    OBVIOUS
  <2>2. PICK f : f = IF hash[i].status \in Terminal
                     THEN At(w, "ack")
                     ELSE [At(w, "start") EXCEPT !.attempts = Attempt(hash[i]), !.retries = hash[i].retries]
    OBVIOUS
  <2>3. Reply(w, f) /\ hash' = hash /\ frame[w].pc = "fetch"
    BY <1>3, <2>1, <2>2 DEF Fetch
  <2>4. hash[i].status = "queued"
    BY <2>1, <2>3, Connected DEF FrameCurrent
  <2>5. f.pc = "start" /\ f.job = i /\ f.attempts = hash[i].attempts + 1 /\ f.retries = hash[i].retries
    BY <1>a, <2>1, <2>2, <2>4 DEF At, FrameType, Attempt, Terminal
  <2>6. FrameCurrent(f, hash'[f.job])
    BY <2>3, <2>4, <2>5 DEF FrameCurrent, Executing
  <2> QED BY <2>3, <2>6, CurrentReply
<1>4. CASE MarkRunning(w)
  <2>1. PICK i : i = frame[w].job
    OBVIOUS
  <2>2. PICK f : f = At(w, "call")
    OBVIOUS
  <2>3. Reply(w, f) /\ frame[w].pc = "start"
    BY <1>4, <2>2 DEF MarkRunning
  <2>4. f.pc = "call" /\ f.job = i /\ f.attempts = frame[w].attempts /\ f.retries = frame[w].retries
    BY <1>a, <2>1, <2>2 DEF At, FrameType
  <2>5. frame[w].retries = hash[i].retries
    BY <2>1, <2>3, Connected DEF FrameCurrent
  <2>6. hash'[i].status = "running" /\ hash'[i].attempts = f.attempts /\ hash'[i].retries = f.retries
    BY <1>4, <2>1, <2>4, <2>5, WritesOutcome DEF Writes, Read
  <2>7. FrameCurrent(f, hash'[f.job])
    BY <2>4, <2>6 DEF FrameCurrent, Executing
  <2> QED BY <2>3, <2>7, CurrentReply
<1>5. CASE CallTool(w) \/ ToolReturns(w) \/ CatchRetry(w) \/ CatchDead(w)
  <2>1. PICK i : i = frame[w].job
    OBVIOUS
  <2>2. PICK p \in Executing \cup {"markDead"} : frame'[w] = At(w, p) /\ (p = "markRetry" => MayRetry(w))
    BY <1>a, <1>5 DEF CallTool, ToolReturns, CatchRetry, CatchDead, Executing
  <2>3. hash' = hash /\ linked' = linked /\ frame[w].pc \in Executing
    BY <1>5 DEF CallTool, ToolReturns, CatchRetry, CatchDead, lists, Executing
  <2>4. budget'["refuse"] = budget["refuse"]
    BY <1>5 DEF CallTool, ToolReturns, CatchRetry, CatchDead, lists, Spend, TypeOK, Faults
  <2>5. /\ frame'[w].pc = p /\ frame'[w].job = i
        /\ frame'[w].attempts = frame[w].attempts /\ frame'[w].retries = frame[w].retries
    BY <1>a, <2>1, <2>2 DEF At, FrameType
  <2>6. ASSUME linked'[w] PROVE FrameCurrent(frame'[w], hash'[frame'[w].job])
    <3>1. /\ hash[i].status = "running"
          /\ frame[w].attempts = hash[i].attempts /\ frame[w].retries = hash[i].retries
      BY <2>1, <2>3, <2>6 DEF CurrentInv, FrameCurrent
    <3>2. p \notin {"fetch", "start", "requeue"}
      BY <2>2 DEF Executing
    <3> QED BY <2>1, <2>2, <2>3, <2>5, <3>1, <3>2 DEF FrameCurrent, MayRetry
  <2> QED BY <2>4, <2>6, CurrentStep
<1>6. CASE MarkSucceeded(w) \/ MarkRetry(w)
  <2>1. PICK p \in {"ackOk", "zadd"} : Reply(w, At(w, p))
    BY <1>6 DEF MarkSucceeded, MarkRetry
  <2>2. At(w, p).pc \in Indifferent
    BY Fields DEF Indifferent
  <2> QED BY <2>1, <2>2, IndifferentReply
<1> QED BY <1>1, <1>2, <1>3, <1>4, <1>5, <1>6 DEF Cycle

LEMMA OthersCurrent ==
    ASSUME TypeOK, Alone, CountInv, CurrentInv,
           \/ \E i \in Jobs : Enqueue(i) \/ LeaseExpires(i)
           \/ \E w \in Workers : Rejected(w) \/ Renew(w) \/ Crash(w)
    PROVE  CurrentInv'
<1> USE DEF local
<1>a. frame \in [Workers -> FrameType]
  BY DEF TypeOK
<1>1. ASSUME NEW i \in Jobs, Enqueue(i) PROVE CurrentInv'
  <2>1. /\ enqueues[i] = 0 /\ frame' = frame /\ linked' = linked /\ budget' = budget
        /\ \A j \in Jobs : j # i => Same(j)
    BY <1>1, EnqueueOutcome
  <2>2. ASSUME NEW w \in Workers, linked[w] PROVE FrameCurrent(frame[w], hash'[frame[w].job])
    <3>1. CASE frame[w].pc \in Indifferent
      BY <3>1, IndifferentCurrent
    <3>2. CASE frame[w].pc \notin Indifferent
      <4>1. frame[w].pc \in Acting
        BY <1>a, <3>2 DEF FrameType, Indifferent, Acting
      <4>2. frame[w].job \in Jobs /\ frame[w].job # i
        BY <2>1, <4>1, ActingJob
      <4> QED BY <2>1, <2>2, <4>2 DEF CurrentInv, FrameCurrent, Same
    <3> QED BY <3>1, <3>2
  <2> QED BY <2>1, <2>2 DEF CurrentInv
<1>2. ASSUME NEW w \in Workers, Renew(w) PROVE CurrentInv'
  <2>1. \A j \in Jobs : Same(j)
    BY <1>2, ReadingSame DEF Reading
  <2>2. frame' = frame /\ budget' = budget /\ linked' = linked
    BY <1>2 DEF Renew
  <2>3. frame[w].job \in Jobs
    BY <1>2, AtOK DEF Renew, AtRest
  <2> QED BY <2>1, <2>2, <2>3, CurrentStep DEF CurrentInv, FrameCurrent, Same
<1>3. ASSUME NEW i \in Jobs, LeaseExpires(i) PROVE CurrentInv'
  <2>1. \A j \in Jobs : Same(j)
    BY <1>3, ReadingSame
  <2>2. frame' = frame /\ linked' = linked /\ budget'["refuse"] = budget["refuse"]
    BY <1>3 DEF LeaseExpires, Spend, TypeOK, Faults
  <2>3. ASSUME NEW w \in Workers, linked[w] PROVE FrameCurrent(frame[w], hash'[frame[w].job])
    <3>1. CASE frame[w].pc \in Indifferent
      BY <3>1, IndifferentCurrent
    <3>2. CASE frame[w].pc \notin Indifferent
      <4>1. frame[w].job \in Jobs
        BY <3>2, AtOK DEF Indifferent
      <4> QED BY <2>1, <2>3, <4>1 DEF CurrentInv, FrameCurrent, Same
    <3> QED BY <3>1, <3>2
  <2> QED BY <2>2, <2>3 DEF CurrentInv
<1>4. ASSUME NEW w \in Workers, Rejected(w) PROVE CurrentInv'
  <2>1. ~linked'[w] /\ budget'["refuse"] = budget["refuse"]
    BY <1>4 DEF Rejected, Spend, TypeOK, Faults, CurrentInv
  <2> QED BY <2>1, CurrentStep
<1>5. ASSUME NEW w \in Workers, Crash(w) PROVE CurrentInv'
  <2>1. frame'[w] = Free("top") /\ budget'["refuse"] = budget["refuse"]
    BY <1>a, <1>5 DEF Crash, Spend, TypeOK, Faults
  <2>2. frame'[w].pc \in Indifferent
    BY <2>1, Fields DEF Indifferent, AtRest
  <2> QED BY <2>1, <2>2, IndifferentCurrent, CurrentStep
<1> QED BY <1>1, <1>2, <1>3, <1>4, <1>5

(* The variables of JobLifecycle, read off the hashes.                     *)
StatusOf   == [j \in Jobs |-> hash[j].status]
AttemptsOf == [j \in Jobs |-> hash[j].attempts]
RetriesOf  == [j \in Jobs |-> hash[j].retries]

LEMMA SameStutters ==
    ASSUME \A j \in Jobs : Same(j)
    PROVE  UNCHANGED Lifecycle!vars
BY DEF Same, Lifecycle!vars

(* A step that changes only job i, told by its new fields.                 *)
LEMMA OnlyOne ==
    ASSUME NEW i \in Jobs, \A j \in Jobs : j # i => Same(j)
    PROVE  /\ StatusOf'   = [StatusOf EXCEPT ![i] = hash'[i].status]
           /\ AttemptsOf' = [AttemptsOf EXCEPT ![i] = hash'[i].attempts]
           /\ RetriesOf'  = [RetriesOf EXCEPT ![i] = hash'[i].retries]
           /\ hash'[i].attempts = hash[i].attempts => AttemptsOf' = AttemptsOf
           /\ hash'[i].retries = hash[i].retries => RetriesOf' = RetriesOf
BY DEF Same, StatusOf, AttemptsOf, RetriesOf

LEMMA EnqueueCreates ==
    ASSUME TypeOK, Alone, CountInv, NEW i \in Jobs, Enqueue(i)
    PROVE  Lifecycle!Create(i)
<1>1. /\ enqueues[i] = 0 /\ hash'[i].status = "queued" /\ hash'[i].attempts = 0
      /\ hash'[i].retries = 0 /\ \A j \in Jobs : j # i => Same(j)
  BY EnqueueOutcome
<1>2. hash[i].status = "absent" /\ hash[i].attempts = 0 /\ hash[i].retries = 0
  BY <1>1 DEF CountInv, JobCounted
<1>3. StatusOf' = [StatusOf EXCEPT ![i] = "queued"] /\ AttemptsOf' = AttemptsOf /\ RetriesOf' = RetriesOf
  BY <1>1, <1>2, OnlyOne
<1>4. StatusOf[i] = "absent"
  BY <1>2 DEF StatusOf
<1> QED BY <1>3, <1>4 DEF Lifecycle!Create, Lifecycle!Becomes, StatusOf, AttemptsOf, RetriesOf

(* Each write of a connected worker is a step of the lifecycle, or none.   *)
LEMMA WriteFollows ==
    ASSUME TypeOK, CurrentInv, NEW w \in Workers,
           Requeue(w) \/ MarkDead(w) \/ MarkRunning(w) \/ MarkSucceeded(w) \/ MarkRetry(w)
    PROVE  Lifecycle!Next \/ UNCHANGED Lifecycle!vars
<1>1. PICK i : i = frame[w].job
  OBVIOUS
<1>2. FrameCurrent(frame[w], hash[i]) /\ i \in Jobs
  <2>1. \E f : Reply(w, f)
    BY DEF Requeue, MarkDead, MarkRunning, MarkSucceeded, MarkRetry
  <2>2. frame[w].pc \notin AtRest
    BY DEF Requeue, MarkDead, MarkRunning, MarkSucceeded, MarkRetry, AtRest
  <2> QED BY <1>1, <2>1, <2>2, Connected, AtOK
<1>3. StatusOf[i] = hash[i].status /\ AttemptsOf[i] = hash[i].attempts /\ RetriesOf[i] = hash[i].retries
  BY <1>2 DEF StatusOf, AttemptsOf, RetriesOf
<1> USE DEF Lifecycle!Next, Lifecycle!Becomes
<1>4. CASE Requeue(w)
  <2>1. Writes(w, "queued", Read(w).attempts, Read(w).retries)
    BY <1>4, WritesOutcome
  <2>2. /\ hash'[i].status = "queued" /\ hash'[i].attempts = hash[i].attempts
        /\ hash'[i].retries = hash[i].retries /\ \A j \in Jobs : j # i => Same(j)
    BY <1>1, <2>1 DEF Writes, Read
  <2>3. i \in Reads /\ hash[i].status \in {"queued", "running"}
    BY <1>1, <1>2, <1>4 DEF FrameCurrent, Requeue
  <2>4. CASE hash[i].status = "queued"
    <3>1. \A j \in Jobs : Same(j)
      BY <2>2, <2>4 DEF Same
    <3> QED BY <3>1, SameStutters
  <2>5. CASE hash[i].status = "running"
    <3>1. StatusOf' = [StatusOf EXCEPT ![i] = "queued"] /\ AttemptsOf' = AttemptsOf /\ RetriesOf' = RetriesOf
      BY <1>2, <2>2, OnlyOne
    <3>2. Lifecycle!Interrupt(i)
      BY <1>3, <2>3, <2>5, <3>1 DEF Lifecycle!Interrupt, StatusOf, AttemptsOf, RetriesOf
    <3> QED BY <1>2, <3>2
  <2> QED BY <2>3, <2>4, <2>5
<1>5. CASE MarkDead(w)
  <2>1. Writes(w, "dead", Read(w).attempts, Read(w).retries)
    BY <1>5, WritesOutcome
  <2>2. /\ hash'[i].status = "dead" /\ hash'[i].attempts = hash[i].attempts
        /\ hash'[i].retries = hash[i].retries /\ \A j \in Jobs : j # i => Same(j)
    BY <1>1, <2>1 DEF Writes, Read
  <2>3. hash[i].status = "running" \/ (i \notin Reads /\ hash[i].status = "queued")
    BY <1>1, <1>2, <1>5 DEF FrameCurrent, MarkDead
  <2>4. StatusOf' = [StatusOf EXCEPT ![i] = "dead"] /\ AttemptsOf' = AttemptsOf /\ RetriesOf' = RetriesOf
    BY <1>2, <2>2, OnlyOne
  <2>5. Lifecycle!Die(i) \/ Lifecycle!Interrupt(i)
    BY <1>3, <2>3, <2>4 DEF Lifecycle!Die, Lifecycle!Interrupt, StatusOf, AttemptsOf, RetriesOf
  <2> QED BY <1>2, <2>5
<1>6. CASE MarkRunning(w)
  <2>1. Writes(w, "running", frame[w].attempts, Read(w).retries)
    BY <1>6, WritesOutcome
  <2>2. frame[w].attempts = hash[i].attempts + 1 /\ hash[i].status = "queued"
    BY <1>1, <1>2, <1>6 DEF FrameCurrent, MarkRunning
  <2>3. /\ hash'[i].status = "running" /\ hash'[i].attempts = hash[i].attempts + 1
        /\ hash'[i].retries = hash[i].retries /\ \A j \in Jobs : j # i => Same(j)
    BY <1>1, <2>1, <2>2 DEF Writes, Read
  <2>4. /\ StatusOf' = [StatusOf EXCEPT ![i] = "running"] /\ RetriesOf' = RetriesOf
        /\ AttemptsOf' = [AttemptsOf EXCEPT ![i] = AttemptsOf[i] + 1]
    BY <1>2, <1>3, <2>3, OnlyOne
  <2>5. Lifecycle!Begin(i)
    BY <1>3, <2>2, <2>4 DEF Lifecycle!Begin, StatusOf, AttemptsOf, RetriesOf
  <2> QED BY <1>2, <2>5
<1>7. CASE MarkSucceeded(w)
  <2>1. Writes(w, "succeeded", Read(w).attempts, Read(w).retries)
    BY <1>7, WritesOutcome
  <2>2. /\ hash'[i].status = "succeeded" /\ hash'[i].attempts = hash[i].attempts
        /\ hash'[i].retries = hash[i].retries /\ \A j \in Jobs : j # i => Same(j)
    BY <1>1, <2>1 DEF Writes, Read
  <2>3. hash[i].status = "running"
    BY <1>1, <1>2, <1>7 DEF FrameCurrent, MarkSucceeded, Executing
  <2>4. StatusOf' = [StatusOf EXCEPT ![i] = "succeeded"] /\ AttemptsOf' = AttemptsOf /\ RetriesOf' = RetriesOf
    BY <1>2, <2>2, OnlyOne
  <2>5. Lifecycle!Succeed(i)
    BY <1>3, <2>3, <2>4 DEF Lifecycle!Succeed, StatusOf, AttemptsOf, RetriesOf
  <2> QED BY <1>2, <2>5
<1>8. CASE MarkRetry(w)
  <2>1. Writes(w, "retry_scheduled", Read(w).attempts, frame[w].retries + 1)
    BY <1>8, WritesOutcome
  <2>2. /\ hash[i].status = "running" /\ i \in Reads
        /\ hash[i].attempts < MaxAttempts /\ hash[i].retries < MaxRetries
        /\ frame[w].retries = hash[i].retries
    BY <1>1, <1>2, <1>8 DEF FrameCurrent, MarkRetry, Executing
  <2>3. /\ hash'[i].status = "retry_scheduled" /\ hash'[i].attempts = hash[i].attempts
        /\ hash'[i].retries = hash[i].retries + 1 /\ \A j \in Jobs : j # i => Same(j)
    BY <1>1, <2>1, <2>2 DEF Writes, Read
  <2>4. /\ StatusOf' = [StatusOf EXCEPT ![i] = "retry_scheduled"] /\ AttemptsOf' = AttemptsOf
        /\ RetriesOf' = [RetriesOf EXCEPT ![i] = RetriesOf[i] + 1]
    BY <1>2, <1>3, <2>3, OnlyOne
  <2>5. Lifecycle!Retry(i)
    BY <1>3, <2>2, <2>4 DEF Lifecycle!Retry, StatusOf, AttemptsOf, RetriesOf
  <2> QED BY <1>2, <2>5
<1> QED BY <1>4, <1>5, <1>6, <1>7, <1>8

(* With one worker, and as long as Redis refuses no command of a connected *)
(* client, the queue implements the lifecycle of D-0005, whatever crashes, *)
(* lost replies, stalls and disk faults occur: succeeded and dead are      *)
(* final, a retry never exceeds its bounds, an interrupted READ job goes   *)
(* back to the queue and any other is dead.                                *)
THEOREM FollowsLifecycle ==
    ASSUME Alone, Budget["refuse"] = 0
    PROVE  Spec => ImplementsLifecycle
<1>1. Init => CountInv /\ CurrentInv
  BY DEF Init, CountInv, JobCounted, FrameCounted, CurrentInv, FrameCurrent, Executing, Free,
     Fresh, Nothing, AtRest
<1>2. TypeOK /\ CountInv /\ CurrentInv /\ [Next]_vars => CountInv' /\ CurrentInv'
  <2>1. ASSUME CountInv, CurrentInv, UNCHANGED vars PROVE CountInv' /\ CurrentInv'
    BY <2>1 DEF CountInv, CurrentInv, vars, lists, local, history
  <2> QED BY <2>1, RecoveryCount, SharedCount, CycleCount, OthersCount, RecoveryCurrent,
             SharedCurrent, CycleCurrent, OthersCurrent DEF Next, Step
<1>3. Init => Lifecycle!Init
  BY DEF Init, Lifecycle!Init, Fresh
<1>4. TypeOK /\ CountInv /\ CurrentInv /\ [Next]_vars => [Lifecycle!Next]_Lifecycle!vars
  <2> SUFFICES ASSUME TypeOK, CountInv, CurrentInv, [Next]_vars
               PROVE  Lifecycle!Next \/ UNCHANGED Lifecycle!vars
    OBVIOUS
  <2>1. CASE UNCHANGED vars
    BY <2>1 DEF vars, Lifecycle!vars
  <2>2. ASSUME NEW i \in Jobs, Enqueue(i) PROVE Lifecycle!Next
    BY <2>2, EnqueueCreates DEF Lifecycle!Next
  <2>3. ASSUME (\E w \in Workers : Reading(w)) \/ \E i \in Jobs : LeaseExpires(i)
        PROVE  UNCHANGED Lifecycle!vars
    BY <2>3, ReadingSame, SameStutters
  <2>4. ASSUME NEW w \in Workers, Step(w) \/ Renew(w) \/ Crash(w)
        PROVE  \/ Reading(w)
               \/ Requeue(w) \/ MarkDead(w) \/ MarkRunning(w) \/ MarkSucceeded(w) \/ MarkRetry(w)
    BY <2>4 DEF Step, Recovery, Shared, Cycle, Reading
  <2> QED BY <2>1, <2>2, <2>3, <2>4, WriteFollows DEF Next
<1> QED BY <1>1, <1>2, <1>3, <1>4, TypeCorrect, PTL DEF Spec, ImplementsLifecycle, Lifecycle!Spec

-----------------------------------------------------------------------------
(* Frames and their parts                                                  *)

(* What the frames the actions build have in common.                       *)
LEMMA Parts ==
    ASSUME TypeOK, NEW w \in Workers
    PROVE  /\ \A p : /\ At(w, p).pc = p /\ At(w, p).job = frame[w].job /\ At(w, p).rec = frame[w].rec
                     /\ At(w, p).todo = frame[w].todo /\ At(w, p).noted = frame[w].noted
           /\ \A p : Free(p).pc = p /\ Free(p).job = None /\ Free(p).todo = Nothing
           /\ NextEntry(w).job = None /\ NextEntry(w).todo = frame[w].todo
           /\ frame[w].todo \in Bag /\ Nothing \in Bag /\ frame[w] \in FrameType
<1>1. frame[w] \in FrameType
  BY DEF TypeOK
<1> QED BY <1>1 DEF At, Free, NextEntry, FrameType, Bag, Nothing

-----------------------------------------------------------------------------
(* With one worker process no job is lost                                  *)

(* One worker process; ids may be reused.                                  *)
OneWorker == \A v, w \in Workers : v = w

(* The workers besides w are at rest.                                      *)
OthersRest(w) == \A v \in Workers : v # w => frame[v] = Free("top")

(* A job whose id was enqueued again: its entry waits in the ready list.   *)
Again(h, r) == h.status = "queued" /\ r > 0

(* Of a job with hash h, r entries in the ready list and p in processing:  *)
(* Accounted, and a running job is in processing.                          *)
Stocked(h, r, p) ==
    /\ h.status = "running" => p > 0
    /\ h.status = "queued"  => r > 0 \/ p > 0
    /\ h.status = "dead" /\ ~Reported(h) => p > 0

(* What the program point of a connected worker says of its job's hash,    *)
(* unless the id was enqueued again meanwhile.                             *)
Stands(f, h, r) ==
    /\ f.pc \in {"fetch", "push"} => h.status = "queued"
    /\ f.pc = "ackOk" => h.status = "succeeded" \/ Again(h, r)
    /\ f.pc = "zadd"  => h.status = "retry_scheduled" \/ Again(h, r)
    /\ f.pc = "dlq"   => (h.status = "dead" /\ (f.noted => h.noteMark)) \/ Again(h, r)
    /\ f.pc = "note"  => (h.status = "dead" /\ h.dlqMark) \/ Again(h, r)
    /\ f.pc = "ack"   => Settled(h) \/ h.status = "retry_scheduled" \/ Again(h, r)

(* A job in hand has its entry in processing still, and one more for each  *)
(* visit of the recovery pass to come: only the worker itself removes them.*)
Handles(f, j, h, r, p) ==
    /\ f.todo[j] + (IF f.job = j /\ f.rec THEN 1 ELSE 0) <= p
    /\ f.job = j => p > 0 /\ Stands(f, h, r)

AccInv ==
    \A j \in Jobs :
       /\ Stocked(hash[j], ready[j], processing[j])
       /\ \A w \in Workers : linked[w] => Handles(frame[w], j, hash[j], ready[j], processing[j])

(* What is known of a job before a step, as numbers and a hash.            *)
LEMMA Now ==
    ASSUME TypeOK, AccInv, NEW w \in Workers, linked[w], NEW j \in Jobs
    PROVE  /\ hash[j] \in HashType /\ ready[j] \in Nat /\ processing[j] \in Nat /\ j # None
           /\ Stocked(hash[j], ready[j], processing[j])
           /\ Handles(frame[w], j, hash[j], ready[j], processing[j])
           /\ frame[w].todo[j] \in Nat /\ frame[w].rec \in BOOLEAN
<1>1. frame[w].todo \in Bag /\ frame[w].rec \in BOOLEAN
  BY Parts DEF FrameType
<1> QED BY <1>1, ConstantsAssumption DEF TypeOK, Bag, AccInv

(* A worker with no job in hand owes the lists nothing but its todo.       *)
LEMMA Idles ==
    ASSUME NEW f, NEW j \in Jobs, NEW h, NEW r, NEW p, f.job = None, f.todo[j] \in Nat, f.todo[j] <= p
    PROVE  Handles(f, j, h, r, p)
BY ConstantsAssumption DEF Handles

(* A worker at rest has no job in hand.                                    *)
LEMMA RestHandles ==
    ASSUME TypeOK, NEW w \in Workers, NEW j \in Jobs, NEW h, NEW r, NEW p \in Nat
    PROVE  /\ \A q : Handles(Free(q), j, h, r, p)
           /\ frame[w].todo[j] <= p => Handles(NextEntry(w), j, h, r, p)
<1>1. Nothing[j] = 0 /\ frame[w].todo[j] \in Nat
  BY Parts DEF Nothing, Bag
<1> QED BY <1>1, Parts, Idles

(* A step of the one worker that does something, told by its new frame.    *)
LEMMA Moves ==
    ASSUME TypeOK, TypeOK', NEW w \in Workers, OthersRest(w), NEW f,
           frame' = [frame EXCEPT ![w] = f],
           \A j \in Jobs : Stocked(hash'[j], ready'[j], processing'[j]),
           linked'[w] => \A j \in Jobs : Handles(f, j, hash'[j], ready'[j], processing'[j])
    PROVE  AccInv'
<1>1. frame'[w] = f /\ \A v \in Workers : v # w => frame'[v] = Free("top")
  BY DEF TypeOK, OthersRest
<1>2. \A j \in Jobs : processing'[j] \in Nat
  BY DEF TypeOK, Bag
<1>3. ASSUME NEW j \in Jobs PROVE Handles(Free("top"), j, hash'[j], ready'[j], processing'[j])
  BY <1>2, RestHandles
<1> QED BY <1>1, <1>3 DEF AccInv

(* The same, whether the reply arrives or not.                             *)
LEMMA Replies ==
    ASSUME TypeOK, TypeOK', NEW w \in Workers, OthersRest(w), NEW f, Reply(w, f),
           \A j \in Jobs : /\ Stocked(hash'[j], ready'[j], processing'[j])
                           /\ Handles(f, j, hash'[j], ready'[j], processing'[j])
    PROVE  AccInv'
<1>1. CASE frame' = [frame EXCEPT ![w] = f]
  BY <1>1, Moves
<1>2. CASE frame' = [frame EXCEPT ![w] = ErrorFrame(w)] /\ linked' = [linked EXCEPT ![w] = FALSE]
  <2>1. ~linked'[w]
    BY <1>2 DEF TypeOK
  <2> QED BY <1>2, <2>1, Moves
<1> QED BY <1>1, <1>2 DEF Reply

LEMMA RecoveryKeepsJobs ==
    ASSUME TypeOK, TypeOK', AccInv, NEW w \in Workers, OthersRest(w), Recovery(w)
    PROVE  AccInv'
<1> USE DEF lists, history
<1>1. CASE StartRecovery(w)
  <2> DEFINE f == [Free("rec") EXCEPT !.todo = processing]
  <2>1. Reply(w, f) /\ linked[w] /\ hash' = hash /\ ready' = ready /\ processing' = processing
    BY <1>1 DEF StartRecovery, Reply
  <2>2. f.job = None /\ f.todo = processing
    BY DEF Free
  <2> HIDE DEF f
  <2>3. ASSUME NEW j \in Jobs
        PROVE  Stocked(hash'[j], ready'[j], processing'[j]) /\ Handles(f, j, hash'[j], ready'[j], processing'[j])
    BY <2>1, <2>2, Now, Idles
  <2> QED BY <2>1, <2>3, Replies
<1>2. CASE SkipRecovery(w) \/ RecoveryDone(w)
  <2>1. /\ frame' = [frame EXCEPT ![w] = Free("due")] /\ linked' = linked
        /\ hash' = hash /\ ready' = ready /\ processing' = processing
    BY <1>2 DEF SkipRecovery, RecoveryDone
  <2>2. ASSUME NEW j \in Jobs
        PROVE  /\ Stocked(hash'[j], ready'[j], processing'[j])
               /\ Handles(Free("due"), j, hash'[j], ready'[j], processing'[j])
    BY <2>1, RestHandles DEF AccInv, TypeOK, Bag
  <2> QED BY <2>1, <2>2, Moves
<1>3. CASE RecoverNext(w)
  <2>1. PICK i \in Jobs : frame[w].todo[i] > 0 /\ Reply(w, RecoveryFrame(w, i))
    BY <1>3 DEF RecoverNext
  <2>2. PICK f : f = RecoveryFrame(w, i)
    OBVIOUS
  <2>3. frame[w].pc = "rec" /\ hash' = hash /\ ready' = ready /\ processing' = processing /\ linked[w]
    BY <1>3, <2>1 DEF RecoverNext, Reply
  <2>4. frame[w].job = None
    BY <2>3 DEF TypeOK, HasJobUnlessAtRest, AtRest
  <2>5. /\ \A j \in Jobs : f.todo[j] = IF j = i THEN frame[w].todo[j] - 1 ELSE frame[w].todo[j]
        /\ f.job \in {None, i}
        /\ f.job = i => f.pc = Verdict(i, hash[i]) /\ f.pc # "rec" /\ f.noted = hash[i].noteMark
    BY <2>2, Parts, ConstantsAssumption DEF RecoveryFrame, Free, Bag
  <2>6. ASSUME NEW j \in Jobs
        PROVE  Stocked(hash[j], ready[j], processing[j]) /\ Handles(f, j, hash[j], ready[j], processing[j])
    <3>1. /\ hash[j] \in HashType /\ ready[j] \in Nat /\ processing[j] \in Nat /\ j # None
          /\ Stocked(hash[j], ready[j], processing[j])
          /\ frame[w].todo[j] <= processing[j] /\ frame[w].todo[j] \in Nat
      BY <2>3, <2>4, Now DEF Handles
    <3>2. CASE f.job # j
      BY <2>1, <2>5, <3>1, <3>2 DEF Handles
    <3>3. CASE f.job = j
      <4>1. j = i /\ f.todo[j] + 1 <= processing[j] /\ f.todo[j] \in Nat
        BY <2>1, <2>5, <3>1, <3>3
      <4>2. Stands(f, hash[j], ready[j])
        BY <2>5, <3>1, <3>3, <4>1 DEF Stands, Verdict, Settled, Reported, HashType, Statuses
      <4> QED BY <3>1, <4>1, <4>2 DEF Handles
    <3> QED BY <3>2, <3>3
  <2> QED BY <2>1, <2>2, <2>3, <2>6, Replies
<1>4. CASE Requeue(w)
  <2>1. PICK i : i = frame[w].job
    OBVIOUS
  <2>2. PICK f : f = At(w, "push")
    OBVIOUS
  <2>3. /\ i \in Jobs /\ Reply(w, f) /\ linked[w] /\ ready' = ready /\ processing' = processing
        /\ hash' = [hash EXCEPT ![i].status = "queued", ![i].owner = None, ![i].lease = FALSE]
    BY <1>4, <2>1, <2>2, AtOK DEF Requeue, Reply, AtRest
  <2>4. /\ f.pc = "push" /\ f.job = i /\ f.rec = frame[w].rec /\ f.todo = frame[w].todo
    BY <2>1, <2>2, Parts
  <2>5. ASSUME NEW j \in Jobs
        PROVE  Stocked(hash'[j], ready'[j], processing'[j]) /\ Handles(f, j, hash'[j], ready'[j], processing'[j])
    <3>1. /\ hash[j] \in HashType /\ ready[j] \in Nat /\ processing[j] \in Nat
          /\ Stocked(hash[j], ready[j], processing[j])
          /\ Handles(frame[w], j, hash[j], ready[j], processing[j])
      BY <2>3, Now
    <3>2. j # i => hash'[j] = hash[j]
      BY <2>3 DEF TypeOK
    <3>3. j = i => hash'[j].status = "queued"
      BY <2>3 DEF TypeOK, HashType
    <3> QED BY <2>1, <2>3, <2>4, <3>1, <3>2, <3>3 DEF Handles, Stands, Stocked
  <2> QED BY <2>3, <2>5, Replies
<1>5. CASE Push(w)
  <2>1. PICK i : i = frame[w].job
    OBVIOUS
  <2>2. PICK f : f = At(w, "ack")
    OBVIOUS
  <2>3. /\ i \in Jobs /\ Reply(w, f) /\ linked[w] /\ hash' = hash /\ processing' = processing
        /\ ready' = Put(ready, i) /\ frame[w].pc = "push"
    BY <1>5, <2>1, <2>2, AtOK DEF Push, Reply, AtRest
  <2>4. /\ f.pc = "ack" /\ f.job = i /\ f.rec = frame[w].rec /\ f.todo = frame[w].todo
    BY <2>1, <2>2, Parts
  <2>5. ASSUME NEW j \in Jobs
        PROVE  Stocked(hash'[j], ready'[j], processing'[j]) /\ Handles(f, j, hash'[j], ready'[j], processing'[j])
    <3>1. /\ hash[j] \in HashType /\ ready[j] \in Nat /\ processing[j] \in Nat
          /\ Stocked(hash[j], ready[j], processing[j])
          /\ Handles(frame[w], j, hash[j], ready[j], processing[j])
      BY <2>3, Now
    <3>2. ready'[j] = IF j = i THEN ready[j] + 1 ELSE ready[j]
      BY <2>3 DEF TypeOK, Put, Bag
    <3> QED BY <2>1, <2>3, <2>4, <3>1, <3>2 DEF Handles, Stands, Stocked, Again
  <2> QED BY <2>3, <2>5, Replies
<1> QED BY <1>1, <1>2, <1>3, <1>4, <1>5 DEF Recovery

LEMMA SharedKeepsJobs ==
    ASSUME TypeOK, TypeOK', AccInv, NEW w \in Workers, OthersRest(w), Shared(w)
    PROVE  AccInv'
<1> USE DEF lists, history
<1>0. PICK i : i = frame[w].job
  OBVIOUS
<1>a. frame[w].pc \notin AtRest => i \in Jobs
  BY <1>0, AtOK
<1>b. \A j \in Jobs : linked[w] =>
         /\ hash[j] \in HashType /\ ready[j] \in Nat /\ processing[j] \in Nat
         /\ Stocked(hash[j], ready[j], processing[j])
         /\ Handles(frame[w], j, hash[j], ready[j], processing[j])
         /\ frame[w].todo[j] \in Nat /\ frame[w].rec \in BOOLEAN
  BY Now
<1>c. hash \in [Jobs -> HashType] /\ ready \in Bag /\ processing \in Bag
  BY DEF TypeOK
<1>1. CASE MarkDead(w)
  <2>1. PICK f : f = [At(w, "dlq") EXCEPT !.noted = FALSE]
    OBVIOUS
  <2>2. /\ i \in Jobs /\ Reply(w, f) /\ linked[w] /\ ready' = ready /\ processing' = processing
        /\ hash' = [hash EXCEPT ![i].status = "dead", ![i].owner = None, ![i].lease = FALSE,
                                ![i].dlqMark = FALSE, ![i].noteMark = FALSE]
    BY <1>0, <1>a, <1>1, <2>1 DEF MarkDead, Reply, AtRest
  <2>3. f.pc = "dlq" /\ f.job = i /\ f.rec = frame[w].rec /\ f.todo = frame[w].todo /\ ~f.noted
    <3>1. At(w, "dlq") \in FrameType
      BY <1>1, AtOK DEF FrameOK, MarkDead, AtRest, AtJob
    <3> QED BY <1>0, <2>1, <3>1, Parts DEF FrameType
  <2>4. ASSUME NEW j \in Jobs
        PROVE  Stocked(hash'[j], ready'[j], processing'[j]) /\ Handles(f, j, hash'[j], ready'[j], processing'[j])
    <3>1. (j # i => hash'[j] = hash[j]) /\ (j = i => hash'[j].status = "dead")
      BY <1>c, <2>2 DEF HashType
    <3> QED BY <1>0, <1>b, <2>2, <2>3, <3>1 DEF Handles, Stands, Stocked
  <2> QED BY <2>2, <2>4, Replies
<1>2. CASE FileDlq(w)
  <2>1. PICK f : f = At(w, IF frame[w].noted THEN "ack" ELSE "note")
    OBVIOUS
  <2>2. /\ i \in Jobs /\ Reply(w, f) /\ linked[w] /\ ready' = ready /\ processing' = processing
        /\ hash' = [hash EXCEPT ![i].dlqMark = TRUE] /\ frame[w].pc = "dlq"
    BY <1>0, <1>a, <1>2, <2>1 DEF FileDlq, Reply, AtRest
  <2>3. /\ f.pc = (IF frame[w].noted THEN "ack" ELSE "note")
        /\ f.job = i /\ f.rec = frame[w].rec /\ f.todo = frame[w].todo
    BY <1>0, <2>1, Parts
  <2>4. ASSUME NEW j \in Jobs
        PROVE  Stocked(hash'[j], ready'[j], processing'[j]) /\ Handles(f, j, hash'[j], ready'[j], processing'[j])
    <3>1. CASE j # i
      <4>1. hash'[j] = hash[j]
        BY <1>c, <2>2, <3>1
      <4> QED BY <1>0, <1>b, <2>2, <2>3, <3>1, <4>1 DEF Handles
    <3>2. CASE j = i
      <4>1. hash'[i].status = hash[i].status /\ hash'[i].noteMark = hash[i].noteMark /\ hash'[i].dlqMark
        BY <1>c, <2>2 DEF HashType
      <4>2. Stands(f, hash'[i], ready[i])
        BY <1>0, <1>b, <2>2, <2>3, <4>1 DEF Handles, Stands, Again, Settled, Reported
      <4>3. Stocked(hash'[i], ready[i], processing[i])
        BY <1>b, <2>2, <4>1 DEF Stocked, Reported
      <4> QED BY <1>0, <1>b, <2>2, <2>3, <3>2, <4>2, <4>3 DEF Handles
    <3> QED BY <3>1, <3>2
  <2> QED BY <2>2, <2>4, Replies
<1>3. CASE Notify(w)
  <2>1. PICK f : f = At(w, "ack")
    OBVIOUS
  <2>2. /\ i \in Jobs /\ Reply(w, f) /\ linked[w] /\ ready' = ready /\ processing' = processing
        /\ hash' = [hash EXCEPT ![i].noteMark = TRUE] /\ frame[w].pc = "note"
    BY <1>0, <1>a, <1>3, <2>1 DEF Notify, Reply, AtRest
  <2>3. f.pc = "ack" /\ f.job = i /\ f.rec = frame[w].rec /\ f.todo = frame[w].todo
    BY <1>0, <2>1, Parts
  <2>4. ASSUME NEW j \in Jobs
        PROVE  Stocked(hash'[j], ready'[j], processing'[j]) /\ Handles(f, j, hash'[j], ready'[j], processing'[j])
    <3>1. CASE j # i
      <4>1. hash'[j] = hash[j]
        BY <1>c, <2>2, <3>1
      <4> QED BY <1>0, <1>b, <2>2, <2>3, <3>1, <4>1 DEF Handles
    <3>2. CASE j = i
      <4>1. hash'[i].status = hash[i].status /\ hash'[i].dlqMark = hash[i].dlqMark /\ hash'[i].noteMark
        BY <1>c, <2>2 DEF HashType
      <4>2. Stands(f, hash'[i], ready[i])
        BY <1>0, <1>b, <2>2, <2>3, <4>1 DEF Handles, Stands, Again, Settled, Reported
      <4>3. Stocked(hash'[i], ready[i], processing[i])
        BY <1>b, <2>2, <4>1 DEF Stocked, Reported
      <4> QED BY <1>0, <1>b, <2>2, <2>3, <3>2, <4>2, <4>3 DEF Handles
    <3> QED BY <3>1, <3>2
  <2> QED BY <2>2, <2>4, Replies
<1>4. CASE ScheduleRetry(w)
  <2>1. PICK f : f = At(w, "ack")
    OBVIOUS
  <2>2. /\ i \in Jobs /\ Reply(w, f) /\ linked[w] /\ ready' = ready /\ processing' = processing
        /\ hash' = hash /\ frame[w].pc = "zadd"
    BY <1>0, <1>a, <1>4, <2>1 DEF ScheduleRetry, Reply, AtRest
  <2>3. f.pc = "ack" /\ f.job = i /\ f.rec = frame[w].rec /\ f.todo = frame[w].todo
    BY <1>0, <2>1, Parts
  <2>4. ASSUME NEW j \in Jobs
        PROVE  Stocked(hash'[j], ready'[j], processing'[j]) /\ Handles(f, j, hash'[j], ready'[j], processing'[j])
    BY <1>0, <1>b, <2>2, <2>3 DEF Handles, Stands
  <2> QED BY <2>2, <2>4, Replies
<1>5. CASE Acknowledge(w)
  <2>1. PICK f : f = IF frame[w].rec THEN NextEntry(w) ELSE Free("top")
    OBVIOUS
  <2>2. /\ i \in Jobs /\ Reply(w, f) /\ linked[w] /\ ready' = ready /\ processing' = Take(processing, i)
        /\ hash' = hash /\ frame[w].pc \in {"ack", "ackOk"}
    BY <1>0, <1>a, <1>5, <2>1 DEF Acknowledge, Reply, AtRest
  <2>3. ASSUME NEW j \in Jobs
        PROVE  Stocked(hash'[j], ready'[j], processing'[j]) /\ Handles(f, j, hash'[j], ready'[j], processing'[j])
    <3>1. processing'[j] = IF j = i /\ processing[j] > 0 THEN processing[j] - 1 ELSE processing[j]
      BY <1>c, <2>2 DEF Take, Bag
    <3>2. /\ hash[j] \in HashType /\ ready[j] \in Nat /\ processing[j] \in Nat
          /\ Stocked(hash[j], ready[j], processing[j])
          /\ Handles(frame[w], j, hash[j], ready[j], processing[j])
          /\ frame[w].todo[j] \in Nat /\ frame[w].rec \in BOOLEAN
      BY <1>b, <2>2
    <3>3. processing'[j] \in Nat /\ (frame[w].rec => frame[w].todo[j] <= processing'[j])
      BY <1>0, <3>1, <3>2 DEF Handles
    <3>4. Handles(f, j, hash'[j], ready'[j], processing'[j])
      BY <2>1, <3>3, RestHandles
    <3>5. Stocked(hash'[j], ready'[j], processing'[j])
      <4>1. CASE j # i
        BY <2>2, <3>1, <3>2, <4>1
      <4>2. CASE j = i
        <5>1. Stands(frame[w], hash[i], ready[i])
          BY <1>0, <3>2, <4>2 DEF Handles
        <5> QED BY <2>2, <3>2, <4>2, <5>1 DEF Stands, Stocked, Again, Settled, Reported
      <4> QED BY <4>1, <4>2
    <3> QED BY <3>4, <3>5
  <2> QED BY <2>2, <2>3, Replies
<1> QED BY <1>1, <1>2, <1>3, <1>4, <1>5 DEF Shared

LEMMA CycleKeepsJobs ==
    ASSUME TypeOK, TypeOK', AccInv, NEW w \in Workers, OthersRest(w), Cycle(w)
    PROVE  AccInv'
<1> USE DEF lists, history
<1>0. PICK i : i = frame[w].job
  OBVIOUS
<1>a. frame[w].pc \notin AtRest => i \in Jobs
  BY <1>0, AtOK
<1>b. \A j \in Jobs : linked[w] =>
         /\ hash[j] \in HashType /\ ready[j] \in Nat /\ processing[j] \in Nat /\ j # None
         /\ Stocked(hash[j], ready[j], processing[j])
         /\ Handles(frame[w], j, hash[j], ready[j], processing[j])
         /\ frame[w].todo[j] \in Nat /\ frame[w].rec \in BOOLEAN
  BY Now
<1>c. hash \in [Jobs -> HashType] /\ ready \in Bag /\ processing \in Bag
  BY DEF TypeOK
<1>1. ASSUME NEW due \in SUBSET delayed, MoveDueDelayed(w, due) PROVE AccInv'
  <2>1. /\ Reply(w, Free("claim")) /\ linked[w] /\ hash' = hash /\ processing' = processing
        /\ ready' = [j \in Jobs |-> IF j \in due THEN ready[j] + 1 ELSE ready[j]]
    BY <1>1 DEF MoveDueDelayed, Reply
  <2>2. ASSUME NEW j \in Jobs
        PROVE  /\ Stocked(hash'[j], ready'[j], processing'[j])
               /\ Handles(Free("claim"), j, hash'[j], ready'[j], processing'[j])
    <3>1. /\ ready[j] \in Nat /\ processing'[j] = processing[j] /\ processing[j] \in Nat
          /\ hash'[j] = hash[j] /\ Stocked(hash[j], ready[j], processing[j])
      BY <1>b, <2>1
    <3>2. ready'[j] >= ready[j] /\ ready'[j] \in Nat
      BY <2>1, <3>1
    <3>3. Stocked(hash'[j], ready'[j], processing'[j])
      BY <3>1, <3>2 DEF Stocked
    <3>4. Handles(Free("claim"), j, hash'[j], ready'[j], processing'[j])
      BY <3>1, RestHandles
    <3> QED BY <3>3, <3>4
  <2> QED BY <2>1, <2>2, Replies
<1>2. CASE ClaimNothing(w)
  <2>1. Reply(w, Free("top")) /\ linked[w] /\ hash' = hash /\ ready' = ready /\ processing' = processing
    BY <1>2 DEF ClaimNothing, Reply
  <2>2. ASSUME NEW j \in Jobs
        PROVE  /\ Stocked(hash'[j], ready'[j], processing'[j])
               /\ Handles(Free("top"), j, hash'[j], ready'[j], processing'[j])
    BY <1>b, <2>1, RestHandles
  <2> QED BY <2>1, <2>2, Replies
<1>3. ASSUME NEW k \in Jobs, ClaimStale(w, k) PROVE AccInv'
  <2>1. /\ Reply(w, Free("top")) /\ linked[w] /\ hash' = hash /\ processing' = processing
        /\ hash[k].status # "queued" /\ ready' = Take(ready, k)
    BY <1>3 DEF ClaimStale, Reply
  <2>2. ASSUME NEW j \in Jobs
        PROVE  /\ Stocked(hash'[j], ready'[j], processing'[j])
               /\ Handles(Free("top"), j, hash'[j], ready'[j], processing'[j])
    <3>1. j # k => ready'[j] = ready[j]
      BY <1>c, <2>1 DEF Take, Bag
    <3> QED BY <1>b, <2>1, <3>1, RestHandles DEF Stocked
  <2> QED BY <2>1, <2>2, Replies
<1>4. ASSUME NEW k \in Jobs, Claim(w, k) PROVE AccInv'
  <2>1. PICK f : f = [Free("fetch") EXCEPT !.job = k]
    OBVIOUS
  <2>2. /\ Reply(w, f) /\ linked[w] /\ ready' = Take(ready, k) /\ processing' = Put(processing, k)
        /\ hash' = [hash EXCEPT ![k].owner = w, ![k].lease = TRUE] /\ hash[k].status = "queued"
    BY <1>4, <2>1 DEF Claim, Reply
  <2>3. f.pc = "fetch" /\ f.job = k /\ f.rec = FALSE /\ f.todo = Nothing
    BY <2>1 DEF Free
  <2>4. ASSUME NEW j \in Jobs
        PROVE  Stocked(hash'[j], ready'[j], processing'[j]) /\ Handles(f, j, hash'[j], ready'[j], processing'[j])
    <3>1. /\ j # k => hash'[j] = hash[j] /\ ready'[j] = ready[j] /\ processing'[j] = processing[j]
          /\ j = k => hash'[j].status = "queued" /\ processing'[j] = processing[j] + 1
      BY <1>c, <2>2 DEF Put, Take, Bag, HashType
    <3>2. f.todo[j] = 0
      BY <2>3 DEF Nothing
    <3> QED BY <1>b, <2>2, <2>3, <3>1, <3>2 DEF Handles, Stands, Stocked
  <2> QED BY <2>2, <2>4, Replies
<1>5. CASE Fetch(w)
  <2>1. linked[w] /\ frame[w].pc = "fetch" /\ i \in Jobs /\ hash' = hash /\ ready' = ready /\ processing' = processing
    BY <1>0, <1>a, <1>5 DEF Fetch, Reply, AtRest
  <2>2. hash[i].status = "queued"
    BY <1>0, <1>b, <2>1 DEF Handles, Stands
  <2>3. PICK f : f = [At(w, "start") EXCEPT !.attempts = Attempt(hash[i]), !.retries = hash[i].retries]
    OBVIOUS
  <2>4. Reply(w, f)
    BY <1>0, <1>5, <2>2, <2>3 DEF Fetch, Terminal
  <2>5. f.pc = "start" /\ f.job = i /\ f.rec = frame[w].rec /\ f.todo = frame[w].todo
    <3>1. At(w, "start") \in FrameType
      BY <2>1, AtOK DEF FrameOK, AtRest, AtJob
    <3> QED BY <1>0, <2>3, <3>1, Parts DEF FrameType
  <2>6. ASSUME NEW j \in Jobs
        PROVE  Stocked(hash'[j], ready'[j], processing'[j]) /\ Handles(f, j, hash'[j], ready'[j], processing'[j])
    BY <1>0, <1>b, <2>1, <2>5 DEF Handles, Stands
  <2> QED BY <2>4, <2>6, Replies
<1>6. CASE MarkRunning(w)
  <2>1. PICK f : f = At(w, "call")
    OBVIOUS
  <2>2. /\ i \in Jobs /\ Reply(w, f) /\ linked[w] /\ ready' = ready /\ processing' = processing
        /\ hash' = [hash EXCEPT ![i].status = "running", ![i].attempts = frame[w].attempts]
    BY <1>0, <1>a, <1>6, <2>1 DEF MarkRunning, Reply, AtRest
  <2>3. f.pc = "call" /\ f.job = i /\ f.rec = frame[w].rec /\ f.todo = frame[w].todo
    BY <1>0, <2>1, Parts
  <2>4. ASSUME NEW j \in Jobs
        PROVE  Stocked(hash'[j], ready'[j], processing'[j]) /\ Handles(f, j, hash'[j], ready'[j], processing'[j])
    <3>1. (j # i => hash'[j] = hash[j]) /\ (j = i => hash'[j].status = "running")
      BY <1>c, <2>2 DEF HashType
    <3> QED BY <1>0, <1>b, <2>2, <2>3, <3>1 DEF Handles, Stands, Stocked
  <2> QED BY <2>2, <2>4, Replies
<1>7. CASE CallTool(w) \/ ToolReturns(w) \/ CatchRetry(w) \/ CatchDead(w)
  <2>1. /\ frame[w].pc \notin AtRest /\ linked' = linked
        /\ hash' = hash /\ ready' = ready /\ processing' = processing
        /\ \E p \in {"exec", "markOk", "caught", "markRetry", "markDead"} : frame' = [frame EXCEPT ![w] = At(w, p)]
    BY <1>7 DEF CallTool, ToolReturns, CatchRetry, CatchDead, AtRest
  <2>2. PICK f : frame' = [frame EXCEPT ![w] = f] /\ f.job = i /\ f.rec = frame[w].rec /\ f.todo = frame[w].todo
                 /\ f.pc \in {"exec", "markOk", "caught", "markRetry", "markDead"}
    <3>1. PICK p \in {"exec", "markOk", "caught", "markRetry", "markDead"} : frame' = [frame EXCEPT ![w] = At(w, p)]
      BY <2>1
    <3>2. PICK g : g = At(w, p)
      OBVIOUS
    <3>3. g.job = i /\ g.rec = frame[w].rec /\ g.todo = frame[w].todo /\ g.pc = p
      BY <1>0, <3>2, Parts
    <3> QED BY <3>1, <3>2, <3>3
  <2>3. \A j \in Jobs : Stocked(hash'[j], ready'[j], processing'[j])
    BY <2>1 DEF AccInv
  <2>4. linked'[w] => \A j \in Jobs : Handles(f, j, hash'[j], ready'[j], processing'[j])
    BY <1>0, <1>b, <2>1, <2>2 DEF Handles, Stands
  <2> QED BY <2>2, <2>3, <2>4, Moves
<1>8. CASE MarkSucceeded(w)
  <2>1. PICK f : f = At(w, "ackOk")
    OBVIOUS
  <2>2. /\ i \in Jobs /\ Reply(w, f) /\ linked[w] /\ ready' = ready /\ processing' = processing
        /\ hash' = [hash EXCEPT ![i].status = "succeeded", ![i].owner = None, ![i].lease = FALSE]
    BY <1>0, <1>a, <1>8, <2>1 DEF MarkSucceeded, Reply, AtRest
  <2>3. f.pc = "ackOk" /\ f.job = i /\ f.rec = frame[w].rec /\ f.todo = frame[w].todo
    BY <1>0, <2>1, Parts
  <2>4. ASSUME NEW j \in Jobs
        PROVE  Stocked(hash'[j], ready'[j], processing'[j]) /\ Handles(f, j, hash'[j], ready'[j], processing'[j])
    <3>1. (j # i => hash'[j] = hash[j]) /\ (j = i => hash'[j].status = "succeeded")
      BY <1>c, <2>2 DEF HashType
    <3> QED BY <1>0, <1>b, <2>2, <2>3, <3>1 DEF Handles, Stands, Stocked
  <2> QED BY <2>2, <2>4, Replies
<1>9. CASE MarkRetry(w)
  <2>1. PICK f : f = At(w, "zadd")
    OBVIOUS
  <2>2. /\ i \in Jobs /\ Reply(w, f) /\ linked[w] /\ ready' = ready /\ processing' = processing
        /\ hash' = [hash EXCEPT ![i].status = "retry_scheduled", ![i].retries = frame[w].retries + 1,
                                ![i].owner = None, ![i].lease = FALSE]
    BY <1>0, <1>a, <1>9, <2>1 DEF MarkRetry, Reply, AtRest
  <2>3. f.pc = "zadd" /\ f.job = i /\ f.rec = frame[w].rec /\ f.todo = frame[w].todo
    BY <1>0, <2>1, Parts
  <2>4. ASSUME NEW j \in Jobs
        PROVE  Stocked(hash'[j], ready'[j], processing'[j]) /\ Handles(f, j, hash'[j], ready'[j], processing'[j])
    <3>1. (j # i => hash'[j] = hash[j]) /\ (j = i => hash'[j].status = "retry_scheduled")
      BY <1>c, <2>2 DEF HashType
    <3> QED BY <1>0, <1>b, <2>2, <2>3, <3>1 DEF Handles, Stands, Stocked
  <2> QED BY <2>2, <2>4, Replies
<1> QED BY <1>1, <1>2, <1>3, <1>4, <1>5, <1>6, <1>7, <1>8, <1>9 DEF Cycle

LEMMA OthersKeepJobs ==
    ASSUME TypeOK, TypeOK', AccInv,
           \/ \E i \in Jobs : Enqueue(i) \/ LeaseExpires(i)
           \/ \E w \in Workers : OthersRest(w) /\ (Rejected(w) \/ Renew(w) \/ Crash(w))
    PROVE  AccInv'
<1> USE DEF lists, history, local
<1>c. hash \in [Jobs -> HashType] /\ ready \in Bag /\ processing \in Bag
  BY DEF TypeOK
<1>1. ASSUME NEW i \in Jobs, Enqueue(i) PROVE AccInv'
  <2>1. /\ frame' = frame /\ linked' = linked /\ processing' = processing /\ ready' = Put(ready, i)
        /\ hash' = [hash EXCEPT ![i].status = "queued", ![i].attempts = 0, ![i].retries = 0,
                                ![i].dlqMark = FALSE, ![i].noteMark = FALSE]
    BY <1>1 DEF Enqueue
  <2>2. ASSUME NEW j \in Jobs
        PROVE  /\ j # i => hash'[j] = hash[j] /\ ready'[j] = ready[j]
               /\ j = i => hash'[j].status = "queued" /\ ready'[j] > 0
    BY <1>c, <2>1 DEF HashType, Put, Bag
  <2>3. ASSUME NEW j \in Jobs PROVE Stocked(hash'[j], ready'[j], processing'[j])
    BY <2>1, <2>2 DEF AccInv, Stocked
  <2>4. ASSUME NEW j \in Jobs, NEW w \in Workers, linked[w]
        PROVE  Handles(frame[w], j, hash'[j], ready'[j], processing'[j])
    <3>1. CASE j # i
      BY <2>1, <2>2, <2>4, <3>1 DEF AccInv
    <3>2. CASE j = i
      <4>1. Stands(frame[w], hash'[i], ready'[i])
        BY <2>2, <3>2 DEF Stands, Again
      <4> QED BY <2>1, <2>4, <3>2, <4>1 DEF AccInv, Handles
    <3> QED BY <3>1, <3>2
  <2> QED BY <2>1, <2>3, <2>4 DEF AccInv
<1>2. ASSUME NEW i \in Jobs, hash' = [hash EXCEPT ![i].lease = hash'[i].lease],
             frame' = frame, linked' = linked, processing' = processing, ready' = ready
      PROVE  AccInv'
  <2>1. ASSUME NEW j \in Jobs
        PROVE  /\ hash'[j].status = hash[j].status /\ hash'[j].dlqMark = hash[j].dlqMark
               /\ hash'[j].noteMark = hash[j].noteMark
    BY <1>c, <1>2 DEF HashType
  <2> QED BY <1>2, <2>1 DEF AccInv, Handles, Stands, Stocked, Again, Settled, Reported
<1>3. ASSUME NEW i \in Jobs, LeaseExpires(i) PROVE AccInv'
  <2>1. hash' = [hash EXCEPT ![i].lease = FALSE] /\ hash'[i].lease = FALSE
    BY <1>c, <1>3 DEF LeaseExpires, HashType
  <2> QED BY <1>2, <1>3, <2>1 DEF LeaseExpires
<1>4. ASSUME NEW w \in Workers, Renew(w) PROVE AccInv'
  <2>1. PICK i : i = frame[w].job
    OBVIOUS
  <2>2. i \in Jobs
    BY <1>4, <2>1, AtOK DEF Renew, AtRest
  <2>3. hash' = [hash EXCEPT ![i].lease = TRUE] /\ hash'[i].lease = TRUE
    BY <1>c, <1>4, <2>1, <2>2 DEF Renew, HashType
  <2> QED BY <1>2, <1>4, <2>2, <2>3 DEF Renew
<1>5. ASSUME NEW w \in Workers, OthersRest(w), Crash(w) PROVE AccInv'
  <2>1. /\ frame' = [frame EXCEPT ![w] = Free("top")]
        /\ hash' = hash /\ ready' = ready /\ processing' = processing
    BY <1>5 DEF Crash
  <2>2. \A j \in Jobs : Handles(Free("top"), j, hash'[j], ready'[j], processing'[j])
    BY <1>c, <2>1, RestHandles DEF Bag
  <2> QED BY <1>5, <2>1, <2>2, Moves DEF AccInv
<1>6. ASSUME NEW w \in Workers, OthersRest(w), Rejected(w) PROVE AccInv'
  <2>1. PICK f : f = ErrorFrame(w)
    OBVIOUS
  <2>2. /\ frame' = [frame EXCEPT ![w] = f]
        /\ hash' = hash /\ ready' = ready /\ processing' = processing
        /\ linked'[w] => linked[w]
    BY <1>6, <2>1 DEF Rejected, TypeOK
  <2>3. ASSUME linked[w], NEW j \in Jobs PROVE Handles(f, j, hash[j], ready[j], processing[j])
    <3>1. /\ hash[j] \in HashType /\ ready[j] \in Nat /\ processing[j] \in Nat
          /\ Handles(frame[w], j, hash[j], ready[j], processing[j])
          /\ frame[w].todo[j] \in Nat /\ frame[w].rec \in BOOLEAN
      BY <2>3, Now
    <3>2. CASE f = At(w, "caught")
      <4>1. f.pc = "caught" /\ f.job = frame[w].job /\ f.rec = frame[w].rec /\ f.todo = frame[w].todo
        BY <3>2, Parts
      <4> QED BY <3>1, <4>1 DEF Handles, Stands
    <3>3. CASE f = NextEntry(w)
      <4>1. frame[w].todo[j] <= processing[j]
        BY <3>1 DEF Handles
      <4> QED BY <3>1, <3>3, <4>1, RestHandles
    <3>4. CASE f = Free("due") \/ f = Free("top")
      BY <3>1, <3>4, RestHandles
    <3> QED BY <2>1, <3>2, <3>3, <3>4 DEF ErrorFrame
  <2> QED BY <1>6, <2>2, <2>3, Moves DEF AccInv
<1> QED BY <1>1, <1>3, <1>4, <1>5, <1>6

LEMMA JobsAtStart == ASSUME Init PROVE AccInv
<1>1. ASSUME NEW j \in Jobs, NEW w \in Workers
      PROVE  Stocked(hash[j], ready[j], processing[j]) /\ Handles(frame[w], j, hash[j], ready[j], processing[j])
  BY <1>1, ConstantsAssumption DEF Init, Free, Fresh, Nothing, Stocked, Handles
<1>2. ASSUME NEW j \in Jobs PROVE Stocked(hash[j], ready[j], processing[j])
  BY <1>2 DEF Init, Fresh, Stocked
<1> QED BY <1>1, <1>2 DEF AccInv

LEMMA StepKeepsJobs ==
    ASSUME TypeOK, TypeOK', AccInv,
           \/ \E i \in Jobs : Enqueue(i) \/ LeaseExpires(i)
           \/ \E w \in Workers : OthersRest(w) /\ (Step(w) \/ Renew(w) \/ Crash(w))
           \/ UNCHANGED vars
    PROVE  AccInv'
<1>1. CASE UNCHANGED vars
  BY <1>1 DEF AccInv, vars, lists, local
<1> QED BY <1>1, RecoveryKeepsJobs, SharedKeepsJobs, CycleKeepsJobs, OthersKeepJobs DEF Step

(* With one worker process no job is lost: a claim is acknowledged only    *)
(* after a durable transition, so a job that is queued or running, or whose*)
(* death is not fully reported, is in a list that a cycle or a recovery    *)
(* pass reads, whatever crashes, refusals, lost replies and stalls there   *)
(* are, and although ids are reused.                                       *)
THEOREM NoJobIsLost ==
    ASSUME OneWorker
    PROVE  Spec => []Accounted
<1>1. Init => AccInv
  BY JobsAtStart
<1>2. TypeOK /\ TypeOK' /\ AccInv /\ [Next]_vars => AccInv'
  <2>1. \A w \in Workers : OthersRest(w)
    BY DEF OthersRest, OneWorker
  <2> QED BY <2>1, StepKeepsJobs DEF Next
<1>3. AccInv => Accounted
  BY DEF AccInv, Accounted, Stocked
<1> QED BY <1>1, <1>2, <1>3, TypeCorrect, PTL DEF Spec

-----------------------------------------------------------------------------
(* No death goes without its record, unless there was a fault              *)

(* Where a worker stands that claimed a job and has not ended it.          *)
Holding == {"fetch", "start", "call", "exec", "markOk", "caught", "markDead"}
Works(w, j) == frame[w].job = j /\ frame[w].pc \in Holding

(* An entry of the job is in processing, or a recovery pass has it to do.  *)
Seen(j) == processing[j] > 0 \/ \E w \in Workers : frame[w].todo[j] > 0

(* A job that is not READ and not over belongs to the worker that claimed  *)
(* it, with a lease that runs, so a recovery pass leaves it alone.         *)
Kept(j) ==
    /\ \A w \in Workers : Works(w, j) =>
          /\ hash[j].owner = w /\ hash[j].lease /\ hash[j].status \in {"queued", "running"}
          /\ ready[j] = 0
    /\ Seen(j) => /\ ready[j] = 0
                  /\ hash[j].status \in {"queued", "running"} => \E w \in Workers : Works(w, j)

(* Every worker is connected, a job it works on it has claimed, and it    *)
(* writes a death to the DLQ file before it marks it.                      *)
Upright ==
    /\ \A w \in Workers : /\ linked[w]
                          /\ frame[w].pc \in Holding => ~frame[w].rec
                          /\ frame[w].pc = "markDead" => frame[w].job \in letters
    /\ \A j \in Jobs : hash[j].status = "dead" => j \in letters

(* While no fault has been spent.                                          *)
Filed    == Upright /\ \A j \in Jobs \ Reads : Kept(j)
FiledInv == (\A f \in Faults : budget[f] <= Budget[f]) /\ (budget = Budget => Filed)

(* Unless a fault is spent, a reply arrives.                               *)
LEMMA Arrives ==
    ASSUME TypeOK, budget' = budget, NEW w \in Workers, NEW f, Reply(w, f)
    PROVE  frame' = [frame EXCEPT ![w] = f] /\ linked' = linked
<1>1. ~Spend("drop")
  BY DEF Spend, TypeOK, Faults
<1> QED BY <1>1 DEF Reply

(* A step of a worker that neither begins nor ends its work on job j.      *)
LEMMA KeptQuietly ==
    ASSUME TypeOK, NEW j \in Jobs, Kept(j), NEW w \in Workers, NEW g,
           frame' = [frame EXCEPT ![w] = g],
           g.job = j /\ g.pc \in Holding <=> Works(w, j),
           g.todo[j] > 0 => Seen(j), processing'[j] > 0 => Seen(j),
           ready[j] = 0 => ready'[j] = 0,
           hash'[j].owner = hash[j].owner, hash'[j].lease = hash[j].lease,
           hash'[j].status = hash[j].status
    PROVE  Kept(j)'
<1>1. \A v \in Workers : frame'[v] = IF v = w THEN g ELSE frame[v]
  BY DEF TypeOK
<1>2. \A v \in Workers : Works(v, j)' <=> Works(v, j)
  BY <1>1 DEF Works
<1>3. Seen(j)' => Seen(j)
  BY <1>1 DEF Seen
<1> QED BY <1>2, <1>3 DEF Kept

(* Once a job of a worker has ended, nobody works on it.                   *)
LEMMA KeptEnded ==
    ASSUME TypeOK, NEW j \in Jobs, Kept(j), NEW w \in Workers, Works(w, j), NEW g,
           frame' = [frame EXCEPT ![w] = g], g.pc \notin Holding, g.todo = frame[w].todo,
           processing' = processing, ready' = ready,
           hash'[j].status \notin {"queued", "running"}
    PROVE  Kept(j)'
<1>1. \A v \in Workers : frame'[v] = IF v = w THEN g ELSE frame[v]
  BY DEF TypeOK
<1>2. \A v \in Workers : ~Works(v, j)'
  BY <1>1 DEF Works, Kept
<1>3. Seen(j)' => Seen(j)
  BY <1>1 DEF Seen
<1> QED BY <1>2, <1>3 DEF Kept

(* A step of a worker that brings no death about without its record.       *)
LEMMA StaysUpright ==
    ASSUME TypeOK, Upright, NEW w \in Workers, NEW g, frame' = [frame EXCEPT ![w] = g], linked' = linked,
           letters \subseteq letters', g.pc \in Holding => ~g.rec,
           g.pc = "markDead" => g.job \in letters',
           \A j \in Jobs : hash'[j].status = "dead" => hash[j].status = "dead" \/ j \in letters'
    PROVE  Upright'
<1>1. \A v \in Workers : frame'[v] = IF v = w THEN g ELSE frame[v]
  BY DEF TypeOK
<1> QED BY <1>1 DEF Upright

LEMMA RecoveryFiles ==
    ASSUME TypeOK, OnceInv, Filed, budget' = budget, NEW w \in Workers, Recovery(w)
    PROVE  Filed'
<1> USE DEF lists, history
<1>0. PICK i : i = frame[w].job
  OBVIOUS
<1>a. /\ frame[w].pc \notin AtRest => i \in Jobs
      /\ frame[w].pc \in AtRest => i = None
      /\ \A j \in Jobs : j # None /\ frame[w].todo[j] \in Nat /\ Nothing[j] = 0
  <2>1. frame[w].todo \in Bag /\ HasJobUnlessAtRest(frame[w])
    BY Parts DEF TypeOK
  <2> QED BY <1>0, <2>1, AtOK, ConstantsAssumption DEF HasJobUnlessAtRest, Bag, Nothing
<1>c. hash \in [Jobs -> HashType] /\ ready \in Bag /\ processing \in Bag
  BY DEF TypeOK
<1>d. \A j \in Jobs \ Reads : Kept(j) /\ RunsOnce(j)
  BY DEF Filed, OnceInv
<1>1. CASE StartRecovery(w)
  <2>1. PICK f : f = [Free("rec") EXCEPT !.todo = processing]
    OBVIOUS
  <2>2. /\ frame[w].pc = "top" /\ frame' = [frame EXCEPT ![w] = f] /\ linked' = linked
        /\ hash' = hash /\ ready' = ready /\ processing' = processing /\ letters' = letters
    BY <1>1, <2>1, Arrives DEF StartRecovery
  <2>3. f.pc = "rec" /\ f.job = None /\ f.todo = processing
    BY <2>1 DEF Free
  <2>4. ASSUME NEW j \in Jobs \ Reads PROVE Kept(j)'
    <3>1. ~Works(w, j) /\ f.job # j
      BY <1>0, <1>a, <2>2, <2>3 DEF Works, Holding, AtRest
    <3>2. (f.todo[j] > 0 => Seen(j)) /\ (processing'[j] > 0 => Seen(j))
      BY <1>a, <2>2, <2>3 DEF Seen
    <3> QED BY <1>d, <2>2, <3>1, <3>2, KeptQuietly
  <2>5. Upright'
    BY <2>2, <2>3, StaysUpright DEF Filed, Holding
  <2> QED BY <2>4, <2>5 DEF Filed
<1>2. CASE SkipRecovery(w) \/ RecoveryDone(w)
  <2>1. PICK f : f = Free("due")
    OBVIOUS
  <2>2. /\ frame[w].pc \in {"top", "rec"} /\ frame' = [frame EXCEPT ![w] = f] /\ linked' = linked
        /\ hash' = hash /\ ready' = ready /\ processing' = processing /\ letters' = letters
    BY <1>2, <2>1 DEF SkipRecovery, RecoveryDone
  <2>3. f.pc = "due" /\ f.job = None /\ f.todo = Nothing
    BY <2>1, Parts
  <2>4. ASSUME NEW j \in Jobs \ Reads PROVE Kept(j)'
    <3>1. ~Works(w, j) /\ f.job # j
      BY <1>0, <1>a, <2>2, <2>3 DEF Works, Holding, AtRest
    <3>2. (f.todo[j] > 0 => Seen(j)) /\ (processing'[j] > 0 => Seen(j))
      BY <1>a, <2>2, <2>3 DEF Seen
    <3> QED BY <1>d, <2>2, <3>1, <3>2, KeptQuietly
  <2>5. Upright'
    BY <2>2, <2>3, StaysUpright DEF Filed, Holding
  <2> QED BY <2>4, <2>5 DEF Filed
<1>3. CASE RecoverNext(w)
  <2>1. PICK k \in Jobs : frame[w].todo[k] > 0 /\ Reply(w, RecoveryFrame(w, k))
    BY <1>3 DEF RecoverNext
  <2>2. PICK f : f = RecoveryFrame(w, k)
    OBVIOUS
  <2>3. /\ frame[w].pc = "rec" /\ frame' = [frame EXCEPT ![w] = f] /\ linked' = linked
        /\ hash' = hash /\ ready' = ready /\ processing' = processing /\ letters' = letters
    BY <1>3, <2>1, <2>2, Arrives DEF RecoverNext
  <2>4. /\ \A j \in Jobs : f.todo[j] = IF j = k THEN frame[w].todo[j] - 1 ELSE frame[w].todo[j]
        /\ f.job \in {None, k}
        /\ f.pc \in {"rec", Verdict(k, hash[k])}
    BY <2>2, Parts, ConstantsAssumption DEF RecoveryFrame, Free, Bag
  <2>5. f.pc \notin Holding
    <3>1. CASE k \in Reads
      BY <2>4, <3>1 DEF Verdict, Holding
    <3>2. CASE k \notin Reads
      <4>1. Seen(k) /\ Kept(k) /\ RunsOnce(k)
        BY <1>d, <2>1, <3>2 DEF Seen
      <4>2. hash[k].status \in {"queued", "running"} => hash[k].lease
        BY <4>1 DEF Kept
      <4>3. hash[k].status # "retry_scheduled" /\ hash[k].status \in Statuses
        BY <1>c, <4>1 DEF RunsOnce, HashType
      <4> QED BY <2>4, <4>2, <4>3 DEF Verdict, Holding, Settled, Statuses
    <3> QED BY <3>1, <3>2
  <2>6. ASSUME NEW j \in Jobs \ Reads PROVE Kept(j)'
    <3>1. f.todo[j] > 0 => Seen(j)
      BY <1>a, <2>1, <2>4 DEF Seen
    <3>2. ~Works(w, j) /\ (processing'[j] > 0 => Seen(j))
      BY <2>3 DEF Works, Holding, Seen
    <3> QED BY <1>d, <2>3, <2>5, <3>1, <3>2, KeptQuietly
  <2>7. Upright'
    BY <2>3, <2>5, StaysUpright DEF Filed, Holding
  <2> QED BY <2>6, <2>7 DEF Filed
<1>4. CASE Requeue(w) \/ Push(w)
  <2>1. i \in Reads /\ i \in Jobs
    BY <1>0, <1>a, <1>d, <1>4 DEF RunsOnce, ForReadsOnly, Requeue, Push, AtRest
  <2>2. PICK p \in {"push", "ack"} : Reply(w, At(w, p))
    BY <1>4 DEF Requeue, Push
  <2>3. PICK f : f = At(w, p)
    OBVIOUS
  <2>4. /\ frame[w].pc \in {"requeue", "push"}
        /\ frame' = [frame EXCEPT ![w] = f] /\ linked' = linked /\ processing' = processing /\ letters' = letters
        /\ \A j \in Jobs : j # i => hash'[j] = hash[j] /\ ready'[j] = ready[j]
        /\ hash'[i].status = "dead" => hash[i].status = "dead"
    BY <1>0, <1>4, <1>c, <2>1, <2>2, <2>3, Arrives DEF Requeue, Push, Put, Bag, HashType
  <2>5. f.pc = p /\ f.job = i /\ f.todo = frame[w].todo
    BY <1>0, <2>3, Parts
  <2>6. ASSUME NEW j \in Jobs \ Reads PROVE Kept(j)'
    BY <1>0, <1>a, <1>d, <2>1, <2>4, <2>5, KeptQuietly DEF Works, Seen
  <2>7. Upright'
    BY <2>4, <2>5, StaysUpright DEF Filed, Holding
  <2> QED BY <2>6, <2>7 DEF Filed
<1> QED BY <1>1, <1>2, <1>3, <1>4 DEF Recovery

(* The step of a worker that leaves the job it is at, and neither begins   *)
(* nor ends the work on one.                                               *)
LEMMA FilesQuietly ==
    ASSUME TypeOK, Filed, NEW w \in Workers, NEW f, frame' = [frame EXCEPT ![w] = f], linked' = linked,
           letters \subseteq letters', f.todo \in {frame[w].todo, Nothing},
           \A j \in Jobs \ Reads : f.job = j /\ f.pc \in Holding <=> Works(w, j),
           f.pc \in Holding => ~f.rec, f.pc = "markDead" => f.job \in letters',
           \A j \in Jobs : /\ processing'[j] > 0 => processing[j] > 0
                           /\ hash'[j].owner = hash[j].owner /\ hash'[j].lease = hash[j].lease
                           /\ hash'[j].status = hash[j].status,
           \A j \in Jobs \ Reads : ready[j] = 0 => ready'[j] = 0
    PROVE  Filed'
<1>1. Upright'
  BY StaysUpright DEF Filed
<1>2. ASSUME NEW j \in Jobs \ Reads PROVE Kept(j)'
  <2>1. f.todo[j] > 0 => Seen(j)
    BY DEF Seen, Nothing
  <2>2. processing'[j] > 0 => Seen(j)
    BY DEF Seen
  <2> QED BY <2>1, <2>2, KeptQuietly DEF Filed
<1> QED BY <1>1, <1>2 DEF Filed

LEMMA SharedFiles ==
    ASSUME TypeOK, OnceInv, Filed, budget' = budget, NEW w \in Workers, Shared(w)
    PROVE  Filed'
<1> USE DEF lists, history
<1>0. PICK i : i = frame[w].job
  OBVIOUS
<1>a. frame[w].pc \notin AtRest => i \in Jobs
  BY <1>0, AtOK
<1>c. hash \in [Jobs -> HashType] /\ ready \in Bag /\ processing \in Bag
  BY DEF TypeOK
<1>1. CASE MarkDead(w)
  <2>1. PICK f : f = [At(w, "dlq") EXCEPT !.noted = FALSE]
    OBVIOUS
  <2>2. /\ frame[w].pc = "markDead" /\ i \in Jobs
        /\ frame' = [frame EXCEPT ![w] = f] /\ linked' = linked
        /\ ready' = ready /\ processing' = processing /\ letters' = letters
        /\ hash' = [hash EXCEPT ![i].status = "dead", ![i].owner = None, ![i].lease = FALSE,
                                ![i].dlqMark = FALSE, ![i].noteMark = FALSE]
    BY <1>0, <1>a, <1>1, <2>1, Arrives DEF MarkDead, AtRest
  <2>3. f.pc = "dlq" /\ f.job = i /\ f.todo = frame[w].todo
    <3>1. At(w, "dlq") \in FrameType
      BY <1>1, AtOK DEF FrameOK, MarkDead, AtRest, AtJob
    <3> QED BY <1>0, <2>1, <3>1, Parts DEF FrameType
  <2>4. /\ hash'[i].status = "dead" /\ i \in letters
        /\ \A j \in Jobs : j # i => hash'[j] = hash[j]
    BY <1>0, <1>c, <2>2 DEF HashType, Filed, Upright
  <2>5. ASSUME NEW j \in Jobs \ Reads PROVE Kept(j)'
    <3>1. CASE j = i
      <4>1. Works(w, j) /\ Kept(j)
        BY <1>0, <2>2, <3>1 DEF Works, Holding, Filed
      <4> QED BY <2>2, <2>3, <2>4, <3>1, <4>1, KeptEnded DEF Holding
    <3>2. CASE j # i
      <4>1. ~Works(w, j) /\ Kept(j) /\ f.job # j
        BY <1>0, <2>3, <3>2 DEF Works, Filed
      <4>2. (f.todo[j] > 0 => Seen(j)) /\ (processing'[j] > 0 => Seen(j))
        BY <2>2, <2>3 DEF Seen
      <4> QED BY <2>2, <2>4, <3>2, <4>1, <4>2, KeptQuietly
    <3> QED BY <3>1, <3>2
  <2>6. Upright'
    BY <2>2, <2>3, <2>4, StaysUpright DEF Filed, Holding
  <2> QED BY <2>5, <2>6 DEF Filed
<1>2. CASE FileDlq(w) \/ Notify(w) \/ ScheduleRetry(w)
  <2>1. PICK p \in {"ack", "note"} : Reply(w, At(w, p))
    BY <1>2 DEF FileDlq, Notify, ScheduleRetry
  <2>2. PICK f : f = At(w, p)
    OBVIOUS
  <2>3. /\ frame[w].pc \in {"dlq", "note", "zadd"} /\ i \in Jobs
        /\ frame' = [frame EXCEPT ![w] = f] /\ linked' = linked
        /\ ready' = ready /\ processing' = processing /\ letters' = letters
    BY <1>0, <1>a, <1>2, <2>1, <2>2, Arrives DEF FileDlq, Notify, ScheduleRetry, AtRest
  <2>4. \A j \in Jobs : /\ hash'[j].owner = hash[j].owner /\ hash'[j].lease = hash[j].lease
                        /\ hash'[j].status = hash[j].status
    BY <1>0, <1>c, <1>2, <2>3 DEF FileDlq, Notify, ScheduleRetry, HashType
  <2>5. f.pc = p /\ f.todo = frame[w].todo
    BY <2>2, Parts
  <2>6. \A j : ~Works(w, j)
    BY <2>3 DEF Works, Holding
  <2> QED BY <2>3, <2>4, <2>5, <2>6, FilesQuietly DEF Holding
<1>3. CASE Acknowledge(w)
  <2>1. PICK f : f = IF frame[w].rec THEN NextEntry(w) ELSE Free("top")
    OBVIOUS
  <2>2. /\ frame[w].pc \in {"ack", "ackOk"} /\ i \in Jobs
        /\ frame' = [frame EXCEPT ![w] = f] /\ linked' = linked
        /\ ready' = ready /\ processing' = Take(processing, i) /\ hash' = hash /\ letters' = letters
    BY <1>0, <1>a, <1>3, <2>1, Arrives DEF Acknowledge, AtRest
  <2>3. f.pc \in {"rec", "top"} /\ f.todo \in {frame[w].todo, Nothing}
    BY <2>1, Parts, Fields
  <2>4. \A j \in Jobs : processing'[j] > 0 => processing[j] > 0
    BY <1>c, <2>2 DEF Take, Bag
  <2>5. \A j : ~Works(w, j)
    BY <2>2 DEF Works, Holding
  <2> QED BY <2>2, <2>3, <2>4, <2>5, FilesQuietly DEF Holding
<1> QED BY <1>1, <1>2, <1>3 DEF Shared

LEMMA CycleFiles ==
    ASSUME TypeOK, OnceInv, Filed, budget' = budget, NEW w \in Workers, Cycle(w)
    PROVE  Filed'
<1> USE DEF lists, history
<1>0. PICK i : i = frame[w].job
  OBVIOUS
<1>a. /\ frame[w].pc \notin AtRest => i \in Jobs
      /\ frame[w].pc \in Holding => ~frame[w].rec
      /\ \A j \in Jobs : j # None /\ Nothing[j] = 0
  BY <1>0, AtOK, ConstantsAssumption DEF Filed, Upright, Nothing
<1>c. hash \in [Jobs -> HashType] /\ ready \in Bag /\ processing \in Bag /\ runs \in Bag
  BY DEF TypeOK
<1>d. \A j \in Jobs \ Reads : Kept(j) /\ RunsOnce(j)
  BY DEF Filed, OnceInv
<1>1. ASSUME NEW f, f \in {Free("claim"), Free("top")}, Reply(w, f), frame[w].pc \in AtRest,
             hash' = hash, processing' = processing, letters' = letters,
             \A j \in Jobs \ Reads : ready[j] = 0 => ready'[j] = 0
      PROVE  Filed'
  <2>1. frame' = [frame EXCEPT ![w] = f] /\ linked' = linked
    BY <1>1, Arrives
  <2>2. f.pc \in {"claim", "top"} /\ f.todo = Nothing
    BY <1>1, Parts
  <2>3. \A j : ~Works(w, j)
    BY <1>1 DEF Works, Holding, AtRest
  <2> QED BY <1>1, <2>1, <2>2, <2>3, FilesQuietly DEF Holding
<1>2. ASSUME NEW due \in SUBSET delayed, MoveDueDelayed(w, due) PROVE Filed'
  <2>1. \A j \in Jobs \ Reads : ready'[j] = ready[j]
    BY <1>d, <1>2 DEF MoveDueDelayed, RunsOnce
  <2> QED BY <1>1, <1>2, <2>1 DEF MoveDueDelayed, AtRest
<1>3. CASE ClaimNothing(w)
  BY <1>1, <1>3 DEF ClaimNothing, AtRest
<1>4. ASSUME NEW k \in Jobs, ClaimStale(w, k) PROVE Filed'
  <2>1. \A j \in Jobs : ready[j] = 0 => ready'[j] = 0
    BY <1>c, <1>4 DEF ClaimStale, Take, Bag
  <2> QED BY <1>1, <1>4, <2>1 DEF ClaimStale, AtRest
<1>5. ASSUME NEW k \in Jobs, Claim(w, k) PROVE Filed'
  <2>1. PICK f : f = [Free("fetch") EXCEPT !.job = k]
    OBVIOUS
  <2>2. /\ frame[w].pc = "claim" /\ ready[k] > 0 /\ hash[k].status = "queued"
        /\ frame' = [frame EXCEPT ![w] = f] /\ linked' = linked /\ letters' = letters
        /\ ready' = Take(ready, k) /\ processing' = Put(processing, k)
        /\ hash' = [hash EXCEPT ![k].owner = w, ![k].lease = TRUE]
    BY <1>5, <2>1, Arrives DEF Claim
  <2>3. f.pc = "fetch" /\ f.job = k /\ f.rec = FALSE /\ f.todo = Nothing
    BY <2>1 DEF Free
  <2>4. /\ hash'[k].owner = w /\ hash'[k].lease /\ hash'[k].status = "queued"
        /\ \A j \in Jobs : j # k => hash'[j] = hash[j] /\ ready'[j] = ready[j] /\ processing'[j] = processing[j]
        /\ ready'[k] = ready[k] - 1
    BY <1>c, <2>2 DEF HashType, Take, Put, Bag
  <2>5. ASSUME NEW j \in Jobs \ Reads PROVE Kept(j)'
    <3>1. CASE j = k
      <4>1. \A v \in Workers : ~Works(v, j)
        BY <1>d, <2>2, <3>1 DEF Kept
      <4>2. \A v \in Workers : frame'[v] = IF v = w THEN f ELSE frame[v]
        BY <2>2 DEF TypeOK
      <4>3. \A v \in Workers : Works(v, j)' <=> v = w
        BY <2>3, <3>1, <4>1, <4>2 DEF Works, Holding
      <4>4. ready'[j] = 0
        BY <1>c, <1>d, <2>2, <2>4, <3>1 DEF RunsOnce, Bag
      <4> QED BY <2>4, <3>1, <4>3, <4>4 DEF Kept
    <3>2. CASE j # k
      <4>1. ~Works(w, j) /\ Kept(j) /\ f.job # j
        BY <1>d, <2>2, <2>3, <3>2 DEF Works, Holding
      <4>2. (f.todo[j] > 0 => Seen(j)) /\ (processing'[j] > 0 => Seen(j))
        BY <1>a, <2>3, <2>4, <3>2 DEF Seen
      <4> QED BY <2>2, <2>4, <3>2, <4>1, <4>2, KeptQuietly
    <3> QED BY <3>1, <3>2
  <2>6. Upright'
    <3>1. \A j \in Jobs : hash'[j].status = "dead" => hash[j].status = "dead"
      BY <2>4
    <3> QED BY <2>2, <2>3, <3>1, StaysUpright DEF Filed
  <2> QED BY <2>5, <2>6 DEF Filed
<1>6. CASE Fetch(w)
  <2>1. i \in Jobs /\ frame[w].pc = "fetch" /\ ~frame[w].rec
    BY <1>0, <1>a, <1>6 DEF Fetch, AtRest, Holding
  <2>2. PICK f : f = IF hash[i].status \in Terminal THEN At(w, "ack")
                     ELSE [At(w, "start") EXCEPT !.attempts = Attempt(hash[i]), !.retries = hash[i].retries]
    OBVIOUS
  <2>3. /\ frame' = [frame EXCEPT ![w] = f] /\ linked' = linked /\ hash' = hash /\ ready' = ready
        /\ processing' = processing /\ letters' = letters
    BY <1>0, <1>6, <2>2, Arrives DEF Fetch
  <2>4. /\ f.pc = (IF hash[i].status \in Terminal THEN "ack" ELSE "start")
        /\ f.job = i /\ f.rec = frame[w].rec /\ f.todo = frame[w].todo
    <3>1. At(w, "start") \in FrameType
      BY <2>1, AtOK DEF FrameOK, AtRest, AtJob
    <3> QED BY <1>0, <2>2, <3>1, Parts DEF FrameType
  <2>5. ASSUME NEW j \in Jobs \ Reads PROVE f.job = j /\ f.pc \in Holding <=> Works(w, j)
    <3>1. j = i => hash[i].status \notin Terminal
      BY <1>0, <1>d, <2>1 DEF Kept, Works, Holding, Terminal
    <3> QED BY <1>0, <2>1, <2>4, <3>1 DEF Works, Holding
  <2> QED BY <2>1, <2>3, <2>4, <2>5, FilesQuietly
<1>7. CASE MarkRunning(w)
  <2>1. PICK f : f = At(w, "call")
    OBVIOUS
  <2>2. /\ i \in Jobs /\ frame[w].pc = "start" /\ ~frame[w].rec
        /\ frame' = [frame EXCEPT ![w] = f] /\ linked' = linked /\ ready' = ready
        /\ processing' = processing /\ letters' = letters
        /\ hash' = [hash EXCEPT ![i].status = "running", ![i].attempts = frame[w].attempts]
    BY <1>0, <1>a, <1>7, <2>1, Arrives DEF MarkRunning, AtRest, Holding
  <2>3. f.pc = "call" /\ f.job = i /\ f.rec = frame[w].rec /\ f.todo = frame[w].todo
    BY <1>0, <2>1, Parts
  <2>4. /\ hash'[i].owner = hash[i].owner /\ hash'[i].lease = hash[i].lease /\ hash'[i].status = "running"
        /\ \A j \in Jobs : j # i => hash'[j] = hash[j]
    BY <1>c, <2>2 DEF HashType
  <2>5. ASSUME NEW j \in Jobs \ Reads PROVE Kept(j)'
    <3>1. (f.job = j /\ f.pc \in Holding) <=> Works(w, j)
      BY <1>0, <2>2, <2>3 DEF Works, Holding
    <3>2. CASE j = i
      <4>1. \A v \in Workers : frame'[v] = IF v = w THEN f ELSE frame[v]
        BY <2>2 DEF TypeOK
      <4>2. \A v \in Workers : Works(v, j)' <=> Works(v, j)
        BY <3>1, <4>1 DEF Works
      <4>3. (Seen(j)' => Seen(j)) /\ Works(w, j)
        BY <1>0, <2>2, <2>3, <3>2, <4>1 DEF Seen, Works, Holding
      <4> QED BY <1>d, <2>2, <2>4, <3>2, <4>2, <4>3 DEF Kept
    <3>3. CASE j # i
      <4>1. (f.todo[j] > 0 => Seen(j)) /\ (processing'[j] > 0 => Seen(j))
        BY <2>2, <2>3 DEF Seen
      <4> QED BY <1>d, <2>2, <2>4, <3>1, <3>3, <4>1, KeptQuietly
    <3> QED BY <3>2, <3>3
  <2>6. Upright'
    BY <2>2, <2>3, <2>4, StaysUpright DEF Filed
  <2> QED BY <2>5, <2>6 DEF Filed
<1>8. CASE CallTool(w) \/ ToolReturns(w) \/ CatchRetry(w) \/ CatchDead(w)
  <2>1. /\ frame[w].pc \in {"call", "exec", "caught"} /\ linked' = linked
        /\ hash' = hash /\ ready' = ready /\ processing' = processing /\ letters \subseteq letters'
        /\ \E p \in {"exec", "markOk", "caught", "markRetry", "markDead"} :
              /\ frame' = [frame EXCEPT ![w] = At(w, p)]
              /\ p = "markRetry" => i \in Reads
              /\ p = "markDead"  => i \in letters'
    <3>1. ~Spend("disk")
      BY DEF Spend, TypeOK, Faults
    <3> QED BY <1>0, <1>8, <3>1 DEF CallTool, ToolReturns, CatchRetry, CatchDead, MayRetry
  <2>2. PICK p \in {"exec", "markOk", "caught", "markRetry", "markDead"} :
              /\ frame' = [frame EXCEPT ![w] = At(w, p)]
              /\ p = "markRetry" => i \in Reads
              /\ p = "markDead"  => i \in letters'
    BY <2>1
  <2>3. PICK f : f = At(w, p)
    OBVIOUS
  <2>4. f.job = i /\ f.rec = frame[w].rec /\ f.todo = frame[w].todo /\ f.pc = p
    BY <1>0, <2>3, Parts
  <2>5. ~f.rec
    BY <1>a, <2>1, <2>4 DEF Holding
  <2>6. \A j \in Jobs \ Reads : f.job = j /\ f.pc \in Holding <=> Works(w, j)
    BY <1>0, <2>1, <2>2, <2>4 DEF Works, Holding
  <2>7. frame' = [frame EXCEPT ![w] = f] /\ f.todo \in {frame[w].todo, Nothing}
    BY <2>2, <2>3, <2>4
  <2>8. f.pc = "markDead" => f.job \in letters'
    BY <2>2, <2>4
  <2>9. \A j \in Jobs : /\ processing'[j] > 0 => processing[j] > 0
                        /\ hash'[j].owner = hash[j].owner /\ hash'[j].lease = hash[j].lease
                        /\ hash'[j].status = hash[j].status /\ (ready[j] = 0 => ready'[j] = 0)
    BY <2>1
  <2> QED BY <2>1, <2>5, <2>6, <2>7, <2>8, <2>9, FilesQuietly
<1>9. CASE MarkSucceeded(w)
  <2>1. PICK f : f = At(w, "ackOk")
    OBVIOUS
  <2>2. /\ frame[w].pc = "markOk" /\ i \in Jobs
        /\ frame' = [frame EXCEPT ![w] = f] /\ linked' = linked
        /\ ready' = ready /\ processing' = processing /\ letters' = letters
        /\ hash' = [hash EXCEPT ![i].status = "succeeded", ![i].owner = None, ![i].lease = FALSE]
    BY <1>0, <1>a, <1>9, <2>1, Arrives DEF MarkSucceeded, AtRest
  <2>3. f.pc = "ackOk" /\ f.job = i /\ f.todo = frame[w].todo
    BY <1>0, <2>1, Parts
  <2>4. hash'[i].status = "succeeded" /\ \A j \in Jobs : j # i => hash'[j] = hash[j]
    BY <1>c, <2>2 DEF HashType
  <2>5. ASSUME NEW j \in Jobs \ Reads PROVE Kept(j)'
    <3>1. CASE j = i
      <4>1. Works(w, j)
        BY <1>0, <2>2, <3>1 DEF Works, Holding
      <4> QED BY <1>d, <2>2, <2>3, <2>4, <3>1, <4>1, KeptEnded DEF Holding
    <3>2. CASE j # i
      <4>1. ~Works(w, j) /\ f.job # j
        BY <1>0, <2>3, <3>2 DEF Works
      <4>2. (f.todo[j] > 0 => Seen(j)) /\ (processing'[j] > 0 => Seen(j))
        BY <2>2, <2>3 DEF Seen
      <4> QED BY <1>d, <2>2, <2>4, <3>2, <4>1, <4>2, KeptQuietly
    <3> QED BY <3>1, <3>2
  <2>6. Upright'
    BY <2>2, <2>3, <2>4, StaysUpright DEF Filed, Holding
  <2> QED BY <2>5, <2>6 DEF Filed
<1>10. CASE MarkRetry(w)
  <2>1. PICK f : f = At(w, "zadd")
    OBVIOUS
  <2>2. /\ frame[w].pc = "markRetry" /\ i \in Jobs
        /\ frame' = [frame EXCEPT ![w] = f] /\ linked' = linked
        /\ ready' = ready /\ processing' = processing /\ letters' = letters
        /\ hash' = [hash EXCEPT ![i].status = "retry_scheduled", ![i].retries = frame[w].retries + 1,
                                ![i].owner = None, ![i].lease = FALSE]
    BY <1>0, <1>a, <1>10, <2>1, Arrives DEF MarkRetry, AtRest
  <2>3. f.pc = "zadd" /\ f.job = i /\ f.todo = frame[w].todo
    BY <1>0, <2>1, Parts
  <2>4. hash'[i].status = "retry_scheduled" /\ i \in Reads /\ \A j \in Jobs : j # i => hash'[j] = hash[j]
    BY <1>0, <1>c, <1>d, <2>2 DEF HashType, RunsOnce, ForReadsOnly
  <2>5. ASSUME NEW j \in Jobs \ Reads PROVE Kept(j)'
    <3>1. ~Works(w, j) /\ f.job # j /\ j # i
      BY <1>0, <2>3, <2>4 DEF Works
    <3>2. (f.todo[j] > 0 => Seen(j)) /\ (processing'[j] > 0 => Seen(j))
      BY <2>2, <2>3 DEF Seen
    <3> QED BY <1>d, <2>2, <2>4, <3>1, <3>2, KeptQuietly
  <2>6. Upright'
    BY <2>2, <2>3, <2>4, StaysUpright DEF Filed, Holding
  <2> QED BY <2>5, <2>6 DEF Filed
<1> QED BY <1>2, <1>3, <1>4, <1>5, <1>6, <1>7, <1>8, <1>9, <1>10 DEF Cycle

(* Faults are only ever spent.                                             *)
LEMMA BudgetShrinks ==
    ASSUME TypeOK, Next
    PROVE  budget' = budget \/ \E f \in Faults : Spend(f)
<1> USE DEF lists, history, local
<1>1. ASSUME NEW w \in Workers, NEW f, Reply(w, f) PROVE budget' = budget \/ Spend("drop")
  BY <1>1 DEF Reply
<1>2. ASSUME NEW w \in Workers, Recovery(w) PROVE budget' = budget \/ Spend("drop")
  BY <1>1, <1>2 DEF Recovery, StartRecovery, SkipRecovery, RecoverNext, RecoveryDone, Requeue, Push
<1>3. ASSUME NEW w \in Workers, Shared(w) PROVE budget' = budget \/ Spend("drop")
  BY <1>1, <1>3 DEF Shared, MarkDead, FileDlq, Notify, ScheduleRetry, Acknowledge
<1>4. ASSUME NEW w \in Workers, Cycle(w) PROVE budget' = budget \/ Spend("drop") \/ Spend("disk")
  BY <1>1, <1>4 DEF Cycle, MoveDueDelayed, ClaimNothing, ClaimStale, Claim, Fetch, MarkRunning,
     CallTool, ToolReturns, MarkSucceeded, CatchRetry, CatchDead, MarkRetry
<1>5. ASSUME NEW w \in Workers, Rejected(w) \/ Renew(w) \/ Crash(w)
      PROVE  budget' = budget \/ \E f \in Faults : Spend(f)
  BY <1>5 DEF Rejected, Renew, Crash, Faults
<1>6. ASSUME NEW i \in Jobs, Enqueue(i) \/ LeaseExpires(i) PROVE budget' = budget \/ \E f \in Faults : Spend(f)
  BY <1>6 DEF Enqueue, LeaseExpires, Faults
<1> QED BY <1>2, <1>3, <1>4, <1>5, <1>6 DEF Next, Step, Faults

(* What callers, leases and the heartbeat do while no fault is spent.      *)
LEMMA OthersFile ==
    ASSUME TypeOK, OnceInv, KnownInv, Filed, budget' = budget,
           \/ \E i \in Jobs : Enqueue(i) \/ LeaseExpires(i)
           \/ \E w \in Workers : Rejected(w) \/ Renew(w) \/ Crash(w)
    PROVE  Filed'
<1> USE DEF lists, history, local
<1>c. hash \in [Jobs -> HashType] /\ ready \in Bag /\ processing \in Bag /\ enqueues \in Bag
  BY DEF TypeOK
<1>d. ASSUME NEW f \in Faults PROVE ~Spend(f)
  BY <1>d DEF Spend, TypeOK
<1>1. ASSUME frame' = frame, linked' = linked, letters' = letters, processing' = processing,
             ready' = ready,
             \A j \in Jobs : /\ hash'[j].owner = hash[j].owner /\ hash'[j].status = hash[j].status
                             /\ (\E w \in Workers : Works(w, j)) => (hash[j].lease => hash'[j].lease)
      PROVE  Filed'
  <2>1. Upright'
    BY <1>1 DEF Filed, Upright
  <2>2. ASSUME NEW j \in Jobs \ Reads PROVE Kept(j)'
    <3>1. Kept(j) /\ (Seen(j)' <=> Seen(j)) /\ \A w \in Workers : Works(w, j)' <=> Works(w, j)
      BY <1>1 DEF Filed, Seen, Works
    <3> QED BY <1>1, <3>1 DEF Kept
  <2> QED BY <2>1, <2>2 DEF Filed
<1>2. ASSUME NEW i \in Jobs, Enqueue(i) PROVE Filed'
  <2>1. /\ frame' = frame /\ linked' = linked /\ letters' = letters /\ processing' = processing
        /\ ready' = Put(ready, i)
        /\ enqueues[i] < IF i \in Renewable THEN MaxEnqueues ELSE 1
    BY <1>2 DEF Enqueue
  <2>2. hash'[i].status = "queued" /\ \A j \in Jobs : j # i => hash'[j] = hash[j]
    BY <1>c, <1>2 DEF Enqueue, HashType
  <2>3. ASSUME NEW j \in Jobs \ Reads PROVE Kept(j)'
    <3>1. (Seen(j)' <=> Seen(j)) /\ \A w \in Workers : Works(w, j)' <=> Works(w, j)
      BY <2>1 DEF Seen, Works
    <3>2. CASE j = i
      <4>1. enqueues[j] = 0
        BY <1>c, <2>1, <3>2, ConstantsAssumption DEF Bag
      <4>2. ~Known(j)
        BY <4>1 DEF KnownInv
      <4>3. ~Seen(j) /\ \A w \in Workers : ~Works(w, j)
        BY <4>2 DEF Known, Seen, Works
      <4> QED BY <3>1, <4>3 DEF Kept
    <3>3. CASE j # i
      <4>1. hash'[j] = hash[j] /\ ready'[j] = ready[j] /\ Kept(j)
        BY <1>c, <2>1, <2>2, <3>3 DEF Put, Bag, Filed
      <4> QED BY <3>1, <4>1 DEF Kept
    <3> QED BY <3>2, <3>3
  <2>4. Upright'
    BY <2>1, <2>2 DEF Filed, Upright
  <2> QED BY <2>3, <2>4 DEF Filed
<1>3. ASSUME NEW i \in Jobs, LeaseExpires(i) PROVE Filed'
  <2>1. /\ frame' = frame /\ linked' = linked /\ letters' = letters /\ processing' = processing
        /\ ready' = ready /\ hash' = [hash EXCEPT ![i].lease = FALSE] /\ ~Held(i)
    BY <1>3, <1>d DEF LeaseExpires, Faults
  <2>2. \A j \in Jobs : /\ hash'[j].owner = hash[j].owner /\ hash'[j].status = hash[j].status
                        /\ j # i => hash'[j] = hash[j]
    BY <1>c, <2>1 DEF HashType
  <2>3. Upright'
    BY <2>1, <2>2 DEF Filed, Upright
  <2>4. ASSUME NEW j \in Jobs \ Reads PROVE Kept(j)'
    <3>1. (Seen(j)' <=> Seen(j)) /\ \A w \in Workers : Works(w, j)' <=> Works(w, j)
      BY <2>1 DEF Seen, Works
    <3>2. Kept(j)
      BY DEF Filed
    <3>3. ASSUME NEW w \in Workers, Works(w, j) PROVE j # i
      BY <2>1, <3>2, <3>3 DEF Kept, Filed, Upright, Works, Held
    <3> QED BY <2>1, <2>2, <3>1, <3>2, <3>3 DEF Kept
  <2> QED BY <2>3, <2>4 DEF Filed
<1>4. ASSUME NEW w \in Workers, Renew(w) PROVE Filed'
  <2>1. frame[w].job \in Jobs
    BY <1>4, AtOK DEF Renew, AtRest
  <2>2. \A j \in Jobs : /\ hash'[j].owner = hash[j].owner /\ hash'[j].status = hash[j].status
                        /\ hash[j].lease => hash'[j].lease
    BY <1>4, <1>c, <2>1 DEF Renew, HashType
  <2> QED BY <1>1, <1>4, <2>2 DEF Renew
<1>5. ASSUME NEW w \in Workers, Rejected(w) \/ Crash(w) PROVE FALSE
  <2>1. linked[w]
    BY DEF Filed, Upright
  <2> QED BY <1>5, <1>d, <2>1 DEF Rejected, Crash, Faults
<1> QED BY <1>2, <1>3, <1>4, <1>5

(* DESIGN.md 3.2, for any number of workers: a job that is dead lacks its  *)
(* record in runtime/dlq only after a fault.  A job that is not READ is    *)
(* recovered by nobody, and so killed without a record by nobody, as long  *)
(* as whoever claimed it is alive, connected and keeps its lease.          *)
THEOREM DeathsAreOnRecord == Spec => []DeathsOnRecord
<1> DEFINE Inv == OnceInv /\ KnownInv /\ FiledInv
<1>1. Init => Inv
  <2> SUFFICES ASSUME Init PROVE Inv
    OBVIOUS
  <2>1. OnceInv
    BY ConstantsAssumption DEF Init, OnceInv, RunsOnce, AboutToRun, Free, Fresh, Nothing, ForReadsOnly
  <2>2. KnownInv
    BY ConstantsAssumption DEF Init, KnownInv, Known, Free, Nothing
  <2>3. Filed
    BY ConstantsAssumption DEF Init, Filed, Upright, Kept, Works, Seen, Holding, Free, Fresh, Nothing
  <2>4. \A f \in Faults : budget[f] <= Budget[f]
    BY ConstantsAssumption DEF Init
  <2> QED BY <2>1, <2>2, <2>3, <2>4 DEF FiledInv
<1>2. TypeOK /\ Inv /\ [Next]_vars => Inv'
  <2>1. ASSUME TypeOK, Inv, UNCHANGED vars PROVE Inv'
    <3>1. OnceInv' /\ KnownInv'
      BY <2>1 DEF OnceInv, RunsOnce, AboutToRun, KnownInv, Known, vars, lists, local, history
    <3>2. FiledInv'
      BY <2>1 DEF FiledInv, Filed, Upright, Kept, Works, Seen, vars, lists, local, history
    <3> QED BY <3>1, <3>2
  <2>2. ASSUME TypeOK, Inv, Next PROVE Inv'
    <3>1. OnceInv'
      BY <2>2, RecoveryOnce, SharedOnce, CycleOnce, OthersOnce DEF OnceInv, Next, Step
    <3>2. KnownInv'
      BY <2>2, KnownStep DEF KnownInv
    <3>3. CASE budget' = budget
      <4>1. Filed => Filed'
        BY <2>2, <3>3, RecoveryFiles, SharedFiles, CycleFiles, OthersFile DEF Next, Step
      <4> QED BY <2>2, <3>1, <3>2, <3>3, <4>1 DEF FiledInv
    <3>4. ASSUME NEW f \in Faults, Spend(f) PROVE FiledInv'
      <4>1. budget[f] > 0 /\ budget' = [budget EXCEPT ![f] = @ - 1]
        BY <3>4 DEF Spend
      <4>2. budget \in [Faults -> Nat] /\ \A g \in Faults : budget[g] <= Budget[g]
        BY <2>2 DEF FiledInv, TypeOK
      <4>3. \A g \in Faults : budget'[g] = IF g = f THEN budget[g] - 1 ELSE budget[g]
        BY <4>1, <4>2
      <4>4. Budget \in [Faults -> Nat]
        BY ConstantsAssumption
      <4>5. budget' # Budget /\ \A g \in Faults : budget'[g] <= Budget[g]
        BY <4>2, <4>3, <4>4
      <4> QED BY <4>5 DEF FiledInv
    <3> QED BY <2>2, <3>1, <3>2, <3>3, <3>4, BudgetShrinks
  <2> QED BY <2>1, <2>2
<1>3. Inv => DeathsOnRecord
  BY DEF FiledInv, Filed, Upright, DeathsOnRecord
<1> QED BY <1>1, <1>2, <1>3, TypeCorrect, PTL DEF Spec
-----------------------------------------------------------------------------
(* ToolRun: the tools a worker runs                                        *)

ToolPlaces == {"new", "pre", "guard", "resolve", "request", "succeeded", "failed", "finish", "over"}
ToolFrame  == [pc : ToolPlaces, served : BOOLEAN, tool : T!Tools, zone : ToolZones, left : Nat,
               took : Nat, hop : Nat, target : SUBSET Reachable, ok : BOOLEAN]

(* What FetchStaysWithin rests on: a job has spent nothing before it is    *)
(* guarded, what it may still spend stays within its zone, and an address  *)
(* it is pinned to is one that was checked.                                *)
ToolsWithin ==
    /\ run \in [Jobs -> ToolFrame] /\ contacted \subseteq Reachable
    /\ \A j \in Jobs :
          /\ run[j].hop <= MaxRedirects /\ run[j].took + run[j].left <= run[j].zone.max
          /\ run[j].pc \in {"new", "pre", "guard"} => run[j].took = 0

(* A job's frame keeps the bounds if its next one does.                    *)
LEMMA ToolGoes ==
    ASSUME ToolsWithin, NEW j \in Jobs, NEW to \in ToolFrame, T!Goes(j, to),
           to.hop <= MaxRedirects, to.took + to.left <= to.zone.max,
           to.pc \in {"new", "pre", "guard"} => to.took = 0,
           contacted' \subseteq Reachable
    PROVE  ToolsWithin'
BY DEF ToolsWithin, T!Goes

(* The frames jobs are given, where there is a zone.                       *)
LEMMA ToolFrames ==
    ASSUME T!ToolAssumption, ToolZones # {}
    PROVE  /\ T!Idle \in ToolFrame
           /\ \A pc \in ToolPlaces, served, ok \in BOOLEAN :
                LET to == [T!Idle EXCEPT !.pc = pc, !.served = served, !.ok = ok]
                IN  /\ to \in ToolFrame /\ to.hop <= MaxRedirects
                    /\ to.took = 0 /\ to.took + to.left <= to.zone.max
<1>1. T!Idle.zone \in ToolZones /\ T!Idle.zone.max \in Nat
  BY DEF T!Idle, T!ToolAssumption
<1>2. T!Idle = [pc |-> "new", served |-> FALSE, tool |-> "fetch", zone |-> T!Idle.zone,
                left |-> 0, took |-> 0, hop |-> 0, target |-> {}, ok |-> FALSE]
  BY DEF T!Idle
<1>3. T!Idle \in ToolFrame
  <2> PICK z \in ToolZones : z = T!Idle.zone
    BY <1>1
  <2> DEFINE f == [pc |-> "new", served |-> FALSE, tool |-> "fetch", zone |-> z,
                   left |-> 0, took |-> 0, hop |-> 0, target |-> {}, ok |-> FALSE]
  <2>1. f \in ToolFrame
    BY DEF ToolFrame, ToolPlaces, T!Tools
  <2> QED BY <1>2, <2>1
<1>4. MaxRedirects \in Nat
  BY DEF T!ToolAssumption
<1>5. ASSUME NEW pc \in ToolPlaces, NEW served \in BOOLEAN, NEW ok \in BOOLEAN
      PROVE  LET to == [T!Idle EXCEPT !.pc = pc, !.served = served, !.ok = ok]
             IN  /\ to \in ToolFrame /\ to.hop <= MaxRedirects
                 /\ to.took = 0 /\ to.took + to.left <= to.zone.max
  <2> PICK f \in ToolFrame : f = T!Idle
    BY <1>3
  <2>1. f.zone.max \in Nat /\ f.left = 0 /\ f.took = 0 /\ f.hop = 0
    BY <1>1, <1>2
  <2> DEFINE to == [f EXCEPT !.pc = pc, !.served = served, !.ok = ok]
  <2>2. to \in ToolFrame
    BY DEF ToolFrame
  <2>3. to.hop = 0 /\ to.took = 0 /\ to.left = 0 /\ to.zone.max \in Nat
    BY <2>1 DEF ToolFrame
  <2>4. to = [T!Idle EXCEPT !.pc = pc, !.served = served, !.ok = ok]
    OBVIOUS
  <2> HIDE DEF to
  <2> QED BY <2>2, <2>3, <2>4, <1>4
<1> QED BY <1>3, <1>5

LEMMA SmallerOfTwo ==
    ASSUME NEW a \in Nat, NEW b \in Nat
    PROVE  T!Min({a, b}) \in {a, b} /\ T!Min({a, b}) <= a /\ T!Min({a, b}) <= b
<1>1. \E x \in {a, b} : \A y \in {a, b} : x <= y
  <2>1. CASE a <= b
    BY <2>1
  <2>2. CASE b <= a
    BY <2>2
  <2> QED BY <2>1, <2>2
<1>2. T!Min({a, b}) \in {a, b} /\ \A y \in {a, b} : T!Min({a, b}) <= y
  BY <1>1 DEF T!Min
<1> QED BY <1>2

(* Ways to go on without spending anything.                                *)
LEMMA ToolStops ==
    ASSUME T!ToolAssumption, ToolZones # {}, ToolsWithin, NEW j \in Jobs, contacted' \subseteq Reachable,
           \/ \E ok, served \in BOOLEAN : T!Goes(j, T!Over(ok, served))
           \/ \E ok \in BOOLEAN : T!Answers(j, ok)
           \/ T!Fails(j) \/ T!Succeeds(j)
           \/ T!Goes(j, [T!Idle EXCEPT !.pc = "pre", !.served = TRUE])
           \/ T!Goes(j, [T!Idle EXCEPT !.pc = "pre"])
    PROVE  ToolsWithin'
<1>1. T!Idle.served = FALSE /\ T!Idle.ok = FALSE /\ T!Idle.pc = "new"
  BY DEF T!Idle
<1>2. T!Idle \in ToolFrame
  BY ToolFrames
<1>3. PICK pc \in ToolPlaces, served \in BOOLEAN, ok \in BOOLEAN :
        T!Goes(j, [T!Idle EXCEPT !.pc = pc, !.served = served, !.ok = ok])
  <2> DEFINE To(pc, served, ok) == [T!Idle EXCEPT !.pc = pc, !.served = served, !.ok = ok]
  <2>1. run[j].served \in BOOLEAN
    BY DEF ToolsWithin, ToolFrame
  <2>2. ASSUME NEW ok \in BOOLEAN, NEW served \in BOOLEAN
        PROVE  T!Over(ok, served) = To("over", served, ok)
    BY <1>2 DEF T!Over, ToolFrame
  <2>3. ASSUME NEW served \in BOOLEAN, NEW pc \in ToolPlaces
        PROVE  [T!Idle EXCEPT !.pc = pc, !.served = served] = To(pc, served, FALSE)
    BY <1>1, <1>2 DEF ToolFrame
  <2>4. [T!Idle EXCEPT !.pc = "pre"] = To("pre", FALSE, FALSE)
    BY <1>1, <1>2 DEF ToolFrame
  <2>5. ASSUME NEW ok \in BOOLEAN
        PROVE  [T!Idle EXCEPT !.pc = "finish", !.served = TRUE, !.ok = ok] = To("finish", TRUE, ok)
    OBVIOUS
  <2>6. {"pre", "finish", "over", "failed", "succeeded"} \subseteq ToolPlaces
    BY DEF ToolPlaces
  <2>7. \E pc \in ToolPlaces, served \in BOOLEAN, ok \in BOOLEAN : T!Goes(j, To(pc, served, ok))
    <3>1. CASE \E ok, served \in BOOLEAN : T!Goes(j, T!Over(ok, served))
      <4> PICK ok \in BOOLEAN, served \in BOOLEAN : T!Goes(j, T!Over(ok, served))
        BY <3>1
      <4>1. T!Over(ok, served) = To("over", served, ok) /\ "over" \in ToolPlaces
        BY <2>2, <2>6
      <4>2. T!Goes(j, To("over", served, ok))
        BY <4>1
      <4> HIDE DEF To
      <4> QED BY <4>1, <4>2
    <3>2. CASE \E ok \in BOOLEAN : T!Answers(j, ok)
      <4> PICK ok \in BOOLEAN : T!Answers(j, ok)
        BY <3>2
      <4>1. CASE run[j].served
        BY <4>1, <2>5, <2>6 DEF T!Answers
      <4>2. CASE ~run[j].served
        <5>1. T!Goes(j, T!Over(ok, FALSE))
          BY <4>2 DEF T!Answers
        <5>2. T!Over(ok, FALSE) = To("over", FALSE, ok) /\ "over" \in ToolPlaces
          BY <2>2, <2>6
        <5>3. T!Goes(j, To("over", FALSE, ok))
          BY <5>1, <5>2
        <5> HIDE DEF To
        <5> QED BY <5>2, <5>3
      <4> QED BY <4>1, <4>2
    <3>3. CASE T!Fails(j) \/ T!Succeeds(j)
      <4> PICK served \in BOOLEAN : served = run[j].served
        BY <2>1
      <4> PICK pc \in {"failed", "succeeded"} : T!Goes(j, [T!Idle EXCEPT !.pc = pc, !.served = served])
        BY <3>3 DEF T!Fails, T!Succeeds, T!Ran
      <4>1. pc \in ToolPlaces
        BY <2>6
      <4>2. T!Goes(j, To(pc, served, FALSE))
        BY <2>3, <4>1
      <4> HIDE DEF To
      <4> QED BY <4>1, <4>2
    <3>4. CASE T!Goes(j, [T!Idle EXCEPT !.pc = "pre", !.served = TRUE])
      BY <3>4, <2>3, <2>6
    <3>5. CASE T!Goes(j, [T!Idle EXCEPT !.pc = "pre"])
      BY <3>5, <2>4, <2>6
    <3> QED BY <3>1, <3>2, <3>3, <3>4, <3>5
  <2> QED BY <2>7
<1> DEFINE to == [T!Idle EXCEPT !.pc = pc, !.served = served, !.ok = ok]
<1>4. /\ to \in ToolFrame /\ to.hop <= MaxRedirects
      /\ to.took = 0 /\ to.took + to.left <= to.zone.max
  BY ToolFrames
<1>5. T!Goes(j, to)
  BY <1>3
<1> HIDE DEF to
<1> QED BY <1>4, <1>5, ToolGoes

(* What guard, resolution and request do with the time.                    *)
LEMMA ToolMoves ==
    ASSUME T!ToolAssumption, ToolZones # {}, ToolsWithin, NEW j \in Jobs,
           T!Guard(j) \/ T!Resolve(j) \/ T!Request(j) \/ T!ReadContract(j)
    PROVE  ToolsWithin'
<1>0. /\ run[j] \in ToolFrame /\ MaxRedirects \in Nat
      /\ \A z \in ToolZones : z.max \in Nat
      /\ run[j].hop <= MaxRedirects /\ run[j].took + run[j].left <= run[j].zone.max
  BY DEF ToolsWithin, T!ToolAssumption
<1> PICK f \in ToolFrame : f = run[j]
  BY <1>0
<1>1. /\ f.hop \in Nat /\ f.took \in Nat /\ f.left \in Nat /\ f.zone \in ToolZones /\ f.zone.max \in Nat
      /\ f.hop <= MaxRedirects /\ f.took + f.left <= f.zone.max
      /\ f.target \subseteq Reachable
      /\ f.pc \in {"new", "pre", "guard"} => f.took = 0
  BY <1>0 DEF ToolFrame, ToolsWithin
<1>2. CASE T!Guard(j)
  <2>0. contacted' \subseteq Reachable /\ f.pc = "guard"
    BY <1>2 DEF T!Guard, ToolsWithin, T!At
  <2>1. CASE T!Fails(j)
    BY <2>0, <2>1, ToolStops
  <2>2. CASE \E zone \in ToolZones, tool \in T!Tools, wanted \in 1..MaxAsked :
               T!Goes(j, [f EXCEPT !.pc = "resolve", !.zone = zone, !.tool = tool,
                                   !.left = T!Timeout(wanted, zone)])
    <3> PICK zone \in ToolZones, tool \in T!Tools, wanted \in 1..MaxAsked :
               T!Goes(j, [f EXCEPT !.pc = "resolve", !.zone = zone, !.tool = tool,
                                   !.left = T!Timeout(wanted, zone)])
      BY <2>2
    <3>1. wanted \in Nat /\ zone.max \in Nat
      BY <1>0 DEF T!ToolAssumption
    <3> PICK left \in Nat : left = T!Timeout(wanted, zone) /\ left <= zone.max
      BY <3>1, SmallerOfTwo DEF T!Timeout
    <3> DEFINE to == [f EXCEPT !.pc = "resolve", !.zone = zone, !.tool = tool, !.left = left]
    <3>2. to \in ToolFrame
      BY DEF ToolFrame, ToolPlaces
    <3>3. to.hop = f.hop /\ to.took = 0 /\ to.left = left /\ to.zone = zone /\ to.pc = "resolve"
      BY <1>1, <2>0 DEF ToolFrame
    <3>4. T!Goes(j, to)
      OBVIOUS
    <3> HIDE DEF to
    <3>5. to.hop <= MaxRedirects /\ to.took + to.left <= to.zone.max
      BY <1>1, <3>1, <3>3
    <3> QED BY <2>0, <3>2, <3>3, <3>4, <3>5, ToolGoes
  <2> QED BY <1>2, <2>1, <2>2 DEF T!Guard
<1>3. ASSUME NEW t \in 0 .. f.left
      PROVE  \E g \in ToolFrame : /\ g = T!Spends(j, t) /\ g.hop = f.hop /\ g.zone = f.zone /\ g.pc = f.pc
                                  /\ g.took + g.left = f.took + f.left
  <2> DEFINE g == IF f.tool = "fetch" THEN [f EXCEPT !.left = f.left - t, !.took = f.took + t] ELSE f
  <2>1. g = T!Spends(j, t)
    BY DEF T!Spends, ToolFrame
  <2>2. g \in ToolFrame
    <3>1. f.left - t \in Nat /\ f.took + t \in Nat
      BY <1>1
    <3> QED BY <3>1 DEF ToolFrame
  <2>3. g.hop = f.hop /\ g.zone = f.zone /\ g.pc = f.pc /\ g.took + g.left = f.took + f.left
    BY <1>1 DEF ToolFrame
  <2> QED BY <2>1, <2>2, <2>3
<1>4. CASE T!Resolve(j)
  <2>0. contacted' \subseteq Reachable
    BY <1>4 DEF T!Resolve, ToolsWithin
  <2>1. CASE T!Fails(j)
    BY <2>0, <2>1, ToolStops
  <2>2. CASE \E t \in 0..run[j].left, answer \in (SUBSET T!Kinds) \ {{}} :
             /\ ~T!Refused(answer)
             /\ T!Goes(j, [T!Spends(j, t) EXCEPT !.pc = "request", !.target = T!Pinned(answer)])
    <3> PICK t \in 0..f.left, answer \in (SUBSET T!Kinds) \ {{}} :
             /\ ~T!Refused(answer)
             /\ T!Goes(j, [T!Spends(j, t) EXCEPT !.pc = "request", !.target = T!Pinned(answer)])
      BY <2>2
    <3> PICK g \in ToolFrame : /\ g = T!Spends(j, t) /\ g.hop = f.hop /\ g.zone = f.zone /\ g.pc = f.pc
                               /\ g.took + g.left = f.took + f.left
      BY <1>3
    <3>1. T!Pinned(answer) \in SUBSET Reachable
      BY DEF T!Refused, T!Pinned
    <3> DEFINE to == [g EXCEPT !.pc = "request", !.target = T!Pinned(answer)]
    <3>2. to \in ToolFrame
      BY <3>1 DEF ToolFrame, ToolPlaces
    <3>3. to.hop = g.hop /\ to.took = g.took /\ to.left = g.left /\ to.zone = g.zone /\ to.pc = "request"
      BY DEF ToolFrame
    <3>4. T!Goes(j, to)
      OBVIOUS
    <3> HIDE DEF to
    <3> QED BY <2>0, <1>1, <3>2, <3>3, <3>4, ToolGoes
  <2> QED BY <1>4, <2>1, <2>2 DEF T!Resolve
<1>5. ASSUME T!Connects(j) \/ contacted' = contacted PROVE contacted' \subseteq Reachable
  <2>1. CASE contacted' = contacted
    BY <2>1 DEF ToolsWithin
  <2>2. CASE T!Connects(j)
    <3> PICK kind \in f.target : contacted' = contacted \cup {kind}
      BY <2>2 DEF T!Connects
    <3>1. kind \in Reachable
      BY <1>1
    <3> QED BY <3>1 DEF ToolsWithin
  <2> QED BY <1>5, <2>1, <2>2
<1>6. CASE T!Request(j)
  <2>0. contacted' \subseteq Reachable
    BY <1>5, <1>6 DEF T!Request
  <2>1. CASE T!Fails(j) \/ T!Succeeds(j)
    BY <2>0, <2>1, ToolStops
  <2>2. CASE \E t \in 0..(run[j].left - 1) :
             /\ T!Follows(j)
             /\ T!Goes(j, [T!Spends(j, t) EXCEPT !.pc = "resolve", !.hop = @ + 1, !.target = {}])
    <3> PICK t \in 0..(f.left - 1) :
             /\ T!Follows(j)
             /\ T!Goes(j, [T!Spends(j, t) EXCEPT !.pc = "resolve", !.hop = @ + 1, !.target = {}])
      BY <2>2
    <3>0. t \in 0 .. f.left
      BY <1>1
    <3> PICK g \in ToolFrame : /\ g = T!Spends(j, t) /\ g.hop = f.hop /\ g.zone = f.zone /\ g.pc = f.pc
                               /\ g.took + g.left = f.took + f.left
      BY <1>3, <3>0
    <3>1. f.hop < MaxRedirects
      BY DEF T!Follows
    <3> DEFINE to == [g EXCEPT !.pc = "resolve", !.hop = g.hop + 1, !.target = {}]
    <3>2. to \in ToolFrame
      <4>1. g.hop + 1 \in Nat
        BY DEF ToolFrame
      <4> QED BY <4>1 DEF ToolFrame, ToolPlaces
    <3>3. to.hop = g.hop + 1 /\ to.took = g.took /\ to.left = g.left /\ to.zone = g.zone /\ to.pc = "resolve"
      BY DEF ToolFrame
    <3>4. T!Goes(j, to)
      BY DEF ToolFrame
    <3> HIDE DEF to
    <3>5. to.hop <= MaxRedirects
      BY <3>1, <3>3, <1>0, <1>1
    <3> QED BY <2>0, <1>1, <3>2, <3>3, <3>4, <3>5, ToolGoes
  <2>3. \/ T!Fails(j) \/ T!Succeeds(j)
        \/ \E t \in 0..(run[j].left - 1) :
             /\ T!Follows(j)
             /\ T!Goes(j, [T!Spends(j, t) EXCEPT !.pc = "resolve", !.hop = @ + 1, !.target = {}])
    BY <1>6 DEF T!Request
  <2> QED BY <2>1, <2>2, <2>3
<1>7. CASE T!ReadContract(j)
  <2>1. T!Connects(j) \/ contacted' = contacted
    BY <1>7 DEF T!ReadContract
  <2>2. T!Fails(j) \/ T!Succeeds(j)
    BY <1>7 DEF T!ReadContract
  <2> QED BY <1>5, <2>1, <2>2, ToolStops
<1> QED BY <1>2, <1>4, <1>6, <1>7

LEMMA ToolsWithinStep ==
    ASSUME T!ToolAssumption, ToolZones # {}, ToolsWithin, [T!Next]_T!tooling
    PROVE  ToolsWithin'
<1>1. CASE UNCHANGED T!tooling
  BY <1>1 DEF T!tooling, ToolsWithin
<1> SUFFICES ASSUME NEW j \in Jobs,
                    \/ T!Arrive(j) \/ T!PreToolUse(j) \/ T!Guard(j) \/ T!Resolve(j) \/ T!Request(j)
                    \/ T!ReadContract(j) \/ T!PostToolUse(j) \/ T!Stop(j) \/ T!StopThrows(j)
             PROVE  ToolsWithin'
  BY <1>1 DEF T!Next
<1>2. CASE T!Arrive(j)
  <2>1. contacted' \subseteq Reachable
    BY <1>2 DEF T!Arrive, ToolsWithin
  <2>2. \/ T!Goes(j, [T!Idle EXCEPT !.pc = "pre", !.served = TRUE]) \/ T!Goes(j, T!Over(FALSE, TRUE))
        \/ T!Goes(j, [T!Idle EXCEPT !.pc = "pre"])
    BY <1>2 DEF T!Arrive
  <2> QED BY <2>1, <2>2, ToolStops
<1>3. CASE T!PreToolUse(j)
  <2>1. contacted' \subseteq Reachable /\ run[j].pc = "pre"
    BY <1>3 DEF T!PreToolUse, ToolsWithin, T!At
  <2>2. CASE T!Answers(j, FALSE)
    BY <2>1, <2>2, ToolStops
  <2>3. CASE T!Goes(j, [run[j] EXCEPT !.pc = "guard"])
    <3>1. run[j] \in ToolFrame
      BY DEF ToolsWithin
    <3> PICK f \in ToolFrame : f = run[j]
      BY <3>1
    <3>2. f.hop <= MaxRedirects /\ f.took + f.left <= f.zone.max /\ f.took = 0
      BY <2>1 DEF ToolsWithin
    <3> DEFINE to == [f EXCEPT !.pc = "guard"]
    <3>3. to \in ToolFrame
      BY DEF ToolFrame, ToolPlaces
    <3>4. to.hop = f.hop /\ to.took = f.took /\ to.left = f.left /\ to.zone = f.zone
      BY DEF ToolFrame
    <3>5. T!Goes(j, to)
      BY <2>3
    <3> HIDE DEF to
    <3> QED BY <2>1, <3>2, <3>3, <3>4, <3>5, ToolGoes
  <2> QED BY <1>3, <2>2, <2>3 DEF T!PreToolUse
<1>4. CASE T!PostToolUse(j)
  <2>1. contacted' \subseteq Reachable
    BY <1>4 DEF T!PostToolUse, ToolsWithin
  <2>2. T!Answers(j, TRUE) \/ T!Answers(j, FALSE) \/ T!Fails(j)
    BY <1>4 DEF T!PostToolUse
  <2> QED BY <2>1, <2>2, ToolStops
<1>5. CASE T!Stop(j)
  <2>1. contacted' \subseteq Reachable /\ run[j].ok \in BOOLEAN
    BY <1>5 DEF T!Stop, ToolsWithin, ToolFrame
  <2>2. T!Goes(j, T!Over(run[j].ok, TRUE))
    BY <1>5 DEF T!Stop
  <2> QED BY <2>1, <2>2, ToolStops
<1>6. CASE T!StopThrows(j)
  <2>1. contacted' \subseteq Reachable
    BY <1>6 DEF T!StopThrows, ToolsWithin
  <2>2. run' = [i \in Jobs |-> IF run[i].served /\ ~T!At(i, "over") THEN T!Over(run[i].ok, TRUE) ELSE run[i]]
    BY <1>6 DEF T!StopThrows
  <2>3. ASSUME NEW i \in Jobs
        PROVE  /\ run'[i] \in ToolFrame /\ run'[i].hop <= MaxRedirects
               /\ run'[i].took + run'[i].left <= run'[i].zone.max
               /\ run'[i].pc \in {"new", "pre", "guard"} => run'[i].took = 0
    <3>1. CASE run'[i] = run[i]
      BY <3>1 DEF ToolsWithin
    <3>2. CASE run'[i] = T!Over(run[i].ok, TRUE)
      <4>1. run[i].ok \in BOOLEAN
        BY DEF ToolsWithin, ToolFrame
      <4> PICK ok \in BOOLEAN : ok = run[i].ok
        BY <4>1
      <4>2. T!Idle \in ToolFrame /\ "over" \in ToolPlaces
        BY ToolFrames DEF ToolPlaces
      <4> DEFINE to == [T!Idle EXCEPT !.pc = "over", !.served = TRUE, !.ok = ok]
      <4>3. T!Over(ok, TRUE) = to
        BY <4>2 DEF T!Over, ToolFrame
      <4>4. to \in ToolFrame /\ to.hop <= MaxRedirects /\ to.took = 0 /\ to.took + to.left <= to.zone.max
        BY <4>2, ToolFrames
      <4>5. run'[i] = to
        BY <3>2, <4>3
      <4> HIDE DEF to
      <4> QED BY <4>4, <4>5
    <3> QED BY <2>2, <3>1, <3>2
  <2>4. run' \in [Jobs -> ToolFrame]
    BY <2>2, <2>3
  <2> HIDE DEF ToolFrame
  <2> QED BY <2>1, <2>3, <2>4 DEF ToolsWithin
<1> QED BY <1>2, <1>3, <1>4, <1>5, <1>6, ToolMoves

LEMMA ToolsStart ==
    ASSUME T!ToolAssumption, ToolZones # {}, T!Init PROVE ToolsWithin
<1>1. T!Idle \in ToolFrame
  BY ToolFrames
<1>2. T!Idle.hop = 0 /\ T!Idle.took = 0 /\ T!Idle.left = 0 /\ T!Idle.zone \in ToolZones /\ T!Idle.zone.max \in Nat
  BY DEF T!Idle, T!ToolAssumption
<1>3. MaxRedirects \in Nat
  BY DEF T!ToolAssumption
<1> QED BY <1>1, <1>2, <1>3 DEF T!Init, ToolsWithin

(* Whatever a name resolves to and however often an answer redirects, a    *)
(* tool is pinned to no address that was not checked for that hop, follows *)
(* no more redirects than it may and is over within its zone's timeout:    *)
(* requestPinnedUrl and httpGet of lib/tools.mjs under the guardrails.     *)
THEOREM FetchStaysWithinAlways ==
    ASSUME T!ToolAssumption, ToolZones # {} PROVE T!Spec => []T!FetchStaysWithin
<1>1. T!Init => ToolsWithin
  BY ToolsStart
<1>2. ToolsWithin /\ [T!Next]_T!tooling => ToolsWithin'
  BY ToolsWithinStep
<1>3. ToolsWithin => T!FetchStaysWithin
  BY DEF ToolsWithin, T!FetchStaysWithin
<1> QED BY <1>1, <1>2, <1>3, PTL DEF T!Spec

(* The file of receipts, of which a row is never taken back.               *)
ToolManagers == T!Gateways \cup {T!Hooks(j) : j \in Jobs}
ToolPhases   == {"SESSION_START", "STOP", "PRE_REJECTED", "PRE_ALLOWED", "POST_SUCCEEDED", "POST_FAILED"}
ToolRows     == [by : ToolManagers, phase : ToolPhases, job : Jobs, previous : Nat]

ReceiptsTyped ==
    /\ receipts \in Seq(ToolRows) /\ previous \in [ToolManagers -> Nat]
    /\ throws \in Nat /\ throws <= MaxFaults /\ life \in Nat /\ life <= throws

LEMMA ManagersKnown ==
    ASSUME T!ToolAssumption, ReceiptsTyped
    PROVE  /\ T!Gateway \in ToolManagers
           /\ \A j \in Jobs : /\ T!Hooks(j) \in ToolManagers /\ T!Gateway # T!Hooks(j)
                              /\ \A k \in Jobs : T!Hooks(j) = T!Hooks(k) => j = k
<1>1. life \in 0 .. MaxFaults
  BY DEF T!ToolAssumption, ReceiptsTyped
<1> QED BY <1>1 DEF ToolManagers, T!Gateways, T!Gateway, T!Hooks

(* One row is added at most, and it is the one that was to be written.     *)
ToolWrites(m, phase, j) == T!Emits(m, phase, j) \/ T!EmitThrows(m, phase, j)

LEMMA RowIsAdded ==
    ASSUME ReceiptsTyped, NEW m \in ToolManagers, NEW phase \in ToolPhases, NEW j \in Jobs,
           receipts' = Append(receipts, T!Row(m, phase, j))
    PROVE  /\ receipts' \in Seq(ToolRows)
           /\ Len(receipts') = Len(receipts) + 1 /\ Len(receipts) \in Nat
           /\ DOMAIN receipts = 1 .. Len(receipts) /\ DOMAIN receipts' = 1 .. (Len(receipts) + 1)
           /\ \A i \in 1 .. Len(receipts) : receipts'[i] = receipts[i]
           /\ receipts'[Len(receipts) + 1].by = m /\ receipts'[Len(receipts) + 1].phase = phase
           /\ receipts'[Len(receipts) + 1].previous = previous[m]
<1>1. PICK row \in ToolRows : row = T!Row(m, phase, j)
  BY DEF T!Row, ReceiptsTyped, ToolRows
<1>2. row.by = m /\ row.phase = phase /\ row.previous = previous[m]
  BY <1>1 DEF T!Row
<1>3. receipts' = Append(receipts, row)
  BY <1>1
<1> QED BY <1>2, <1>3 DEF ReceiptsTyped

LEMMA WritesKeepTypes ==
    ASSUME ReceiptsTyped, NEW m \in ToolManagers, NEW phase \in ToolPhases, NEW j \in Jobs, MaxFaults \in Nat,
           ToolWrites(m, phase, j), life' = life \/ (throws' = throws + 1 /\ life' = life + 1)
    PROVE  ReceiptsTyped' /\ throws <= throws'
<1>1. \/ receipts' = Append(receipts, T!Row(m, phase, j)) \/ receipts' = receipts
  BY DEF ToolWrites, T!Emits, T!EmitThrows
<1>2. receipts' \in Seq(ToolRows) /\ Len(receipts) \in Nat
  BY <1>1, RowIsAdded DEF ReceiptsTyped
<1>3. previous' \in [ToolManagers -> Nat]
  BY <1>2 DEF ToolWrites, T!Emits, T!EmitThrows, ReceiptsTyped
<1>4. \/ throws' = throws /\ life' = life
      \/ throws < MaxFaults /\ throws' = throws + 1 /\ life' \in {life, life + 1}
  BY DEF ToolWrites, T!Emits, T!EmitThrows, ReceiptsTyped
<1> QED BY <1>2, <1>3, <1>4 DEF ReceiptsTyped

(* What a step does to the file: a row at most, of the gateway's or of the *)
(* job's own hooks.                                                        *)
LEMMA StepsWriteOnce ==
    ASSUME T!ToolAssumption, ReceiptsTyped, T!Next
    PROVE  \/ UNCHANGED <<receipts, previous, throws, life>>
           \/ \E m \in ToolManagers, phase \in ToolPhases, j \in Jobs :
                /\ ToolWrites(m, phase, j)
                /\ life' = life \/ (throws' = throws + 1 /\ life' = life + 1)
<1> DEFINE Written == \E m \in ToolManagers, phase \in ToolPhases, j \in Jobs :
                        /\ ToolWrites(m, phase, j)
                        /\ life' = life \/ (throws' = throws + 1 /\ life' = life + 1)
<1> SUFFICES ASSUME NEW j \in Jobs,
                    \/ T!Arrive(j) \/ T!PreToolUse(j) \/ T!Guard(j) \/ T!Resolve(j) \/ T!Request(j)
                    \/ T!ReadContract(j) \/ T!PostToolUse(j) \/ T!Stop(j) \/ T!StopThrows(j)
             PROVE  UNCHANGED <<receipts, previous, throws, life>> \/ Written
  BY DEF T!Next
<1>1. T!Gateway \in ToolManagers /\ T!Hooks(j) \in ToolManagers
  BY ManagersKnown
<1>2. ASSUME NEW m \in ToolManagers, NEW phase \in ToolPhases, ToolWrites(m, phase, j),
             life' = life \/ (throws' = throws + 1 /\ life' = life + 1)
      PROVE  Written
  BY <1>2
<1> HIDE DEF Written
<1>3. ToolPhases = {"SESSION_START", "STOP", "PRE_REJECTED", "PRE_ALLOWED", "POST_SUCCEEDED", "POST_FAILED"}
  BY DEF ToolPhases
<1>4. CASE T!Arrive(j)
  <2>1. \/ ToolWrites(T!Gateway, "SESSION_START", j) /\ life' = life
        \/ UNCHANGED <<receipts, previous, throws, life>>
    BY <1>4 DEF T!Arrive, ToolWrites
  <2> QED BY <1>1, <1>2, <1>3, <2>1
<1>5. CASE T!PreToolUse(j)
  <2>1. \E phase \in {"PRE_REJECTED", "PRE_ALLOWED"} : ToolWrites(T!Hooks(j), phase, j) /\ life' = life
    BY <1>5 DEF T!PreToolUse, ToolWrites
  <2> QED BY <1>1, <1>2, <1>3, <2>1
<1>6. CASE T!Guard(j) \/ T!Resolve(j) \/ T!Request(j) \/ T!ReadContract(j)
  BY <1>6 DEF T!Guard, T!Resolve, T!Request, T!ReadContract
<1>7. CASE T!PostToolUse(j)
  <2>1. \E phase \in {"POST_SUCCEEDED", "POST_FAILED"} : ToolWrites(T!Hooks(j), phase, j) /\ life' = life
    BY <1>7 DEF T!PostToolUse, ToolWrites
  <2> QED BY <1>1, <1>2, <1>3, <2>1
<1>8. CASE T!Stop(j)
  <2>1. \/ ToolWrites(T!Gateway, "STOP", j) /\ life' = life
        \/ UNCHANGED <<receipts, previous, throws, life>>
    BY <1>8 DEF T!Stop, ToolWrites
  <2> QED BY <1>1, <1>2, <1>3, <2>1
<1>9. CASE T!StopThrows(j)
  <2>1. ToolWrites(T!Gateway, "STOP", j) /\ throws' = throws + 1 /\ life' = life + 1
    BY <1>9 DEF T!StopThrows, ToolWrites, T!EmitThrows
  <2> QED BY <1>1, <1>2, <1>3, <2>1
<1> QED BY <1>4, <1>5, <1>6, <1>7, <1>8, <1>9

(* A row is named by a later one of its manager's, or by what the manager  *)
(* remembers.  Every other row was written by a write that threw.          *)
Named(k) ==
    \/ previous[receipts[k].by] = k
    \/ \E i \in DOMAIN receipts : k \in T!Mates(i) /\ receipts[i].previous = k
Unnamed == {k \in DOMAIN receipts : ~Named(k)}

ChainInv ==
    /\ ReceiptsTyped
    /\ \A m \in ToolManagers : previous[m] # 0 => previous[m] \in DOMAIN receipts /\ receipts[previous[m]].by = m
    /\ \A i \in DOMAIN receipts : receipts[i].previous \in T!Mates(i) \cup {0}
    /\ T!PassedOver \subseteq Unnamed
    /\ Cardinality(Unnamed) <= throws

LEMMA RowsAreChained ==
    ASSUME ChainInv, NEW m \in ToolManagers, NEW phase \in ToolPhases, NEW j \in Jobs,
           receipts' = Append(receipts, T!Row(m, phase, j)),
           \/ previous' = [previous EXCEPT ![m] = Len(receipts) + 1] \/ previous' = previous
    PROVE  /\ \A k \in ToolManagers :
                previous'[k] # 0 => previous'[k] \in DOMAIN receipts' /\ receipts'[previous'[k]].by = k
           /\ \A i \in DOMAIN receipts' : (receipts'[i]).previous \in (T!Mates(i))' \cup {0}
           /\ T!PassedOver' \subseteq Unnamed'
           /\ Unnamed' \subseteq Unnamed \cup {Len(receipts) + 1}
           /\ previous' # previous => Len(receipts) + 1 \notin Unnamed'
<1>0. Len(receipts) \in Nat
  BY DEF ChainInv, ReceiptsTyped
<1> PICK n \in Nat : n = Len(receipts) + 1
  BY <1>0
<1>1. /\ Len(receipts) \in Nat /\ n \in Nat
      /\ DOMAIN receipts = 1 .. Len(receipts) /\ DOMAIN receipts' = 1 .. n
      /\ \A i \in DOMAIN receipts : receipts'[i] = receipts[i] /\ i < n
      /\ (receipts'[n]).by = m /\ (receipts'[n]).previous = previous[m]
  <2> HIDE DEF ToolRows
  <2> QED BY RowIsAdded DEF ChainInv
<1>2. /\ previous \in [ToolManagers -> Nat]
      /\ \A i \in DOMAIN receipts : receipts[i].by \in ToolManagers
  <2>1. previous \in [ToolManagers -> Nat] /\ receipts \in Seq(ToolRows)
    BY DEF ChainInv, ReceiptsTyped
  <2>2. \A i \in DOMAIN receipts : receipts[i] \in ToolRows
    BY <2>1
  <2> QED BY <2>1, <2>2 DEF ToolRows
<1>3. /\ \A k \in ToolManagers : previous'[k] = previous[k] \/ (k = m /\ previous'[k] = n)
      /\ n \in DOMAIN receipts' /\ DOMAIN receipts \subseteq DOMAIN receipts'
  BY <1>1, <1>2
<1>4. \A i \in DOMAIN receipts : (T!Mates(i))' = T!Mates(i)
  BY <1>1 DEF T!Mates
<1>5. (T!Mates(n))' = {k \in DOMAIN receipts : receipts[k].by = m}
  BY <1>1 DEF T!Mates
<1>6. \A i \in DOMAIN receipts : \A k \in T!Mates(i) : k \in DOMAIN receipts /\ receipts[k].by = receipts[i].by /\ k < i
  BY <1>1 DEF T!Mates
<1>7. \A k \in ToolManagers :
        previous'[k] # 0 => previous'[k] \in DOMAIN receipts' /\ (receipts'[previous'[k]]).by = k
  BY <1>1, <1>3 DEF ChainInv
<1>8. \A i \in DOMAIN receipts' : (receipts'[i]).previous \in (T!Mates(i))' \cup {0}
  <2> SUFFICES ASSUME NEW i \in DOMAIN receipts' PROVE (receipts'[i]).previous \in (T!Mates(i))' \cup {0}
    OBVIOUS
  <2>1. CASE i = n
    BY <1>1, <1>5, <2>1 DEF ChainInv
  <2>2. CASE i # n
    <3>1. i \in DOMAIN receipts
      BY <1>1, <2>2
    <3> QED BY <1>1, <1>4, <3>1 DEF ChainInv
  <2> QED BY <2>1, <2>2
<1>9. ASSUME NEW k \in DOMAIN receipts, Named(k)' PROVE Named(k) \/ (k = previous[m] /\ receipts[k].by = m)
  <2>1. k # n /\ receipts'[k] = receipts[k] /\ receipts[k].by \in ToolManagers
    BY <1>1, <1>2
  <2>2. CASE (previous[receipts[k].by] = k)'
    BY <1>3, <2>1, <2>2 DEF Named
  <2>3. CASE \E i \in DOMAIN receipts' : k \in (T!Mates(i))' /\ (receipts'[i]).previous = k
    <3> PICK i \in DOMAIN receipts' : k \in (T!Mates(i))' /\ (receipts'[i]).previous = k
      BY <2>3
    <3>1. CASE i = n
      BY <1>1, <1>5, <3>1
    <3>2. CASE i # n
      <4>1. i \in DOMAIN receipts
        BY <1>1, <3>2
      <4> QED BY <1>1, <1>4, <4>1 DEF Named
    <3> QED BY <3>1, <3>2
  <2> QED BY <1>9, <2>2, <2>3 DEF Named
<1>10. ASSUME NEW k \in DOMAIN receipts, Named(k) PROVE Named(k)'
  <2>1. k \in DOMAIN receipts' /\ receipts'[k] = receipts[k] /\ receipts[k].by \in ToolManagers
    BY <1>1, <1>2, <1>3
  <2>2. CASE previous[receipts[k].by] = k
    <3>1. CASE previous'[receipts[k].by] = k
      BY <2>1, <3>1 DEF Named
    <3>2. CASE previous'[receipts[k].by] # k
      <4>1. receipts[k].by = m
        BY <1>3, <2>1, <2>2, <3>2
      <4>2. k \in (T!Mates(n))' /\ (receipts'[n]).previous = k
        BY <1>1, <1>5, <2>2, <4>1
      <4> QED BY <1>3, <4>2 DEF Named
    <3> QED BY <3>1, <3>2
  <2>3. CASE \E i \in DOMAIN receipts : k \in T!Mates(i) /\ receipts[i].previous = k
    <3> PICK i \in DOMAIN receipts : k \in T!Mates(i) /\ receipts[i].previous = k
      BY <2>3
    <3>1. i \in DOMAIN receipts' /\ k \in (T!Mates(i))' /\ (receipts'[i]).previous = k
      BY <1>1, <1>3, <1>4
    <3> QED BY <3>1 DEF Named
  <2> QED BY <1>10, <2>2, <2>3 DEF Named
<1>11. Unnamed' \subseteq Unnamed \cup {n}
  BY <1>1, <1>10 DEF Unnamed
<1>12. previous' # previous => n \notin Unnamed'
  <2> SUFFICES ASSUME previous' # previous PROVE Named(n)'
    BY DEF Unnamed
  <2>1. previous'[m] = n
    BY <1>2
  <2> QED BY <1>1, <2>1 DEF Named
<1>13. T!PassedOver' \subseteq Unnamed'
  <2> SUFFICES ASSUME NEW k \in DOMAIN receipts', NEW i \in DOMAIN receipts', k \in (T!Mates(i))',
                      \A l \in (T!Mates(i))' : l <= k, (receipts'[i]).previous # k, Named(k)'
               PROVE  FALSE
    BY DEF T!PassedOver, Unnamed
  <2>1. k \in DOMAIN receipts
    <3>1. CASE i = n
      BY <1>5, <3>1
    <3>2. CASE i # n
      <4>1. i \in DOMAIN receipts
        BY <1>1, <3>2
      <4> QED BY <1>4, <1>6, <4>1
    <3> QED BY <3>1, <3>2
  <2>2. Named(k) \/ (k = previous[m] /\ receipts[k].by = m)
    BY <1>9, <2>1
  <2>3. CASE i = n
    <3>1. k # previous[m] /\ receipts[k].by = m
      BY <1>1, <1>5, <2>3
    <3>2. \A l \in DOMAIN receipts : receipts[l].by = m => l <= k
      BY <1>5, <2>3
    <3>3. PICK h \in DOMAIN receipts : k \in T!Mates(h) /\ receipts[h].previous = k
      BY <2>2, <3>1 DEF Named
    <3> QED BY <1>1, <1>6, <3>1, <3>2, <3>3
  <2>4. CASE i # n
    <3>1. i \in DOMAIN receipts
      BY <1>1, <2>4
    <3>2. k \in T!PassedOver
      BY <1>1, <1>4, <2>1, <3>1 DEF T!PassedOver
    <3>3. ~Named(k)
      BY <3>2 DEF ChainInv, Unnamed
    <3>4. previous[m] # k
      BY <2>2, <3>3 DEF Named
    <3> QED BY <2>2, <3>3, <3>4
  <2> QED BY <2>3, <2>4
<1> QED BY <1>7, <1>8, <1>11, <1>12, <1>13

LEMMA ToolCards == \A S : T!Cardinality(S) = Cardinality(S)
BY DEF T!Cardinality, Cardinality

LEMMA UnnamedFinite == ASSUME ReceiptsTyped PROVE IsFiniteSet(Unnamed)
<1>1. receipts \in Seq(ToolRows)
  BY DEF ReceiptsTyped
<1>2. Len(receipts) \in Nat /\ DOMAIN receipts = 1 .. Len(receipts)
  BY <1>1
<1>3. Unnamed \subseteq 1 .. Len(receipts)
  BY <1>2 DEF Unnamed
<1>4. IsFiniteSet(1 .. Len(receipts))
  BY <1>2, FS_Interval
<1> QED BY <1>3, <1>4, FS_Subset

LEMMA ChainStep ==
    ASSUME T!ToolAssumption, ChainInv, [T!Next]_T!tooling
    PROVE  ChainInv'
<1>1. CASE UNCHANGED <<receipts, previous, throws, life>>
  <2>1. Unnamed' = Unnamed /\ T!PassedOver' = T!PassedOver /\ \A i : (T!Mates(i))' = T!Mates(i)
    BY <1>1 DEF Unnamed, Named, T!PassedOver, T!Mates
  <2> QED BY <1>1, <2>1 DEF ChainInv, ReceiptsTyped
<1>2. CASE T!Next /\ ~UNCHANGED <<receipts, previous, throws, life>>
  <2>0. MaxFaults \in Nat /\ ReceiptsTyped /\ throws \in Nat
    BY DEF T!ToolAssumption, ChainInv, ReceiptsTyped
  <2>1. PICK m \in ToolManagers, phase \in ToolPhases, j \in Jobs :
           /\ ToolWrites(m, phase, j)
           /\ life' = life \/ (throws' = throws + 1 /\ life' = life + 1)
    BY <1>2, <2>0, StepsWriteOnce
  <2>2. ReceiptsTyped'
    BY <2>0, <2>1, WritesKeepTypes
  <2>3. IsFiniteSet(Unnamed)
    BY <2>0, UnnamedFinite
  <2>4. CASE receipts' = receipts
    <3>1. previous' = previous /\ throws <= throws' /\ throws' \in Nat
      <4>1. receipts' # Append(receipts, T!Row(m, phase, j))
        <5>1. Len(Append(receipts, T!Row(m, phase, j))) = Len(receipts) + 1 /\ Len(receipts) \in Nat
          BY <2>0 DEF ReceiptsTyped
        <5> QED BY <5>1, <2>4
      <4> QED BY <2>0, <2>1, <4>1 DEF ToolWrites, T!Emits, T!EmitThrows
    <3>2. Unnamed' = Unnamed /\ T!PassedOver' = T!PassedOver /\ \A i : (T!Mates(i))' = T!Mates(i)
      BY <2>4, <3>1 DEF Unnamed, Named, T!PassedOver, T!Mates
    <3>3. Cardinality(Unnamed) \in Nat
      BY <2>3, FS_CardinalityType
    <3>4. Cardinality(Unnamed) <= throws'
      BY <2>0, <3>1, <3>3 DEF ChainInv
    <3> QED BY <2>2, <2>4, <3>1, <3>2, <3>4 DEF ChainInv
  <2>5. CASE receipts' # receipts
    <3>1. /\ receipts' = Append(receipts, T!Row(m, phase, j))
          /\ \/ previous' = [previous EXCEPT ![m] = Len(receipts) + 1] /\ throws' = throws
             \/ previous' = previous /\ throws' = throws + 1
      BY <2>1, <2>5 DEF ToolWrites, T!Emits, T!EmitThrows
    <3>2. /\ \A k \in ToolManagers :
                previous'[k] # 0 => previous'[k] \in DOMAIN receipts' /\ (receipts'[previous'[k]]).by = k
          /\ \A i \in DOMAIN receipts' : (receipts'[i]).previous \in (T!Mates(i))' \cup {0}
          /\ T!PassedOver' \subseteq Unnamed'
          /\ Unnamed' \subseteq Unnamed \cup {Len(receipts) + 1}
          /\ previous' # previous => Len(receipts) + 1 \notin Unnamed'
      BY <3>1, RowsAreChained
    <3>3. Cardinality(Unnamed') <= throws'
      <4>1. Cardinality(Unnamed) \in Nat /\ Cardinality(Unnamed) <= throws
        BY <2>3, FS_CardinalityType DEF ChainInv
      <4>2. CASE throws' = throws + 1
        <5>1. /\ IsFiniteSet(Unnamed \cup {Len(receipts) + 1})
              /\ Cardinality(Unnamed \cup {Len(receipts) + 1}) <= Cardinality(Unnamed) + 1
          <6> DEFINE x == Len(receipts) + 1
          <6>1. /\ IsFiniteSet(Unnamed \cup {x})
                /\ Cardinality(Unnamed \cup {x}) = IF x \in Unnamed THEN Cardinality(Unnamed) ELSE Cardinality(Unnamed) + 1
            BY <2>3, FS_AddElement
          <6> QED BY <4>1, <6>1
        <5>2. Cardinality(Unnamed') <= Cardinality(Unnamed \cup {Len(receipts) + 1}) /\ Cardinality(Unnamed') \in Nat
          BY <3>2, <5>1, FS_Subset, FS_CardinalityType
        <5>3. Cardinality(Unnamed \cup {Len(receipts) + 1}) \in Nat
          BY <5>1, FS_CardinalityType
        <5> QED BY <2>0, <4>1, <4>2, <5>1, <5>2, <5>3
      <4>3. CASE throws' # throws + 1
        <5>1. throws' = throws /\ previous' = [previous EXCEPT ![m] = Len(receipts) + 1]
          BY <3>1, <4>3
        <5>2. Unnamed' \subseteq Unnamed
          <6>1. CASE previous' # previous
            BY <3>2, <6>1
          <6>2. CASE previous' = previous
            <7>1. previous[m] = Len(receipts) + 1
              BY <2>0, <5>1, <6>2 DEF ReceiptsTyped
            <7>2. previous[m] \notin DOMAIN receipts /\ previous[m] # 0
              BY <2>0, <7>1 DEF ReceiptsTyped
            <7> QED BY <7>2 DEF ChainInv
          <6> QED BY <6>1, <6>2
        <5>3. Cardinality(Unnamed') <= Cardinality(Unnamed) /\ Cardinality(Unnamed') \in Nat
          BY <2>3, <5>2, FS_Subset, FS_CardinalityType
        <5> QED BY <2>0, <4>1, <5>1, <5>3
      <4> QED BY <4>2, <4>3
    <3> QED BY <2>2, <3>2, <3>3 DEF ChainInv
  <2> QED BY <2>4, <2>5
<1>3. T!Next \/ UNCHANGED <<receipts, previous, throws, life>>
  BY DEF T!tooling
<1> QED BY <1>1, <1>2, <1>3

LEMMA ChainStart == ASSUME T!ToolAssumption PROVE T!Init => ChainInv
<1> SUFFICES ASSUME T!Init PROVE ChainInv
  OBVIOUS
<1>1. receipts = <<>> /\ throws = 0 /\ life = 0 /\ MaxFaults \in Nat
  BY DEF T!Init, T!ToolAssumption
<1>2. previous \in [ToolManagers -> Nat] /\ \A m \in ToolManagers : previous[m] = 0
  BY DEF T!Init, ToolManagers
<1>3. DOMAIN receipts = {} /\ receipts \in Seq(ToolRows)
  BY <1>1
<1>4. Unnamed = {} /\ T!PassedOver = {}
  BY <1>3 DEF Unnamed, T!PassedOver
<1>5. Cardinality(Unnamed) = 0
  BY <1>4, FS_EmptySet
<1> QED BY <1>1, <1>2, <1>3, <1>4, <1>5 DEF ChainInv, ReceiptsTyped

(* Whichever writes of receipts throw, with or without the row on file:    *)
(* every receipt names one of its own manager's before it, or none, and no *)
(* more are passed over than writes threw (emit of lib/lifecycle_hooks.mjs,*)
(* whose file all managers share).                                         *)
THEOREM ReceiptsAreChainedAlways ==
    ASSUME T!ToolAssumption PROVE T!Spec => []T!ReceiptsAreChained
<1>1. T!Init => ChainInv
  BY ChainStart
<1>2. ChainInv /\ [T!Next]_T!tooling => ChainInv'
  BY ChainStep
<1>3. ChainInv => T!ReceiptsAreChained
  <2> SUFFICES ASSUME ChainInv PROVE T!ReceiptsAreChained
    OBVIOUS
  <2>1. throws \in Nat
    BY DEF ChainInv, ReceiptsTyped
  <2>2. IsFiniteSet(Unnamed)
    BY UnnamedFinite DEF ChainInv
  <2>3. Cardinality(T!PassedOver) <= Cardinality(Unnamed) /\ Cardinality(T!PassedOver) \in Nat /\ Cardinality(Unnamed) \in Nat
    BY <2>2, FS_Subset, FS_CardinalityType DEF ChainInv
  <2>4. T!Cardinality(T!PassedOver) <= throws
    BY <2>1, <2>3, ToolCards DEF ChainInv
  <2> QED BY <2>4 DEF ChainInv, T!ReceiptsAreChained
<1> QED BY <1>1, <1>2, <1>3, PTL DEF T!Spec

(* What is on record of a job, for each place it can be at.                *)
First(j)  == \E i \in T!Own(j) : receipts[i].phase = "PRE_ALLOWED" /\ \A k \in T!Own(j) : i <= k
OneReceipt(j)  == \E i \in T!Own(j) : receipts[i].phase = "PRE_ALLOWED" /\ T!Own(j) = {i}
Denied(j) == \E k \in T!Own(j) : receipts[k].phase = "POST_SUCCEEDED"
Paired(j) == \E i, k \in DOMAIN receipts : /\ T!Own(j) = {i, k} /\ i < k
                                           /\ receipts[i].phase = "PRE_ALLOWED"
                                           /\ receipts[k].phase = "POST_SUCCEEDED"
Closed(j) == \A i \in T!Own(j) : receipts[i].phase = "POST_SUCCEEDED" => \E k \in T!Own(j) : k > i

RecordOf(j, pc, ok) ==
    /\ ok => pc \in {"finish", "over"} /\ Paired(j)
    /\ pc \in {"new", "pre"} => T!Own(j) = {}
    /\ pc \in {"guard", "resolve", "request", "succeeded"} => OneReceipt(j)
    /\ pc = "failed" => First(j) /\ (Denied(j) => throws >= 1)
    /\ pc \in {"finish", "over"} /\ ~ok /\ throws < 2 => Closed(j)

RecordInv ==
    /\ ToolsWithin /\ ReceiptsTyped
    /\ \A j \in Jobs : RecordOf(j, run[j].pc, run[j].ok)

(* What the rows of other managers leave as it was.                        *)
LEMMA OwnKept ==
    ASSUME ReceiptsTyped, NEW j \in Jobs, throws' \in Nat, throws <= throws',
           \/ receipts' = receipts
           \/ \E m \in ToolManagers, phase \in ToolPhases, k \in Jobs :
                m # T!Hooks(j) /\ receipts' = Append(receipts, T!Row(m, phase, k))
    PROVE  /\ T!Own(j)' = T!Own(j)
           /\ First(j) => First(j)'
           /\ OneReceipt(j) => OneReceipt(j)'
           /\ Denied(j)' => Denied(j)
           /\ Paired(j) => Paired(j)'
           /\ Closed(j) => Closed(j)'
           /\ \A pc \in ToolPlaces, ok \in BOOLEAN : RecordOf(j, pc, ok) => RecordOf(j, pc, ok)'
<1>1. /\ T!Own(j)' = T!Own(j)
      /\ \A i \in T!Own(j) : receipts'[i] = receipts[i]
      /\ T!Own(j) \subseteq DOMAIN receipts /\ DOMAIN receipts \subseteq DOMAIN receipts'
      /\ \A i \in DOMAIN receipts : receipts'[i] = receipts[i]
  <2>1. CASE receipts' = receipts
    BY <2>1 DEF T!Own, T!Hooks
  <2>2. CASE \E m \in ToolManagers, phase \in ToolPhases, k \in Jobs :
                m # T!Hooks(j) /\ receipts' = Append(receipts, T!Row(m, phase, k))
    <3> PICK m \in ToolManagers, phase \in ToolPhases, k \in Jobs :
                m # T!Hooks(j) /\ receipts' = Append(receipts, T!Row(m, phase, k))
      BY <2>2
    <3>1. /\ Len(receipts) \in Nat
          /\ DOMAIN receipts = 1 .. Len(receipts) /\ DOMAIN receipts' = 1 .. (Len(receipts) + 1)
          /\ \A i \in 1 .. Len(receipts) : receipts'[i] = receipts[i]
          /\ (receipts'[Len(receipts) + 1]).by = m
      BY RowIsAdded
    <3>2. T!Hooks(j)' = T!Hooks(j)
      BY DEF T!Hooks
    <3>3. T!Own(j) = {i \in 1 .. Len(receipts) : receipts[i].by = T!Hooks(j)}
      BY <3>1 DEF T!Own
    <3>4. T!Own(j)' = {i \in 1 .. (Len(receipts) + 1) : (receipts'[i]).by = T!Hooks(j)}
      BY <3>1, <3>2 DEF T!Own
    <3>5. /\ \A i \in 1 .. (Len(receipts) + 1) : i \in 1 .. Len(receipts) \/ i = Len(receipts) + 1
          /\ 1 .. Len(receipts) \subseteq 1 .. (Len(receipts) + 1)
      <4>1. PICK l \in Nat : l = Len(receipts)
        BY <3>1
      <4>2. \A i \in 1 .. (l + 1) : i \in 1 .. l \/ i = l + 1
        OBVIOUS
      <4>3. 1 .. l \subseteq 1 .. (l + 1)
        OBVIOUS
      <4> QED BY <4>1, <4>2, <4>3
    <3>6. T!Own(j)' = T!Own(j)
      BY <3>1, <3>3, <3>4, <3>5
    <3>7. T!Own(j) \subseteq DOMAIN receipts
      BY DEF T!Own
    <3> QED BY <3>1, <3>5, <3>6, <3>7
  <2> QED BY <2>1, <2>2
<1>2. /\ First(j) => First(j)'
      /\ OneReceipt(j) => OneReceipt(j)'
      /\ Denied(j)' => Denied(j)
      /\ Closed(j) => Closed(j)'
  BY <1>1 DEF First, OneReceipt, Denied, Closed
<1>3. Paired(j) => Paired(j)'
  BY <1>1 DEF Paired
<1>4. ASSUME NEW pc \in ToolPlaces, NEW ok \in BOOLEAN, RecordOf(j, pc, ok) PROVE RecordOf(j, pc, ok)'
  <2>1. throws \in Nat
    BY DEF ReceiptsTyped
  <2> QED BY <1>1, <1>2, <1>3, <1>4, <2>1 DEF RecordOf
<1> QED BY <1>1, <1>2, <1>3, <1>4

(* What a row of the job's own hooks adds.                                 *)
LEMMA OwnGrows ==
    ASSUME ReceiptsTyped, NEW j \in Jobs, T!Hooks(j) \in ToolManagers, NEW phase \in ToolPhases,
           receipts' = Append(receipts, T!Row(T!Hooks(j), phase, j))
    PROVE  /\ T!Own(j)' = T!Own(j) \cup {Len(receipts) + 1}
           /\ \A i \in T!Own(j) : i \in Nat /\ i < Len(receipts) + 1 /\ (receipts'[i]).phase = receipts[i].phase
           /\ (receipts'[Len(receipts) + 1]).phase = phase
           /\ T!Own(j) \subseteq DOMAIN receipts' /\ Len(receipts) + 1 \in DOMAIN receipts'
<1>1. /\ Len(receipts) \in Nat
      /\ DOMAIN receipts = 1 .. Len(receipts) /\ DOMAIN receipts' = 1 .. (Len(receipts) + 1)
      /\ \A i \in 1 .. Len(receipts) : receipts'[i] = receipts[i]
      /\ (receipts'[Len(receipts) + 1]).by = T!Hooks(j)
      /\ (receipts'[Len(receipts) + 1]).phase = phase
  BY RowIsAdded
<1>2. T!Hooks(j)' = T!Hooks(j)
  BY DEF T!Hooks
<1> QED BY <1>1, <1>2 DEF T!Own

(* Where a job goes, and what of its result.                               *)
LEMMA ToolTurns ==
    ASSUME RecordInv, NEW j \in Jobs
    PROVE  /\ run[j].pc \in ToolPlaces /\ run[j].ok \in BOOLEAN
           /\ \A to : T!Goes(j, to) => run'[j] = to /\ \A k \in Jobs \ {j} : run'[k] = run[k]
           /\ \A ok \in BOOLEAN : T!Answers(j, ok) => /\ run'[j].pc \in {"finish", "over"} /\ run'[j].ok = ok
                                                      /\ \A k \in Jobs \ {j} : run'[k] = run[k]
           /\ \A ok, served \in BOOLEAN : T!Over(ok, served).pc = "over" /\ T!Over(ok, served).ok = ok
           /\ \A pc : T!Ran(j, pc) => /\ run'[j].pc = pc /\ run'[j].ok = FALSE
                                      /\ \A k \in Jobs \ {j} : run'[k] = run[k]
<1>1. run \in [Jobs -> ToolFrame]
  BY DEF RecordInv, ToolsWithin
<1>2. run[j].pc \in ToolPlaces /\ run[j].ok \in BOOLEAN /\ run[j].served \in BOOLEAN
  BY <1>1 DEF ToolFrame
<1>3. \A to : T!Goes(j, to) => run'[j] = to /\ \A k \in Jobs \ {j} : run'[k] = run[k]
  BY <1>1 DEF T!Goes
<1>4. \A ok, served \in BOOLEAN : T!Over(ok, served).pc = "over" /\ T!Over(ok, served).ok = ok
  BY DEF T!Over, T!Idle
<1>5. \A ok \in BOOLEAN : T!Answers(j, ok) => /\ run'[j].pc \in {"finish", "over"} /\ run'[j].ok = ok
                                              /\ \A k \in Jobs \ {j} : run'[k] = run[k]
  <2> SUFFICES ASSUME NEW ok \in BOOLEAN, T!Answers(j, ok)
               PROVE  /\ run'[j].pc \in {"finish", "over"} /\ run'[j].ok = ok
                      /\ \A k \in Jobs \ {j} : run'[k] = run[k]
    OBVIOUS
  <2>1. CASE run[j].served
    <3>1. T!Goes(j, [T!Idle EXCEPT !.pc = "finish", !.served = TRUE, !.ok = ok])
      BY <2>1 DEF T!Answers
    <3>2. run'[j] = [T!Idle EXCEPT !.pc = "finish", !.served = TRUE, !.ok = ok]
      BY <1>3, <3>1
    <3> QED BY <1>3, <3>1, <3>2 DEF T!Idle
  <2>2. CASE ~run[j].served
    <3>1. T!Goes(j, T!Over(ok, FALSE))
      BY <2>2 DEF T!Answers
    <3> QED BY <1>3, <1>4, <3>1
  <2> QED BY <2>1, <2>2
<1>6. \A pc : T!Ran(j, pc) => /\ run'[j].pc = pc /\ run'[j].ok = FALSE
                              /\ \A k \in Jobs \ {j} : run'[k] = run[k]
  <2> SUFFICES ASSUME NEW pc, T!Ran(j, pc)
               PROVE  /\ run'[j].pc = pc /\ run'[j].ok = FALSE
                      /\ \A k \in Jobs \ {j} : run'[k] = run[k]
    OBVIOUS
  <2>1. T!Goes(j, [T!Idle EXCEPT !.pc = pc, !.served = run[j].served])
    BY DEF T!Ran
  <2>2. run'[j] = [T!Idle EXCEPT !.pc = pc, !.served = run[j].served]
    BY <1>3, <2>1
  <2> PICK served \in BOOLEAN : served = run[j].served
    BY <1>2
  <2>3. [T!Idle EXCEPT !.pc = pc, !.served = served].pc = pc
    BY DEF T!Idle
  <2>4. [T!Idle EXCEPT !.pc = pc, !.served = served].ok = FALSE
    BY DEF T!Idle
  <2> QED BY <1>3, <2>1, <2>2, <2>3, <2>4
<1> QED BY <1>2, <1>3, <1>4, <1>5, <1>6

(* Every step of another leaves a job's record as it is.                   *)
LEMMA RecordOfOthers ==
    ASSUME T!ToolAssumption, RecordInv, NEW j \in Jobs, NEW k \in Jobs \ {j},
           run'[k] = run[k],
           \/ UNCHANGED <<receipts, previous, throws>>
           \/ \E m \in {T!Gateway, T!Hooks(j)}, phase \in ToolPhases : ToolWrites(m, phase, j)
    PROVE  RecordOf(k, run[k].pc, run[k].ok)'
<1>1. ReceiptsTyped /\ run[k].pc \in ToolPlaces /\ run[k].ok \in BOOLEAN /\ RecordOf(k, run[k].pc, run[k].ok)
  BY ToolTurns DEF RecordInv
<1>2. throws' \in Nat /\ throws <= throws'
  BY <1>1 DEF ReceiptsTyped, ToolWrites, T!Emits, T!EmitThrows
<1>3. T!Gateway \in ToolManagers /\ T!Hooks(j) \in ToolManagers /\ T!Hooks(k) \notin {T!Gateway, T!Hooks(j)}
  BY <1>1, ManagersKnown
<1>4. \/ receipts' = receipts
      \/ \E m \in ToolManagers, phase \in ToolPhases, i \in Jobs :
           m # T!Hooks(k) /\ receipts' = Append(receipts, T!Row(m, phase, i))
  BY <1>3 DEF ToolWrites, T!Emits, T!EmitThrows
<1> PICK pc \in ToolPlaces, ok \in BOOLEAN : pc = run[k].pc /\ ok = run[k].ok
  BY <1>1
<1>5. RecordOf(k, pc, ok)'
  BY <1>1, <1>2, <1>4, OwnKept
<1> QED BY <1>5

(* One step's effect on its own job's record.                              *)
LEMMA RecordArrives ==
    ASSUME T!ToolAssumption, RecordInv, NEW j \in Jobs, T!Arrive(j) \/ T!Stop(j)
    PROVE  RecordOf(j, run[j].pc, run[j].ok)' /\ \A k \in Jobs \ {j} : run'[k] = run[k]
<1>1. ReceiptsTyped /\ run[j].pc \in ToolPlaces /\ run[j].ok \in BOOLEAN /\ RecordOf(j, run[j].pc, run[j].ok)
  BY ToolTurns DEF RecordInv
<1>2. T!Gateway \in ToolManagers /\ T!Hooks(j) # T!Gateway
  BY <1>1, ManagersKnown
<1>3. throws \in Nat /\ throws' \in Nat /\ throws <= throws'
  <2>1. throws \in Nat
    BY <1>1 DEF ReceiptsTyped
  <2>2. throws' = throws \/ throws' = throws + 1
    BY DEF T!Arrive, T!Stop, T!Emits, T!EmitThrows
  <2> QED BY <2>1, <2>2
<1>4. {"SESSION_START", "STOP"} \subseteq ToolPhases
  BY DEF ToolPhases
<1>5. \/ receipts' = receipts
      \/ \E phase \in {"SESSION_START", "STOP"} : receipts' = Append(receipts, T!Row(T!Gateway, phase, j))
  BY DEF T!Arrive, T!Stop, T!Emits, T!EmitThrows
<1>6. \/ receipts' = receipts
      \/ \E m \in ToolManagers, phase \in ToolPhases, k \in Jobs :
           m # T!Hooks(j) /\ receipts' = Append(receipts, T!Row(m, phase, k))
  BY <1>2, <1>4, <1>5
<1>7. /\ T!Own(j)' = T!Own(j)
      /\ Paired(j) => Paired(j)'
      /\ Closed(j) => Closed(j)'
  BY <1>1, <1>3, <1>6, OwnKept
<1>8. CASE T!Arrive(j)
  <2>1. run[j].pc = "new" /\ T!Own(j) = {}
    BY <1>1, <1>8 DEF T!Arrive, T!At, RecordOf
  <2>2. Closed(j)'
    BY <1>7, <2>1 DEF Closed
  <2>3. \A k \in Jobs \ {j} : run'[k] = run[k]
    BY <1>8, ToolTurns DEF T!Arrive
  <2>4. CASE T!Goes(j, T!Over(FALSE, TRUE))
    <3>1. run'[j].pc = "over" /\ run'[j].ok = FALSE
      BY <2>4, ToolTurns
    <3> QED BY <2>2, <2>3, <3>1 DEF RecordOf
  <2>5. CASE T!Goes(j, [T!Idle EXCEPT !.pc = "pre", !.served = TRUE]) \/ T!Goes(j, [T!Idle EXCEPT !.pc = "pre"])
    <3>1. run'[j] = [T!Idle EXCEPT !.pc = "pre", !.served = TRUE] \/ run'[j] = [T!Idle EXCEPT !.pc = "pre"]
      BY <2>5, ToolTurns
    <3>2. run'[j].pc = "pre" /\ run'[j].ok = FALSE
      BY <3>1 DEF T!Idle
    <3> QED BY <1>7, <2>1, <2>3, <3>2 DEF RecordOf
  <2> QED BY <1>8, <2>4, <2>5 DEF T!Arrive
<1>9. CASE T!Stop(j)
  <2>1. run[j].pc = "finish" /\ T!Goes(j, T!Over(run[j].ok, TRUE))
    BY <1>9 DEF T!Stop, T!At
  <2>2. run'[j].pc = "over" /\ run'[j].ok = run[j].ok /\ \A k \in Jobs \ {j} : run'[k] = run[k]
    BY <1>1, <2>1, ToolTurns
  <2> QED BY <1>1, <1>3, <1>7, <2>1, <2>2 DEF RecordOf
<1> QED BY <1>8, <1>9

LEMMA RecordRuns ==
    ASSUME T!ToolAssumption, RecordInv, NEW j \in Jobs,
           T!Guard(j) \/ T!Resolve(j) \/ T!Request(j) \/ T!ReadContract(j)
    PROVE  RecordOf(j, run[j].pc, run[j].ok)' /\ \A k \in Jobs \ {j} : run'[k] = run[k]
<1>1. ReceiptsTyped /\ run[j].pc \in ToolPlaces /\ run[j].ok \in BOOLEAN /\ RecordOf(j, run[j].pc, run[j].ok)
  BY ToolTurns DEF RecordInv
<1>2. receipts' = receipts /\ throws' = throws /\ throws \in Nat
  BY <1>1 DEF T!Guard, T!Resolve, T!Request, T!ReadContract, ReceiptsTyped
<1>3. run[j].pc \in {"guard", "resolve", "request"}
  BY DEF T!Guard, T!Resolve, T!Request, T!ReadContract, T!At
<1>4. OneReceipt(j) /\ run[j].ok = FALSE
  BY <1>1, <1>3 DEF RecordOf
<1>5. OneReceipt(j)'
  BY <1>1, <1>2, <1>4, OwnKept
<1>6. First(j)' /\ ~Denied(j)'
  <2>1. receipts' \in Seq(ToolRows)
    BY <1>1, <1>2 DEF ReceiptsTyped
  <2>2. PICK i \in T!Own(j)' : (receipts'[i]).phase = "PRE_ALLOWED" /\ T!Own(j)' = {i}
    BY <1>5 DEF OneReceipt
  <2>3. i \in Nat
    BY <2>1, <2>2 DEF T!Own
  <2> QED BY <2>2, <2>3 DEF First, Denied
<1>7. ASSUME run'[j].ok = FALSE, run'[j].pc \in {"resolve", "request", "failed", "succeeded"},
             \A k \in Jobs \ {j} : run'[k] = run[k]
      PROVE  RecordOf(j, run[j].pc, run[j].ok)' /\ \A k \in Jobs \ {j} : run'[k] = run[k]
  BY <1>5, <1>6, <1>7 DEF RecordOf
<1>8. CASE T!Fails(j) \/ T!Succeeds(j)
  <2>1. run'[j].pc \in {"failed", "succeeded"} /\ run'[j].ok = FALSE /\ \A k \in Jobs \ {j} : run'[k] = run[k]
    BY <1>8, ToolTurns DEF T!Fails, T!Succeeds
  <2> QED BY <1>7, <2>1
<1>9. run[j] \in ToolFrame
  BY DEF RecordInv, ToolsWithin
<1> PICK f \in ToolFrame : f = run[j]
  BY <1>9
<1>10. f.ok = FALSE
  BY <1>4
<1>11. \A t : T!Spends(j, t).ok = FALSE /\ T!Spends(j, t).pc = f.pc
  <2> SUFFICES ASSUME NEW t PROVE T!Spends(j, t).ok = FALSE /\ T!Spends(j, t).pc = f.pc
    OBVIOUS
  <2>1. T!Spends(j, t) = [f EXCEPT !.left = @ - t, !.took = @ + t] \/ T!Spends(j, t) = f
    BY DEF T!Spends
  <2>2. [f EXCEPT !.left = @ - t, !.took = @ + t].ok = f.ok /\ [f EXCEPT !.left = @ - t, !.took = @ + t].pc = f.pc
    BY DEF ToolFrame
  <2> QED BY <1>10, <2>1, <2>2
<1>12. \A t : "ok" \in DOMAIN T!Spends(j, t) /\ "pc" \in DOMAIN T!Spends(j, t)
  BY DEF T!Spends, ToolFrame
<1>13. CASE \E to : T!Goes(j, to) /\ to.ok = FALSE /\ to.pc \in {"resolve", "request"}
  <2>1. run'[j].pc \in {"resolve", "request"} /\ run'[j].ok = FALSE /\ \A k \in Jobs \ {j} : run'[k] = run[k]
    BY <1>13, ToolTurns
  <2> QED BY <1>7, <2>1
<1>14. CASE T!Guard(j) /\ ~(T!Fails(j) \/ T!Succeeds(j))
  <2>1. PICK zone \in ToolZones, tool \in T!Tools, wanted \in 1..MaxAsked :
           T!Goes(j, [f EXCEPT !.pc = "resolve", !.zone = zone, !.tool = tool, !.left = T!Timeout(wanted, zone)])
    BY <1>14 DEF T!Guard
  <2> DEFINE to == [f EXCEPT !.pc = "resolve", !.zone = zone, !.tool = tool, !.left = T!Timeout(wanted, zone)]
  <2>2. to.pc = "resolve" /\ to.ok = f.ok
    BY DEF ToolFrame
  <2>3. T!Goes(j, to)
    BY <2>1
  <2> HIDE DEF to
  <2> QED BY <1>10, <1>13, <2>2, <2>3
<1>15. CASE T!Resolve(j) /\ ~(T!Fails(j) \/ T!Succeeds(j))
  <2>1. PICK t \in 0..run[j].left, answer \in (SUBSET T!Kinds) \ {{}} :
           T!Goes(j, [T!Spends(j, t) EXCEPT !.pc = "request", !.target = T!Pinned(answer)])
    BY <1>15 DEF T!Resolve
  <2> DEFINE to == [T!Spends(j, t) EXCEPT !.pc = "request", !.target = T!Pinned(answer)]
  <2>2. to.pc = "request" /\ to.ok = FALSE
    BY <1>11, <1>12
  <2>3. T!Goes(j, to)
    BY <2>1
  <2> HIDE DEF to
  <2> QED BY <1>13, <2>2, <2>3
<1>16. CASE T!Request(j) /\ ~(T!Fails(j) \/ T!Succeeds(j))
  <2>1. PICK t \in 0..(run[j].left - 1) :
           T!Goes(j, [T!Spends(j, t) EXCEPT !.pc = "resolve", !.hop = @ + 1, !.target = {}])
    BY <1>16 DEF T!Request
  <2> DEFINE to == [T!Spends(j, t) EXCEPT !.pc = "resolve", !.hop = @ + 1, !.target = {}]
  <2>2. to.pc = "resolve" /\ to.ok = FALSE
    BY <1>11, <1>12
  <2>3. T!Goes(j, to)
    BY <2>1
  <2> HIDE DEF to
  <2> QED BY <1>13, <2>2, <2>3
<1>17. CASE T!ReadContract(j)
  BY <1>8, <1>17 DEF T!ReadContract
<1> QED BY <1>8, <1>14, <1>15, <1>16, <1>17

LEMMA RecordHooks ==
    ASSUME T!ToolAssumption, RecordInv, NEW j \in Jobs, T!PreToolUse(j) \/ T!PostToolUse(j)
    PROVE  RecordOf(j, run[j].pc, run[j].ok)' /\ \A k \in Jobs \ {j} : run'[k] = run[k]
<1>1. ReceiptsTyped /\ run[j].pc \in ToolPlaces /\ run[j].ok \in BOOLEAN /\ RecordOf(j, run[j].pc, run[j].ok)
  BY ToolTurns DEF RecordInv
<1>2. T!Hooks(j) \in ToolManagers
  BY <1>1, ManagersKnown
<1> PICK n \in Nat : n = Len(receipts) + 1
  BY <1>1 DEF ReceiptsTyped
<1>3. {"PRE_REJECTED", "PRE_ALLOWED", "POST_SUCCEEDED", "POST_FAILED"} \subseteq ToolPhases
  BY DEF ToolPhases
<1>4. ASSUME NEW phase \in {"PRE_REJECTED", "PRE_ALLOWED", "POST_SUCCEEDED", "POST_FAILED"},
             receipts' = Append(receipts, T!Row(T!Hooks(j), phase, j))
      PROVE  /\ T!Own(j)' = T!Own(j) \cup {n}
             /\ \A i \in T!Own(j) : i \in Nat /\ i < n /\ (receipts'[i]).phase = receipts[i].phase
             /\ (receipts'[n]).phase = phase
             /\ T!Own(j)' \subseteq DOMAIN receipts'
  BY <1>1, <1>2, <1>3, <1>4, OwnGrows
<1>5. ASSUME receipts' = receipts
      PROVE  T!Own(j)' = T!Own(j)
  BY <1>5 DEF T!Own, T!Hooks
<1>6. ASSUME NEW phase, ToolWrites(T!Hooks(j), phase, j)
      PROVE  \/ receipts' = Append(receipts, T!Row(T!Hooks(j), phase, j)) /\ throws' = throws
             \/ receipts' = Append(receipts, T!Row(T!Hooks(j), phase, j)) /\ throws' = throws + 1
             \/ receipts' = receipts /\ throws' = throws + 1
  BY <1>6 DEF ToolWrites, T!Emits, T!EmitThrows
<1>7. throws \in Nat
  BY <1>1 DEF ReceiptsTyped
<1>8. CASE T!PreToolUse(j)
  <2>1. run[j].pc = "pre" /\ T!Own(j) = {} /\ run[j].ok = FALSE
    BY <1>1, <1>8 DEF T!PreToolUse, T!At, RecordOf
  <2>2. PICK phase \in {"PRE_REJECTED", "PRE_ALLOWED"} :
          /\ ToolWrites(T!Hooks(j), phase, j)
          /\ \/ T!Answers(j, FALSE)
             \/ /\ T!Emits(T!Hooks(j), phase, j) /\ phase = "PRE_ALLOWED"
                /\ T!Goes(j, [run[j] EXCEPT !.pc = "guard"])
    BY <1>8 DEF T!PreToolUse, ToolWrites
  <2>3. CASE T!Answers(j, FALSE)
    <3>1. run'[j].pc \in {"finish", "over"} /\ run'[j].ok = FALSE /\ \A k \in Jobs \ {j} : run'[k] = run[k]
      BY <2>3, ToolTurns
    <3>2. \A i \in T!Own(j)' : (receipts'[i]).phase # "POST_SUCCEEDED"
      BY <1>4, <1>5, <1>6, <2>1, <2>2
    <3>3. Closed(j)'
      BY <3>2 DEF Closed
    <3> QED BY <3>1, <3>3 DEF RecordOf
  <2>4. CASE T!Emits(T!Hooks(j), phase, j) /\ phase = "PRE_ALLOWED" /\ T!Goes(j, [run[j] EXCEPT !.pc = "guard"])
    <3>1. run'[j] = [run[j] EXCEPT !.pc = "guard"] /\ \A k \in Jobs \ {j} : run'[k] = run[k]
      BY <2>4, ToolTurns
    <3>2. run'[j].pc = "guard" /\ run'[j].ok = FALSE
      BY <2>1, <3>1 DEF RecordInv, ToolsWithin, ToolFrame
    <3>3. receipts' = Append(receipts, T!Row(T!Hooks(j), "PRE_ALLOWED", j))
      BY <2>4 DEF T!Emits
    <3>4. T!Own(j)' = {n} /\ (receipts'[n]).phase = "PRE_ALLOWED"
      BY <1>4, <2>1, <3>3
    <3>5. OneReceipt(j)'
      BY <3>4 DEF OneReceipt
    <3> QED BY <3>1, <3>2, <3>5 DEF RecordOf
  <2> QED BY <2>2, <2>3, <2>4
<1>9. CASE T!PostToolUse(j) /\ run[j].pc = "succeeded"
  <2>1. OneReceipt(j)
    BY <1>1, <1>9 DEF RecordOf
  <2>2. PICK i \in T!Own(j) : receipts[i].phase = "PRE_ALLOWED" /\ T!Own(j) = {i}
    BY <2>1 DEF OneReceipt
  <2>3. CASE T!Emits(T!Hooks(j), "POST_SUCCEEDED", j) /\ T!Answers(j, TRUE)
    <3>1. run'[j].pc \in {"finish", "over"} /\ run'[j].ok = TRUE /\ \A k \in Jobs \ {j} : run'[k] = run[k]
      BY <2>3, ToolTurns
    <3>2. receipts' = Append(receipts, T!Row(T!Hooks(j), "POST_SUCCEEDED", j))
      BY <2>3 DEF T!Emits
    <3>3. /\ T!Own(j)' = {i, n} /\ i < n /\ T!Own(j)' \subseteq DOMAIN receipts'
          /\ (receipts'[i]).phase = "PRE_ALLOWED" /\ (receipts'[n]).phase = "POST_SUCCEEDED"
      BY <1>4, <2>2, <3>2
    <3>4. Paired(j)'
      BY <3>3 DEF Paired
    <3> QED BY <3>1, <3>4 DEF RecordOf
  <2>4. CASE T!EmitThrows(T!Hooks(j), "POST_SUCCEEDED", j) /\ T!Fails(j)
    <3>1. run'[j].pc = "failed" /\ run'[j].ok = FALSE /\ \A k \in Jobs \ {j} : run'[k] = run[k]
      BY <2>4, ToolTurns DEF T!Fails
    <3>2. throws' = throws + 1
      BY <2>4 DEF T!EmitThrows
    <3>3. First(j)'
      <4>1. CASE receipts' = receipts
        <5>1. T!Own(j)' = {i} /\ (receipts'[i]).phase = "PRE_ALLOWED" /\ i \in Nat
          BY <1>1, <1>5, <2>2, <4>1 DEF T!Own, ReceiptsTyped
        <5> QED BY <5>1 DEF First
      <4>2. CASE receipts' = Append(receipts, T!Row(T!Hooks(j), "POST_SUCCEEDED", j))
        <5>1. T!Own(j)' = {i, n} /\ i \in Nat /\ i < n /\ (receipts'[i]).phase = "PRE_ALLOWED"
          BY <1>4, <2>2, <4>2
        <5> QED BY <5>1 DEF First
      <4> QED BY <2>4, <4>1, <4>2 DEF T!EmitThrows
    <3> QED BY <1>7, <3>1, <3>2, <3>3 DEF RecordOf
  <2> QED BY <1>9, <2>3, <2>4 DEF T!PostToolUse, T!At
<1>10. CASE T!PostToolUse(j) /\ run[j].pc = "failed"
  <2>1. First(j) /\ (Denied(j) => throws >= 1)
    BY <1>1, <1>10 DEF RecordOf
  <2>2. ToolWrites(T!Hooks(j), "POST_FAILED", j) /\ T!Answers(j, FALSE)
    BY <1>10 DEF T!PostToolUse, T!At, ToolWrites
  <2>3. run'[j].pc \in {"finish", "over"} /\ run'[j].ok = FALSE /\ \A k \in Jobs \ {j} : run'[k] = run[k]
    BY <2>2, ToolTurns
  <2>4. throws' < 2 => Closed(j)'
    <3>1. CASE receipts' = Append(receipts, T!Row(T!Hooks(j), "POST_FAILED", j))
      <4>1. /\ T!Own(j)' = T!Own(j) \cup {n} /\ (receipts'[n]).phase = "POST_FAILED"
            /\ \A i \in T!Own(j) : i \in Nat /\ i < n
        BY <1>4, <3>1
      <4> QED BY <4>1 DEF Closed
    <3>2. CASE receipts' = receipts /\ throws' = throws + 1
      <4>1. T!Own(j)' = T!Own(j)
        BY <1>5, <3>2
      <4>2. throws' < 2 => ~Denied(j)
        BY <1>7, <2>1, <3>2
      <4> QED BY <3>2, <4>1, <4>2 DEF Closed, Denied
    <3> QED BY <1>6, <2>2, <3>1, <3>2
  <2> QED BY <2>3, <2>4 DEF RecordOf
<1> QED BY <1>8, <1>9, <1>10 DEF T!PostToolUse, T!At

LEMMA RecordStopThrows ==
    ASSUME T!ToolAssumption, RecordInv, NEW j \in Jobs, T!StopThrows(j), NEW k \in Jobs
    PROVE  RecordOf(k, run[k].pc, run[k].ok)'
<1>1. ReceiptsTyped /\ run[k].pc \in ToolPlaces /\ run[k].ok \in BOOLEAN /\ RecordOf(k, run[k].pc, run[k].ok)
  BY ToolTurns DEF RecordInv
<1>2. T!Gateway \in ToolManagers /\ T!Hooks(k) # T!Gateway
  BY <1>1, ManagersKnown
<1>3. throws \in Nat /\ throws' = throws + 1
  BY <1>1 DEF ReceiptsTyped, T!StopThrows, T!EmitThrows
<1>4. "STOP" \in ToolPhases
  BY DEF ToolPhases
<1>5. \/ receipts' = receipts
      \/ \E m \in ToolManagers, phase \in ToolPhases, i \in Jobs :
           m # T!Hooks(k) /\ receipts' = Append(receipts, T!Row(m, phase, i))
  BY <1>2, <1>4 DEF T!StopThrows, T!EmitThrows
<1>6. /\ T!Own(k)' = T!Own(k) /\ (Denied(k)' => Denied(k))
      /\ (First(k) => First(k)') /\ (Paired(k) => Paired(k)') /\ (Closed(k) => Closed(k)') /\ (OneReceipt(k) => OneReceipt(k)')
      /\ \A pc \in ToolPlaces, ok \in BOOLEAN : RecordOf(k, pc, ok) => RecordOf(k, pc, ok)'
  BY <1>1, <1>3, <1>5, OwnKept
<1>7. run'[k] = run[k] \/ run'[k] = T!Over(run[k].ok, TRUE)
  BY DEF T!StopThrows
<1>8. CASE run'[k] = run[k]
  BY <1>1, <1>6, <1>8
<1>9. CASE run'[k] = T!Over(run[k].ok, TRUE)
  <2>1. run'[k].pc = "over" /\ run'[k].ok = run[k].ok
    <3>1. T!Over(run[k].ok, TRUE).pc = "over" /\ T!Over(run[k].ok, TRUE).ok = run[k].ok
      BY <1>1, ToolTurns
    <3> QED BY <1>9, <3>1
  <2>2. CASE run[k].ok
    <3>1. Paired(k)'
      BY <1>1, <1>6, <2>2 DEF RecordOf
    <3> QED BY <2>1, <2>2, <3>1 DEF RecordOf
  <2>3. CASE ~run[k].ok
    <3>1. throws' < 2 => Closed(k)'
      <4> SUFFICES ASSUME throws' < 2 PROVE Closed(k)'
        OBVIOUS
      <4>1. throws = 0
        BY <1>3
      <4>2. CASE run[k].pc \in {"new", "pre"}
        BY <1>1, <1>6, <4>2 DEF RecordOf, Closed
      <4>3. CASE run[k].pc \in {"guard", "resolve", "request", "succeeded"}
        <5>1. OneReceipt(k)'
          BY <1>1, <1>6, <4>3 DEF RecordOf
        <5> QED BY <5>1 DEF OneReceipt, Closed
      <4>4. CASE run[k].pc = "failed"
        <5>1. ~Denied(k)'
          BY <1>1, <1>6, <4>1, <4>4 DEF RecordOf
        <5> QED BY <5>1 DEF Denied, Closed
      <4>5. CASE run[k].pc \in {"finish", "over"}
        BY <1>1, <1>6, <2>3, <4>1, <4>5 DEF RecordOf
      <4> QED BY <1>1, <4>2, <4>3, <4>4, <4>5 DEF ToolPlaces
    <3> QED BY <2>1, <2>3, <3>1 DEF RecordOf
  <2> QED BY <1>1, <2>2, <2>3
<1> QED BY <1>7, <1>8, <1>9

LEMMA RecordStep ==
    ASSUME T!ToolAssumption, ToolZones # {}, RecordInv, [T!Next]_T!tooling
    PROVE  RecordInv'
<1>1. ToolsWithin' /\ ReceiptsTyped /\ MaxFaults \in Nat
  BY ToolsWithinStep DEF RecordInv, T!ToolAssumption
<1>2. CASE UNCHANGED T!tooling
  <2>1. \A k \in Jobs : T!Own(k)' = T!Own(k)
    BY <1>2 DEF T!tooling, T!Own, T!Hooks
  <2>2. ReceiptsTyped'
    BY <1>1, <1>2 DEF T!tooling, ReceiptsTyped
  <2>3. throws' = throws /\ receipts' = receipts /\ run' = run
    BY <1>2 DEF T!tooling
  <2>4. ASSUME NEW k \in Jobs PROVE RecordOf(k, run[k].pc, run[k].ok)'
    BY <2>1, <2>3 DEF RecordInv, RecordOf, First, OneReceipt, Denied, Paired, Closed
  <2> QED BY <1>1, <2>2, <2>4 DEF RecordInv
<1>3. CASE T!Next
  <2>1. ReceiptsTyped'
    <3>1. CASE UNCHANGED <<receipts, previous, throws, life>>
      BY <1>1, <3>1 DEF ReceiptsTyped
    <3>2. CASE ~UNCHANGED <<receipts, previous, throws, life>>
      BY <1>1, <1>3, <3>2, StepsWriteOnce, WritesKeepTypes
    <3> QED BY <3>1, <3>2
  <2>2. ASSUME NEW k \in Jobs PROVE RecordOf(k, run[k].pc, run[k].ok)'
    <3> PICK j \in Jobs : \/ T!Arrive(j) \/ T!PreToolUse(j) \/ T!Guard(j) \/ T!Resolve(j) \/ T!Request(j)
                          \/ T!ReadContract(j) \/ T!PostToolUse(j) \/ T!Stop(j) \/ T!StopThrows(j)
      BY <1>3 DEF T!Next
    <3>1. CASE T!StopThrows(j)
      BY <3>1, RecordStopThrows
    <3>2. CASE ~T!StopThrows(j)
      <4>1. RecordOf(j, run[j].pc, run[j].ok)' /\ \A i \in Jobs \ {j} : run'[i] = run[i]
        BY <3>2, RecordArrives, RecordRuns, RecordHooks
      <4>2. CASE k # j
        <5>1. \/ UNCHANGED <<receipts, previous, throws>>
              \/ \E m \in {T!Gateway, T!Hooks(j)}, phase \in ToolPhases : ToolWrites(m, phase, j)
          <6>1. {"SESSION_START", "STOP", "PRE_REJECTED", "PRE_ALLOWED", "POST_SUCCEEDED", "POST_FAILED"} \subseteq ToolPhases
            BY DEF ToolPhases
          <6>2. CASE T!Arrive(j)
            BY <6>1, <6>2 DEF T!Arrive, ToolWrites
          <6>3. CASE T!PreToolUse(j)
            BY <6>1, <6>3 DEF T!PreToolUse, ToolWrites
          <6>4. CASE T!PostToolUse(j)
            BY <6>1, <6>4 DEF T!PostToolUse, ToolWrites
          <6>5. CASE T!Stop(j)
            BY <6>1, <6>5 DEF T!Stop, ToolWrites
          <6>6. CASE T!Guard(j) \/ T!Resolve(j) \/ T!Request(j) \/ T!ReadContract(j)
            BY <6>6 DEF T!Guard, T!Resolve, T!Request, T!ReadContract
          <6> QED BY <3>2, <6>2, <6>3, <6>4, <6>5, <6>6
        <5> QED BY <4>1, <4>2, <5>1, RecordOfOthers
      <4> QED BY <4>1, <4>2
    <3> QED BY <3>1, <3>2
  <2> QED BY <1>1, <2>1, <2>2 DEF RecordInv
<1> QED BY <1>2, <1>3

(* Whatever writes throw and whenever the server dies: no tool runs        *)
(* without a receipt that allowed it, an answer with a result has the      *)
(* receipt of its success and no other, and a job that failed ends on      *)
(* record as a success only if two writes threw (runWithToolLifecycle).    *)
THEOREM RunsAreOnRecordAlways ==
    ASSUME T!ToolAssumption, ToolZones # {} PROVE T!Spec => []T!RunsAreOnRecord
<1>1. T!Init => RecordInv
  <2> SUFFICES ASSUME T!Init PROVE RecordInv
    OBVIOUS
  <2>1. ReceiptsTyped /\ \A k \in Jobs : T!Own(k) = {}
    BY ChainStart DEF ChainInv, T!Init, T!Own
  <2>2. T!Idle.pc = "new" /\ T!Idle.ok = FALSE
    BY DEF T!Idle
  <2>3. ASSUME NEW k \in Jobs PROVE RecordOf(k, run[k].pc, run[k].ok)
    BY <2>1, <2>2 DEF T!Init, RecordOf
  <2>4. ToolsWithin
    BY ToolsStart
  <2> QED BY <2>1, <2>3, <2>4 DEF RecordInv
<1>2. RecordInv /\ [T!Next]_T!tooling => RecordInv'
  BY RecordStep
<1>3. RecordInv => T!RunsAreOnRecord
  <2> SUFFICES ASSUME RecordInv, NEW j \in Jobs
               PROVE  /\ ~T!Answered(j) /\ run[j].pc \notin {"new", "pre"} => First(j)
                      /\ T!Answered(j) /\ run[j].ok => Paired(j)
                      /\ T!Answered(j) /\ ~run[j].ok /\ throws < 2 => Closed(j)
    BY DEF T!RunsAreOnRecord, First, Paired, Closed
  <2>1. run[j].pc \in ToolPlaces /\ run[j].ok \in BOOLEAN /\ RecordOf(j, run[j].pc, run[j].ok)
    BY ToolTurns DEF RecordInv
  <2>2. OneReceipt(j) => First(j)
    <3>1. T!Own(j) \subseteq Nat
      BY DEF T!Own, RecordInv, ReceiptsTyped
    <3> QED BY <3>1 DEF OneReceipt, First
  <2> QED BY <2>1, <2>2 DEF RecordOf, T!Answered, ToolPlaces
<1> QED BY <1>1, <1>2, <1>3, PTL DEF T!Spec

-----------------------------------------------------------------------------
(* CoreSpec: what the core and its ports are asked                         *)

AskedOK ==
    \/ asked = C!Nothing
    \/ \E c \in C!Contexts : asked = [about |-> "zone", context |-> c]
    \/ \E m \in C!Memories, now \in Days : asked = [about |-> "memory", memory |-> m, now |-> now]
    \/ \E p \in Subjects : asked = [about |-> "proposal", proposal |-> p]

LEMMA AskedStays == ASSUME AskedOK, [C!Next]_C!core PROVE AskedOK'
<1>1. CASE C!Ask
  BY <1>1 DEF C!Ask, AskedOK
<1>2. CASE asked' = asked
  BY <1>2 DEF AskedOK
<1> QED BY <1>1, <1>2 DEF C!Next, C!Evaluate, C!Ends, C!Settles, C!core

LEMMA Capable ==
    ASSUME NEW zone \in C!Zones, NEW mode \in C!Modes
    PROVE  C!Capabilities(zone, mode) =
             CASE zone \in {"private_self", "trusted_collaborator"} ->
                    [repo |-> TRUE, durable |-> TRUE, ephemeral |-> FALSE, retention |-> "local_conversation", expiry |-> "none"]
               [] zone = "outside_contact" ->
                    [repo |-> FALSE, durable |-> FALSE, ephemeral |-> FALSE, retention |-> "local_conversation", expiry |-> "none"]
               [] zone = "paid_public" /\ mode # "client" ->
                    [repo |-> FALSE, durable |-> FALSE, ephemeral |-> TRUE, retention |-> "ephemeral", expiry |-> "none"]
               [] zone = "paid_public" /\ mode = "client" ->
                    [repo |-> FALSE, durable |-> FALSE, ephemeral |-> FALSE, retention |-> "conversation_only", expiry |-> "7_days_inactivity"]
<1> DEFINE Able(public, ephemeral, insider) ==
        [repo |-> insider, durable |-> insider, ephemeral |-> ephemeral,
         retention |-> IF ~public THEN "local_conversation" ELSE IF ephemeral THEN "ephemeral" ELSE "conversation_only",
         expiry |-> IF public /\ ~ephemeral THEN "7_days_inactivity" ELSE "none"]
<1>1. C!Capabilities(zone, mode) =
        Able(zone = "paid_public", zone = "paid_public" /\ mode # "client",
             zone \in {"private_self", "trusted_collaborator"})
  BY Zenon DEF C!Capabilities
<1>2. \/ zone \in {"private_self", "trusted_collaborator"} \/ zone = "outside_contact"
      \/ zone = "paid_public" /\ mode # "client"
      \/ zone = "paid_public" /\ mode = "client"
  <2>1. zone \in {"private_self", "trusted_collaborator"} \/ zone = "outside_contact" \/ zone = "paid_public"
    BY DEF C!Zones
  <2> QED BY <2>1
<1>3. CASE zone \in {"private_self", "trusted_collaborator"}
  <2>1. C!Capabilities(zone, mode) = Able(FALSE, FALSE, TRUE)
    <3>1. (zone = "paid_public") = FALSE /\ (zone = "paid_public" /\ mode # "client") = FALSE
          /\ (zone \in {"private_self", "trusted_collaborator"}) = TRUE
      BY <1>3
    <3> HIDE DEF Able
    <3> QED BY <1>1, <3>1
  <2> QED BY <1>3, <2>1
<1>4. CASE zone = "outside_contact"
  <2>1. C!Capabilities(zone, mode) = Able(FALSE, FALSE, FALSE)
    <3>1. (zone = "paid_public") = FALSE /\ (zone = "paid_public" /\ mode # "client") = FALSE
          /\ (zone \in {"private_self", "trusted_collaborator"}) = FALSE
      BY <1>4
    <3> HIDE DEF Able
    <3> QED BY <1>1, <3>1
  <2> QED BY <1>4, <2>1
<1>5. CASE zone = "paid_public" /\ mode # "client"
  <2>1. C!Capabilities(zone, mode) = Able(TRUE, TRUE, FALSE)
    <3>1. (zone = "paid_public") = TRUE /\ (zone = "paid_public" /\ mode # "client") = TRUE
          /\ (zone \in {"private_self", "trusted_collaborator"}) = FALSE
      BY <1>5
    <3> HIDE DEF Able
    <3> QED BY <1>1, <3>1
  <2> QED BY <1>5, <2>1
<1>6. CASE zone = "paid_public" /\ mode = "client"
  <2>1. C!Capabilities(zone, mode) = Able(TRUE, FALSE, FALSE)
    <3>1. (zone = "paid_public") = TRUE /\ (zone = "paid_public" /\ mode # "client") = FALSE
          /\ (zone \in {"private_self", "trusted_collaborator"}) = FALSE
      BY <1>6
    <3> HIDE DEF Able
    <3> QED BY <1>1, <3>1
  <2> QED BY <1>6, <2>1
<1> HIDE DEF Able
<1> QED BY <1>2, <1>3, <1>4, <1>5, <1>6

(* For every context: what the server grants is what the core grants, as   *)
(* code and by its ruleset, and none that is not trusted gets the private  *)
(* zone (getTrustZone and get_trust_zone_capabilities).                    *)
THEOREM GrantsAgreeAlways == C!Spec => []C!GrantsAgree
<1>1. C!Init => AskedOK
  BY DEF C!Init, AskedOK
<1>2. AskedOK /\ [C!Next]_C!core => AskedOK'
  BY AskedStays
<1>3. AskedOK => C!GrantsAgree
  <2> SUFFICES ASSUME NEW c \in C!Contexts, asked = [about |-> "zone", context |-> c] PROVE C!GrantsAgree
    BY DEF AskedOK, C!Nothing, C!GrantsAgree
  <2> PICK zone : zone = C!ServerZone(c)
    OBVIOUS
  <2>1. c.explicit \in C!Zones \cup {"other"} /\ c.trusted \in BOOLEAN /\ c.mode \in C!Modes
    BY DEF C!Contexts
  <2>2. /\ zone \in C!Zones
        /\ zone = "private_self" => c.trusted
        /\ zone \in {"private_self", "trusted_collaborator"} => c.trusted \/ c.explicit = zone
    BY <2>1 DEF C!ServerZone, C!Zones
  <2>3. ASSUME NEW z \in C!Zones, NEW mode \in C!Modes
        PROVE  C!RulesetCapabilities(z, mode) = C!Capabilities(z, mode)
    <3>1. \A rule : C!Matches(rule, z, mode) <=> rule.zone = z /\ rule.modeNot # mode
      BY DEF C!Matches
    <3> DEFINE only == [zone |-> "paid_public", modeNot |-> "client", retention |-> "ephemeral", ephemeral |-> TRUE, expiry |-> "none"]
    <3>2. CASE z = "paid_public" /\ mode # "client"
      <4>1. C!Matches(only, z, mode) /\ C!Overrides = {only}
        BY <3>2 DEF C!Matches, C!Overrides
      <4>2. C!RulesetCapabilities(z, mode) =
              [C!Baseline[z] EXCEPT !.retention = only.retention, !.ephemeral = only.ephemeral, !.expiry = only.expiry]
        <5> HIDE DEF only
        <5>1. (CHOOSE r \in {only} : C!Matches(r, z, mode)) = only
          BY <4>1
        <5> QED BY <4>1, <5>1 DEF C!RulesetCapabilities
      <4>3. C!Baseline[z] = [repo |-> FALSE, durable |-> FALSE, ephemeral |-> FALSE,
                             retention |-> "conversation_only", expiry |-> "7_days_inactivity"]
        BY <3>2 DEF C!Baseline, C!Granted, C!Zones
      <4>4. C!Capabilities(z, mode) = [repo |-> FALSE, durable |-> FALSE, ephemeral |-> TRUE,
                                       retention |-> "ephemeral", expiry |-> "none"]
        <5>1. z \notin {"private_self", "trusted_collaborator"} /\ z # "outside_contact"
          BY <3>2
        <5> QED BY <3>2, <5>1, Capable
      <4>5. only.retention = "ephemeral" /\ only.ephemeral = TRUE /\ only.expiry = "none"
        OBVIOUS
      <4> HIDE DEF only
      <4>6. C!RulesetCapabilities(z, mode) =
              [C!Baseline[z] EXCEPT !.retention = "ephemeral", !.ephemeral = TRUE, !.expiry = "none"]
        BY <4>2, <4>5
      <4> DEFINE row == [repo |-> FALSE, durable |-> FALSE, ephemeral |-> FALSE,
                         retention |-> "conversation_only", expiry |-> "7_days_inactivity"]
                 old == [row EXCEPT !.retention = "ephemeral", !.ephemeral = TRUE, !.expiry = "none"]
                 new == [repo |-> FALSE, durable |-> FALSE, ephemeral |-> TRUE, retention |-> "ephemeral", expiry |-> "none"]
      <4>7. DOMAIN new = {"repo", "durable", "ephemeral", "retention", "expiry"} /\ new = [x \in DOMAIN new |-> new[x]]
        OBVIOUS
      <4>8. DOMAIN old = {"repo", "durable", "ephemeral", "retention", "expiry"} /\ old = [x \in DOMAIN old |-> old[x]]
        OBVIOUS
      <4>9. old.repo = new.repo /\ old.durable = new.durable /\ old.ephemeral = new.ephemeral
            /\ old.retention = new.retention /\ old.expiry = new.expiry
        OBVIOUS
      <4>10. C!Baseline[z] = row /\ C!Capabilities(z, mode) = new
        BY <4>3, <4>4
      <4>11. C!RulesetCapabilities(z, mode) = old
        BY <4>6, <4>10
      <4> HIDE DEF old, new
      <4>12. \A x \in DOMAIN new : old[x] = new[x]
        BY <4>7, <4>9
      <4>13. old = new
        BY <4>7, <4>8, <4>12
      <4> QED BY <4>10, <4>11, <4>13
    <3>3. CASE ~(z = "paid_public" /\ mode # "client")
      <4>1. \A rule \in C!Overrides : ~C!Matches(rule, z, mode)
        BY <3>3 DEF C!Matches, C!Overrides
      <4>2. C!RulesetCapabilities(z, mode) = C!Baseline[z]
        BY <4>1 DEF C!RulesetCapabilities
      <4>3. CASE z \in {"private_self", "trusted_collaborator"}
        BY <4>2, <4>3, Capable DEF C!Baseline, C!Granted, C!Zones
      <4>4. CASE z = "outside_contact"
        BY <4>2, <4>4, Capable DEF C!Baseline, C!Granted, C!Zones
      <4>5. CASE z = "paid_public"
        BY <3>3, <4>2, <4>5, Capable DEF C!Baseline, C!Granted, C!Zones
      <4> QED BY <4>3, <4>4, <4>5 DEF C!Zones
    <3> QED BY <3>2, <3>3
  <2>4. C!Capabilities(zone, c.mode).durable => zone \in {"private_self", "trusted_collaborator"}
    BY DEF C!Capabilities
  <2>5. C!RulesetCapabilities(zone, c.mode) = C!Capabilities(zone, c.mode)
    BY <2>1, <2>2, <2>3
  <2>6. asked.context = c
    OBVIOUS
  <2> QED BY <2>2, <2>4, <2>5, <2>6 DEF C!GrantsAgree
<1> QED BY <1>1, <1>2, <1>3, PTL DEF C!Spec

LEMMA NoLessThanZero == ASSUME NEW x \in Int PROVE C!Max({0, x}) \in Nat
<1>1. \E m \in {0, x} : \A y \in {0, x} : m >= y
  <2>1. CASE x >= 0
    BY <2>1
  <2>2. CASE x < 0
    BY <2>2
  <2> QED BY <2>1, <2>2
<1>2. C!Max({0, x}) \in {0, x} /\ \A y \in {0, x} : C!Max({0, x}) >= y
  BY <1>1 DEF C!Max
<1> QED BY <1>2

(* For every memory and any clock: Rust and Python agree on its age unless *)
(* it was reviewed at the epoch, and no clock, also one that ran           *)
(* backwards, makes a memory younger than new (calculate_decay).           *)
THEOREM DecaysAgreeAlways == ASSUME C!CoreAssumption PROVE C!Spec => []C!DecaysAgree
<1>1. C!Init => AskedOK
  BY DEF C!Init, AskedOK
<1>2. AskedOK /\ [C!Next]_C!core => AskedOK'
  BY AskedStays
<1>3. AskedOK => C!DecaysAgree
  <2> SUFFICES ASSUME NEW m \in C!Memories, NEW now \in Days,
                      asked = [about |-> "memory", memory |-> m, now |-> now]
               PROVE  C!DecaysAgree
    BY DEF AskedOK, C!Nothing, C!DecaysAgree
  <2>1. /\ now \in Nat /\ m.reviewed \in {C!Never} \cup Nat /\ m.captured \in {C!Never} \cup Nat
    BY DEF C!CoreAssumption, C!Memories
  <2>2. m.reviewed # 0 => C!DateOf(m) = C!PythonDateOf(m)
    BY DEF C!DateOf, C!PythonDateOf
  <2>3. C!DateOf(m) \in {C!Never} \cup Nat
    BY <2>1 DEF C!DateOf
  <2>4. C!Age(C!DateOf(m), now) \in {C!Never} \cup Nat
    <3>1. CASE C!DateOf(m) = C!Never
      BY <3>1 DEF C!Age
    <3>2. CASE C!DateOf(m) # C!Never
      <4>1. now - C!DateOf(m) \in Int
        BY <2>1, <2>3, <3>2
      <4> QED BY <3>2, <4>1, NoLessThanZero DEF C!Age
    <3> QED BY <3>1, <3>2
  <2> PICK rust : rust = C!RustDecay(m, now)
    OBVIOUS
  <2>5. m.reviewed # 0 => rust = C!PythonDecay(m, now)
    BY <2>2 DEF C!RustDecay, C!PythonDecay
  <2>6. rust.age = C!Age(C!DateOf(m), now)
    BY DEF C!RustDecay, C!Decay
  <2>7. rust.due => rust.decayed = 0
    BY DEF C!RustDecay, C!Decay
  <2>8. asked.memory = m /\ asked.now = now
    OBVIOUS
  <2> QED BY <2>4, <2>5, <2>6, <2>7, <2>8 DEF C!DecaysAgree
<1> QED BY <1>1, <1>2, <1>3, PTL DEF C!Spec

(* For every proposal: the ruleset refuses what the code refuses, and more *)
(* only where a risk names absolute ownership; and where keywords stand    *)
(* alone Go says what the core says, and Python, which counts characters   *)
(* where the others count bytes, refuses no less, and more only for a text *)
(* of few characters and many bytes (validate_mechanism_sieve and          *)
(* validate_sieve).                                                        *)
THEOREM SievesAgreeAlways == ASSUME C!CoreAssumption PROVE C!Spec => []C!SievesAgree
<1>1. C!Init => AskedOK
  BY DEF C!Init, AskedOK
<1>2. AskedOK /\ [C!Next]_C!core => AskedOK'
  BY AskedStays
<1>3. AskedOK => C!SievesAgree
  <2> SUFFICES ASSUME AskedOK, asked.about = "proposal" PROVE C!SievesAgree
    BY DEF C!SievesAgree
  <2> PICK p \in Subjects : asked = [about |-> "proposal", proposal |-> p]
    BY DEF AskedOK, C!Nothing
  <2>1. asked.proposal = p
    OBVIOUS
  <2>2. DOMAIN p = {"exit", "capture", "ownership", "metrics", "governance"}
    BY DEF C!CoreAssumption
  <2>b. \A field \in DOMAIN p : p[field].brief \in {{}, {"characters"}, {"bytes", "characters"}}
    BY DEF C!CoreAssumption
  <2> DEFINE absolute == {"absolute ownership"}
  <2> DEFINE Errors(as, measure, mitigations) ==
        {e \in {"exit", "capture", "metrics"} :
           CASE e = "exit"    -> C!Occurs({"no exit"}, p.exit, as) \/ measure \in p.exit.brief
             [] e = "capture" -> \/ C!Occurs(mitigations, p.capture, as)
                                 \/ C!Occurs(absolute, p.ownership, as)
             [] e = "metrics" -> C!MetricsRefused(p.metrics, as, measure)}
  <2>3. \A as, measure, mitigations, appealAs :
          C!Sieve(p, as, measure, mitigations, appealAs) =
             IF C!Missing(p) THEN [errors |-> {"missing"}, warned |-> FALSE]
             ELSE [errors |-> Errors(as, measure, mitigations),
                   warned |-> ~C!Occurs({"appeal"}, p.governance, appealAs)]
    BY DEF C!Sieve
  <2>4. Errors("parts", "bytes", C!NoMitigation) \subseteq Errors("parts", "bytes", C!NoMitigation \cup absolute)
    BY DEF C!Occurs
  <2>5. ~C!Occurs(absolute, p.capture, "parts") =>
           Errors("parts", "bytes", C!NoMitigation) = Errors("parts", "bytes", C!NoMitigation \cup absolute)
    BY DEF C!Occurs
  <2>6. ASSUME \A field \in DOMAIN p : C!StandAlone(p[field]), NEW as \in {"words", "asciiWords"}
        PROVE  /\ \A measure : Errors("parts", measure, C!NoMitigation) = Errors(as, measure, C!NoMitigation)
               /\ C!Occurs({"appeal"}, p.governance, "parts") <=> C!Occurs({"appeal"}, p.governance, as)
    <3>1. /\ p.exit["parts"] = p.exit[as] /\ p.capture["parts"] = p.capture[as]
          /\ p.ownership["parts"] = p.ownership[as] /\ p.metrics["parts"] = p.metrics[as]
          /\ p.governance["parts"] = p.governance[as]
      BY <2>2, <2>6 DEF C!StandAlone
    <3>2. /\ \A k : C!Occurs(k, p.exit, "parts") <=> C!Occurs(k, p.exit, as)
          /\ \A k : C!Occurs(k, p.capture, "parts") <=> C!Occurs(k, p.capture, as)
          /\ \A k : C!Occurs(k, p.ownership, "parts") <=> C!Occurs(k, p.ownership, as)
          /\ \A k : C!Occurs(k, p.metrics, "parts") <=> C!Occurs(k, p.metrics, as)
          /\ \A k : C!Occurs(k, p.governance, "parts") <=> C!Occurs(k, p.governance, as)
      BY <3>1 DEF C!Occurs
    <3>3. \A measure : C!MetricsRefused(p.metrics, "parts", measure) <=> C!MetricsRefused(p.metrics, as, measure)
      BY <3>2 DEF C!MetricsRefused
    <3> QED BY <3>2, <3>3
  <2>7. \A as : Errors(as, "bytes", C!NoMitigation) \subseteq Errors(as, "characters", C!NoMitigation)
    <3>1. \A field \in {"exit", "metrics"} : "bytes" \in p[field].brief => "characters" \in p[field].brief
      BY <2>2, <2>b
    <3> QED BY <3>1 DEF C!MetricsRefused
  <2>8. ~C!LongInBytes(p.exit) /\ ~C!LongInBytes(p.metrics) =>
           \A as : Errors(as, "bytes", C!NoMitigation) = Errors(as, "characters", C!NoMitigation)
    BY <2>7 DEF C!MetricsRefused, C!LongInBytes
  <2> DEFINE reference == C!ReferenceSieve(p)
             ruleset   == C!RulesetSieve(p)
  <2> HIDE DEF Errors
  <2>9. reference.errors \subseteq ruleset.errors
    <3>1. reference = C!Sieve(p, "parts", "bytes", C!NoMitigation, "parts")
          /\ ruleset = C!Sieve(p, "parts", "bytes", C!NoMitigation \cup absolute, "parts")
      BY DEF C!ReferenceSieve, C!RulesetSieve
    <3> HIDE DEF reference, ruleset
    <3>2. CASE C!Missing(p)
      <4>1. reference = [errors |-> {"missing"}, warned |-> FALSE] /\ ruleset = [errors |-> {"missing"}, warned |-> FALSE]
        BY <2>3, <3>1, <3>2
      <4> QED BY <4>1
    <3>3. CASE ~C!Missing(p)
      <4> DEFINE warned == ~C!Occurs({"appeal"}, p.governance, "parts")
      <4>1. /\ reference = [errors |-> Errors("parts", "bytes", C!NoMitigation), warned |-> warned]
            /\ ruleset = [errors |-> Errors("parts", "bytes", C!NoMitigation \cup absolute), warned |-> warned]
        BY <2>3, <3>1, <3>3
      <4> HIDE DEF warned
      <4> QED BY <2>4, <4>1
    <3> QED BY <3>2, <3>3
  <2>10. reference # ruleset => C!Occurs({"absolute ownership"}, p.capture, "parts")
    <3> SUFFICES ASSUME ~C!Occurs(absolute, p.capture, "parts") PROVE reference = ruleset
      OBVIOUS
    <3>1. Errors("parts", "bytes", C!NoMitigation) = Errors("parts", "bytes", C!NoMitigation \cup absolute)
      BY <2>5
    <3>2. /\ reference = C!Sieve(p, "parts", "bytes", C!NoMitigation, "parts")
          /\ ruleset = C!Sieve(p, "parts", "bytes", C!NoMitigation \cup absolute, "parts")
      BY DEF C!ReferenceSieve, C!RulesetSieve
    <3> HIDE DEF reference, ruleset
    <3> DEFINE narrow == C!NoMitigation
               wide   == C!NoMitigation \cup absolute
    <3>3. CASE C!Missing(p)
      BY <2>3, <3>2, <3>3
    <3>4. CASE ~C!Missing(p)
      <4> DEFINE warned == ~C!Occurs({"appeal"}, p.governance, "parts")
      <4>1. /\ reference = [errors |-> Errors("parts", "bytes", narrow), warned |-> warned]
            /\ ruleset = [errors |-> Errors("parts", "bytes", wide), warned |-> warned]
        BY <2>3, <3>2, <3>4
      <4> HIDE DEF warned
      <4> QED BY <3>1, <4>1
    <3> QED BY <3>3, <3>4
  <2>11. ASSUME \A field \in DOMAIN p : C!StandAlone(p[field])
         PROVE  /\ C!GoSieve(p) = reference /\ C!PythonSieve(p) = C!PythonRulesetSieve(p)
                /\ reference.errors \subseteq C!PythonSieve(p).errors
                /\ C!PythonSieve(p) # reference => C!LongInBytes(p.exit) \/ C!LongInBytes(p.metrics)
    <3> DEFINE warned(as) == ~C!Occurs({"appeal"}, p.governance, as)
               few  == Errors("parts", "bytes", C!NoMitigation)
               many == Errors("parts", "characters", C!NoMitigation)
    <3>1. /\ Errors("asciiWords", "bytes", C!NoMitigation) = few
          /\ Errors("words", "characters", C!NoMitigation) = many
      BY <2>6, <2>11
    <3>2. warned("words") = warned("parts") /\ warned("asciiWords") = warned("parts")
      BY <2>6, <2>11
    <3>3. few \subseteq many /\ (few # many => C!LongInBytes(p.exit) \/ C!LongInBytes(p.metrics))
      BY <2>7, <2>8
    <3>4. /\ reference = C!Sieve(p, "parts", "bytes", C!NoMitigation, "parts")
          /\ C!GoSieve(p) = C!Sieve(p, "asciiWords", "bytes", C!NoMitigation, "asciiWords")
          /\ C!PythonSieve(p) = C!Sieve(p, "words", "characters", C!NoMitigation, "parts")
          /\ C!PythonRulesetSieve(p) = C!Sieve(p, "words", "characters", C!NoMitigation, "words")
      BY DEF C!ReferenceSieve, C!GoSieve, C!PythonSieve, C!PythonRulesetSieve
    <3>5. \A as, measure, mitigations, appealAs :
            C!Sieve(p, as, measure, mitigations, appealAs) =
               IF C!Missing(p) THEN [errors |-> {"missing"}, warned |-> FALSE]
               ELSE [errors |-> Errors(as, measure, mitigations), warned |-> warned(appealAs)]
      BY <2>3
    <3> HIDE DEF reference, warned
    <3>6. CASE C!Missing(p)
      <4> DEFINE missing == [errors |-> {"missing"}, warned |-> FALSE]
      <4>1. /\ reference = missing /\ C!GoSieve(p) = missing
            /\ C!PythonSieve(p) = missing /\ C!PythonRulesetSieve(p) = missing
        BY <3>4, <3>5, <3>6
      <4> QED BY <4>1
    <3>7. CASE ~C!Missing(p)
      <4>1. /\ reference = [errors |-> few, warned |-> warned("parts")]
            /\ C!GoSieve(p) = [errors |-> few, warned |-> warned("parts")]
            /\ C!PythonSieve(p) = [errors |-> many, warned |-> warned("parts")]
            /\ C!PythonRulesetSieve(p) = [errors |-> many, warned |-> warned("parts")]
        BY <3>1, <3>2, <3>4, <3>5, <3>7
      <4> HIDE DEF few, many
      <4> QED BY <3>3, <4>1
    <3> QED BY <3>6, <3>7
  <2> QED BY <2>1, <2>9, <2>10, <2>11 DEF C!SievesAgree
<1> QED BY <1>1, <1>2, <1>3, PTL DEF C!Spec

(* What the core states more than once, in the server, its code, its       *)
(* ruleset and its ports to other languages, it states alike.              *)
THEOREM CoreRulesAgree ==
    ASSUME C!CoreAssumption
    PROVE  C!Spec => [](C!GrantsAgree /\ C!DecaysAgree /\ C!SievesAgree)
BY GrantsAgreeAlways, DecaysAgreeAlways, SievesAgreeAlways, PTL

(* What is before the supervisor, and what came of it.                     *)
Supervised ==
    \/ said = <<>> /\ inner = <<>> /\ results = <<>>
    \/ /\ inner \in [Proposals -> {"running", "sent", "panicked"}]
       /\ results = [p \in Proposals |-> results[p]]
       /\ C!ResultsAreTheirOwn

(* However the evaluations of one call end, panic or outlast the timeout,  *)
(* and in whatever order: what is put down for a proposal is its own       *)
(* verdict, its own panic, or that it took too long (EvaluateConcurrently).*)
THEOREM ResultsAreTheirOwnAlways == C!Spec => []C!ResultsAreTheirOwn
<1>1. C!Init => Supervised
  BY DEF C!Init, Supervised
<1>2. Supervised /\ [C!Next]_C!core => Supervised'
  <2> SUFFICES ASSUME Supervised, [C!Next]_C!core PROVE Supervised'
    OBVIOUS
  <2>1. CASE C!Evaluate
    <3>1. /\ inner' \in [Proposals -> {"running", "sent", "panicked"}]
          /\ results' = [p \in Proposals |-> C!Result("none")]
      BY <2>1 DEF C!Evaluate
    <3>2. C!Result("none").kind = "none"
      BY DEF C!Result
    <3>3. C!ResultsAreTheirOwn'
      BY <3>1, <3>2 DEF C!ResultsAreTheirOwn
    <3> QED BY <3>1, <3>3 DEF Supervised
  <2>2. CASE UNCHANGED <<said, inner, results>>
    BY <2>2 DEF Supervised, C!ResultsAreTheirOwn
  <2>3. ASSUME said # <<>>, NEW p \in Proposals, C!Ends(p, "sent") \/ C!Ends(p, "panicked") \/ C!Settles(p)
        PROVE  Supervised'
    <3>1. /\ inner \in [Proposals -> {"running", "sent", "panicked"}]
          /\ results = [q \in Proposals |-> results[q]]
          /\ DOMAIN results = Proposals
          /\ C!ResultsAreTheirOwn
      BY <2>3 DEF Supervised
    <3>2. ASSUME NEW how \in {"sent", "panicked"}, C!Ends(p, how) PROVE Supervised'
      <4>1. inner[p] = "running" /\ inner' = [inner EXCEPT ![p] = how] /\ said' = said /\ results' = results
        BY <3>2 DEF C!Ends
      <4>2. inner' \in [Proposals -> {"running", "sent", "panicked"}]
        BY <3>1, <4>1
      <4>3. C!ResultsAreTheirOwn'
        BY <3>1, <4>1 DEF C!ResultsAreTheirOwn
      <4> QED BY <3>1, <4>1, <4>2, <4>3 DEF Supervised
    <3>3. ASSUME C!Settles(p) PROVE Supervised'
      <4>1. PICK result \in C!Takes(p) \cup {C!Result("timeout")} : results' = [results EXCEPT ![p] = result]
        BY <3>3 DEF C!Settles
      <4>2. said' = said /\ inner' = inner
        BY <3>3 DEF C!Settles
      <4>3. /\ result.kind = "panic" => inner[p] = "panicked"
            /\ result.kind = "verdict" => inner[p] = "sent" /\ result.verdict = C!GoSieve(said[p])
        <5>1. CASE result = C!Result("timeout")
          BY <5>1 DEF C!Result
        <5>2. CASE result \in C!Takes(p)
          <6>1. result = C!Message(p) /\ inner[p] \in {"sent", "panicked"}
            BY <3>1, <5>2 DEF C!Takes
          <6> QED BY <6>1 DEF C!Message, C!Result
        <5> QED BY <5>1, <5>2
      <4>4. results' = [q \in Proposals |-> results'[q]] /\ DOMAIN results' = Proposals
            /\ results'[p] = result /\ \A q \in Proposals \ {p} : results'[q] = results[q]
        BY <3>1, <4>1
      <4>5. C!ResultsAreTheirOwn'
        BY <3>1, <4>2, <4>3, <4>4 DEF C!ResultsAreTheirOwn
      <4> QED BY <3>1, <4>2, <4>4, <4>5 DEF Supervised
    <3> QED BY <2>3, <3>2, <3>3
  <2>4. C!Evaluate \/ C!Ask \/ UNCHANGED C!core
        \/ (said # <<>> /\ \E p \in Proposals : C!Ends(p, "sent") \/ C!Ends(p, "panicked") \/ C!Settles(p))
    BY DEF C!Next
  <2> QED BY <2>1, <2>2, <2>3, <2>4 DEF C!Ask, C!core
<1>3. Supervised => C!ResultsAreTheirOwn
  BY DEF Supervised, C!ResultsAreTheirOwn
<1> QED BY <1>1, <1>2, <1>3, PTL DEF C!Spec

-----------------------------------------------------------------------------
(* DashboardPanels: the panels of the operator's page                      *)

Signs    == {"SIGNED", "PENDING", "VETOED", "torn", "absent"}
Standing == {"Awaiting Operator", "Consensus Reached", "Vetoed", "torn", "absent"}
OnFile   == [codex : Signs, openclaude : Signs, antigravity : Signs, status : Standing]
Screens  == [what : {"nothing", "loading", "error", "shown"}, of : Nat, records : SUBSET Retainable, state : OnFile]
PanelLoads == [panel : P!Panels, pc : {"hardware", "asked", "served", "over"}, answer : Screens]
Changes  == [kind : {"revoke", "execute"}, of : Retainable, pc : {"asked", "served"}]
            \cup [kind : {"decide"}, of : P!Decisions, pc : {"asked", "served"}]

Tellings == [revoked : SUBSET Retainable, late : [Retainable -> SUBSET Nat], decisions : Nat, early : SUBSET Nat]

PanelTypes ==
    /\ retained \in SUBSET Retainable /\ file \in OnFile
    /\ shown \in [P!Panels -> Screens] /\ loads \in Seq(PanelLoads) /\ handlers \subseteq Changes
    /\ told \in Tellings
    /\ decided \in [last : {"none", "signoff", "veto"}, count : Nat]

(* What an answer must say, whether it is on its way or on the screen.     *)
Good(t, d, consensus, panel, screen) ==
    /\ panel = "records" => \A r \in t.revoked \cap screen.records : screen.of \in t.late[r]
    /\ panel = "consensus" /\ t.decisions = d.count /\ screen.of \notin t.early => screen.state = consensus
GoodNow(panel, screen)  == Good(told, decided, P!Consensus, panel, screen)
GoodNext(panel, screen) == Good(told', decided', P!Consensus', panel, screen)

AnswersGood == \A l \in DOMAIN loads : loads[l].pc = "served" =>
                  loads[l].answer.of = l /\ GoodNow(loads[l].panel, loads[l].answer)
ScreensGood == \A p \in P!Panels : GoodNow(p, shown[p])

PanelInv ==
    /\ PanelTypes
    /\ told.revoked \cap retained = {} /\ told.decisions <= decided.count
    /\ P!Consensus.status = P!StatusOf[decided.last]
    /\ AnswersGood /\ ScreensGood

(* What is on file, as it is read.                                         *)
LEMMA FileRead ==
    /\ P!Default \in OnFile /\ P!Torn \in OnFile /\ P!Absent \in OnFile
    /\ P!Default # P!Torn /\ P!Default # P!Absent /\ P!Default.status = "Awaiting Operator"
    /\ \A what, of, records, state : P!Screen(what, of, records, state) =
         [what |-> what, of |-> of, records |-> records, state |-> state]
    /\ \A what \in {"nothing", "loading", "error"} : P!Blank(what) \in Screens /\ P!Blank(what).of = 0 /\ P!Blank(what).records = {}
    /\ P!StatusOf["none"] = "Awaiting Operator" /\ P!StatusOf["signoff"] = "Consensus Reached"
    /\ P!StatusOf["veto"] = "Vetoed"
<1>1. /\ P!Default \in OnFile /\ P!Torn \in OnFile /\ P!Absent \in OnFile
      /\ P!Default.status = "Awaiting Operator" /\ P!Torn.status = "torn" /\ P!Absent.status = "absent"
  <2>1. \A a, b, c \in Signs, d \in Standing : P!State(a, b, c, d) \in OnFile /\ P!State(a, b, c, d).status = d
    BY DEF P!State, OnFile
  <2>2. P!Default \in OnFile /\ P!Default.status = "Awaiting Operator"
    BY DEF P!Default, P!State, OnFile, Signs, Standing
  <2>3. P!Torn \in OnFile /\ P!Torn.status = "torn"
    BY DEF P!Torn, P!State, OnFile, Signs, Standing
  <2>4. P!Absent \in OnFile /\ P!Absent.status = "absent"
    BY <2>1 DEF P!Absent, Signs, Standing
  <2> QED BY <2>2, <2>3, <2>4
<1>2. P!Default # P!Torn /\ P!Default # P!Absent
  BY <1>1
<1>3. \A what, of, records, state : P!Screen(what, of, records, state) =
         [what |-> what, of |-> of, records |-> records, state |-> state]
  BY DEF P!Screen
<1>4. \A what \in {"nothing", "loading", "error"} : P!Blank(what) \in Screens /\ P!Blank(what).of = 0 /\ P!Blank(what).records = {}
  BY <1>1, <1>3 DEF P!Blank, Screens
<1>5. /\ P!StatusOf["none"] = "Awaiting Operator" /\ P!StatusOf["signoff"] = "Consensus Reached"
      /\ P!StatusOf["veto"] = "Vetoed"
  BY DEF P!StatusOf
<1> QED BY <1>1, <1>2, <1>3, <1>4, <1>5

LEMMA ConsensusRead ==
    ASSUME PanelTypes
    PROVE  /\ P!Consensus \in OnFile /\ P!Consensus \notin {P!Torn, P!Absent}
           /\ \A d \in P!Decisions : P!After(d) \in OnFile /\ P!After(d).status = P!StatusOf[d]
<1>1. P!Consensus \in OnFile /\ P!Consensus \notin {P!Torn, P!Absent}
  BY FileRead DEF P!Consensus, PanelTypes
<1>2. P!After("veto") \in OnFile /\ P!After("veto").status = "Vetoed"
  BY DEF P!After, P!State, OnFile, Signs, Standing
<1>3. P!After("signoff") \in OnFile /\ P!After("signoff").status = "Consensus Reached"
  <2> PICK f \in OnFile : f = P!Consensus
    BY <1>1
  <2>1. P!After("signoff") = [f EXCEPT !.antigravity = "SIGNED", !.status = "Consensus Reached"]
    BY DEF P!After
  <2> QED BY <2>1 DEF OnFile, Signs, Standing
<1> QED BY <1>1, <1>2, <1>3, FileRead DEF P!Decisions

(* A panel is loaded, and what is on its way or stays on the screen is     *)
(* still good.                                                             *)
LEMMA PanelLoaded ==
    ASSUME PanelInv, NEW panel \in P!Panels, P!Loads(panel),
           \A l \in DOMAIN loads : loads[l].pc = "served" => GoodNext(loads[l].panel, loads[l].answer),
           \A p \in P!Panels : (p = "records" /\ panel = p) \/ GoodNext(p, shown[p])
    PROVE  loads' \in Seq(PanelLoads) /\ shown' \in [P!Panels -> Screens] /\ AnswersGood' /\ ScreensGood'
<1>1. PICK load \in PanelLoads : /\ loads' = Append(loads, load) /\ load.panel = panel /\ load.pc # "served"
  <2>1. P!Blank("nothing") \in Screens
    BY FileRead
  <2>2. ASSUME NEW place \in {"asked", "hardware"}
        PROVE  [panel |-> panel, pc |-> place, answer |-> P!Blank("nothing")] \in PanelLoads
    BY <2>1 DEF PanelLoads
  <2> QED BY <2>2 DEF P!Loads
<1>2. /\ loads \in Seq(PanelLoads) /\ shown \in [P!Panels -> Screens] /\ Len(loads) \in Nat
  BY DEF PanelInv, PanelTypes
<1>3. loads' \in Seq(PanelLoads)
  BY <1>1, <1>2
<1>4. /\ shown' \in [P!Panels -> Screens]
      /\ \A p \in P!Panels : \/ (shown'[p] = shown[p] /\ ~(p = "records" /\ panel = p))
                            \/ (p = "records" /\ shown'[p].records = {})
  <2>1. shown' = IF panel = "records" THEN [shown EXCEPT ![panel] = P!Blank("loading")] ELSE shown
    BY DEF P!Loads
  <2>2. P!Blank("loading") \in Screens /\ P!Blank("loading").records = {}
    BY FileRead
  <2> PICK b \in Screens : b = P!Blank("loading")
    BY <2>2
  <2>3. CASE panel = "records"
    <3>1. shown' = [shown EXCEPT !["records"] = b] /\ "records" \in P!Panels
      BY <2>1, <2>3
    <3> QED BY <1>2, <2>2, <2>3, <3>1
  <2>4. CASE panel # "records"
    BY <1>2, <2>1, <2>4
  <2> QED BY <2>3, <2>4
<1>5. ASSUME NEW l \in DOMAIN loads', loads'[l].pc = "served"
      PROVE  loads'[l].answer.of = l /\ GoodNext(loads'[l].panel, loads'[l].answer)
  <2>1. l \in DOMAIN loads /\ loads'[l] = loads[l]
    BY <1>1, <1>2, <1>5
  <2> QED BY <1>5, <2>1 DEF PanelInv, AnswersGood
<1>6. ASSUME NEW p \in P!Panels PROVE GoodNext(p, shown'[p])
  <2>1. CASE shown'[p] = shown[p] /\ ~(p = "records" /\ panel = p)
    BY <2>1
  <2>2. CASE p = "records" /\ shown'[p].records = {}
    BY <2>2 DEF GoodNext, Good
  <2> QED BY <1>4, <2>1, <2>2
<1> QED BY <1>3, <1>4, <1>5, <1>6 DEF AnswersGood, ScreensGood, GoodNow, GoodNext

(* What the steps leave of the answers.                                    *)
GoodStays == \A p \in P!Panels, s \in Screens : GoodNow(p, s) => GoodNext(p, s)

LEMMA PanelUntouched ==
    ASSUME PanelInv, GoodStays
    PROVE  /\ \A l \in DOMAIN loads : loads[l].pc = "served" => GoodNext(loads[l].panel, loads[l].answer)
           /\ \A p \in P!Panels : GoodNext(p, shown[p])
           /\ loads' = loads /\ shown' = shown => AnswersGood' /\ ScreensGood'
<1>1. \A l \in DOMAIN loads : loads[l].panel \in P!Panels /\ loads[l].answer \in Screens
  <2>1. \A l \in DOMAIN loads : loads[l] \in PanelLoads
    BY DEF PanelInv, PanelTypes
  <2> QED BY <2>1 DEF PanelLoads
<1>2. \A p \in P!Panels : shown[p] \in Screens
  BY DEF PanelInv, PanelTypes
<1>3. \A l \in DOMAIN loads : loads[l].pc = "served" => GoodNext(loads[l].panel, loads[l].answer)
  BY <1>1 DEF PanelInv, AnswersGood, GoodStays
<1>4. \A p \in P!Panels : GoodNext(p, shown[p])
  BY <1>2 DEF PanelInv, ScreensGood, GoodStays
<1>5. \A l \in DOMAIN loads : loads[l].pc = "served" => loads[l].answer.of = l
  BY DEF PanelInv, AnswersGood
<1>6. ASSUME loads' = loads, shown' = shown PROVE AnswersGood' /\ ScreensGood'
  BY <1>3, <1>4, <1>5, <1>6 DEF AnswersGood, ScreensGood, GoodNow, GoodNext
<1> QED BY <1>3, <1>4, <1>6

(* One load goes on.                                                       *)
LEMMA PanelGoes ==
    ASSUME PanelInv, NEW l \in DOMAIN loads, NEW load \in PanelLoads, loads' = [loads EXCEPT ![l] = load],
           GoodStays,
           load.pc = "served" => load.answer.of = l /\ GoodNext(load.panel, load.answer),
           NEW screen \in Screens, NEW panel \in P!Panels,
           shown' \in {shown, [shown EXCEPT ![panel] = screen]},
           shown' # shown => GoodNext(panel, screen)
    PROVE  loads' \in Seq(PanelLoads) /\ shown' \in [P!Panels -> Screens] /\ AnswersGood' /\ ScreensGood'
<1>1. /\ loads \in Seq(PanelLoads) /\ shown \in [P!Panels -> Screens] /\ Len(loads) \in Nat
      /\ DOMAIN loads = 1 .. Len(loads)
  BY DEF PanelInv, PanelTypes
<1>2. /\ loads' \in Seq(PanelLoads) /\ DOMAIN loads' = DOMAIN loads
      /\ loads'[l] = load /\ \A k \in DOMAIN loads : k # l => loads'[k] = loads[k]
  BY <1>1
<1>3. /\ shown' \in [P!Panels -> Screens]
      /\ \A p \in P!Panels : shown'[p] = shown[p] \/ (shown' # shown /\ p = panel /\ shown'[p] = screen)
  BY <1>1
<1>4. /\ \A k \in DOMAIN loads : loads[k].pc = "served" => GoodNext(loads[k].panel, loads[k].answer)
      /\ \A p \in P!Panels : GoodNext(p, shown[p])
  BY PanelUntouched
<1>5. ASSUME NEW k \in DOMAIN loads', loads'[k].pc = "served"
      PROVE  loads'[k].answer.of = k /\ GoodNext(loads'[k].panel, loads'[k].answer)
  <2>1. CASE k = l
    BY <1>2, <1>5, <2>1
  <2>2. CASE k # l
    BY <1>2, <1>4, <1>5, <2>2 DEF PanelInv, AnswersGood
  <2> QED BY <2>1, <2>2
<1>6. ASSUME NEW p \in P!Panels PROVE GoodNext(p, shown'[p])
  BY <1>3, <1>4
<1> QED BY <1>2, <1>3, <1>5, <1>6 DEF AnswersGood, ScreensGood, GoodNow, GoodNext

(* What a change of the file leaves of the rest.                           *)
PanelRest ==
    /\ retained \in SUBSET Retainable /\ file \in OnFile /\ handlers \subseteq Changes
    /\ told \in Tellings
    /\ decided \in [last : {"none", "signoff", "veto"}, count : Nat]
    /\ told.revoked \cap retained = {} /\ told.decisions <= decided.count
    /\ P!Consensus.status = P!StatusOf[decided.last]

LEMMA PanelLooks ==
    ASSUME PanelInv, told' = told, decided' = decided, handlers' = handlers, retained' = retained,
           file' = file \/ file' = P!Consensus \/ (file \in {P!Torn, P!Absent} /\ file' = P!Torn)
    PROVE  PanelRest' /\ GoodStays
<1>1. P!Consensus \in OnFile /\ P!Consensus \notin {P!Torn, P!Absent}
  BY ConsensusRead DEF PanelInv
<1>2. P!Consensus' = P!Consensus /\ file' \in OnFile
  BY <1>1, FileRead DEF P!Consensus, PanelInv, PanelTypes
<1>3. GoodStays
  BY <1>2 DEF GoodStays, GoodNow, GoodNext
<1>4. PanelRest'
  BY <1>2 DEF PanelRest, PanelInv, PanelTypes
<1> QED BY <1>3, <1>4

LEMMA PanelLoadStep ==
    ASSUME PanelInv, NEW l \in DOMAIN loads, P!Hardware(l) \/ P!Serve(l) \/ P!Render(l) \/ P!FailsToLoad(l)
    PROVE  PanelInv'
<1>1. told' = told /\ decided' = decided /\ handlers' = handlers /\ retained' = retained
      /\ (file' = file \/ file' = P!Consensus \/ (file \in {P!Torn, P!Absent} /\ file' = P!Torn))
  BY DEF P!Hardware, P!Serve, P!Render, P!FailsToLoad
<1>2. PanelRest' /\ GoodStays
  BY <1>1, PanelLooks
<1>3. loads[l] \in PanelLoads /\ shown \in [P!Panels -> Screens] /\ loads \in Seq(PanelLoads)
  BY DEF PanelInv, PanelTypes
<1> PICK old \in PanelLoads : old = loads[l]
  BY <1>3
<1>4. old.panel \in P!Panels /\ old.answer \in Screens
  BY DEF PanelLoads
<1>5. ASSUME NEW load \in PanelLoads, loads' = [loads EXCEPT ![l] = load],
             load.pc = "served" => load.answer.of = l /\ GoodNext(load.panel, load.answer),
             NEW screen \in Screens,
             shown' \in {shown, [shown EXCEPT ![old.panel] = screen]},
             shown' # shown => GoodNext(old.panel, screen)
      PROVE  PanelInv'
  <2>1. loads' \in Seq(PanelLoads) /\ shown' \in [P!Panels -> Screens] /\ AnswersGood' /\ ScreensGood'
    BY <1>2, <1>4, <1>5, PanelGoes
  <2> QED BY <1>2, <2>1 DEF PanelInv, PanelTypes, PanelRest
<1>6. P!Blank("nothing") \in Screens /\ P!Blank("error") \in Screens /\ P!Blank("error").records = {}
  BY FileRead
<1>7. ASSUME NEW place \in {"asked", "over"}, P!Goes(l, place)
      PROVE  \E load \in PanelLoads : loads' = [loads EXCEPT ![l] = load] /\ load.panel = old.panel /\ load.pc # "served"
  <2> DEFINE load == [old EXCEPT !.pc = place, !.answer = P!Blank("nothing")]
  <2>1. load \in PanelLoads /\ load.panel = old.panel /\ load.pc # "served"
    BY <1>6 DEF PanelLoads
  <2>2. loads' = [loads EXCEPT ![l] = load]
    BY <1>3, <1>7 DEF P!Goes
  <2> HIDE DEF load
  <2> QED BY <2>1, <2>2
<1>8. CASE P!Hardware(l)
  <2>1. shown' = shown /\ P!Goes(l, "asked")
    BY <1>8 DEF P!Hardware
  <2>2. PICK load \in PanelLoads : loads' = [loads EXCEPT ![l] = load] /\ load.panel = old.panel /\ load.pc # "served"
    BY <1>7, <2>1
  <2> QED BY <1>5, <1>6, <2>1, <2>2
<1>9. CASE P!Render(l)
  <2>1. old.pc = "served" /\ P!Goes(l, "over") /\ shown' = [shown EXCEPT ![old.panel] = old.answer]
    BY <1>9 DEF P!Render
  <2>2. PICK load \in PanelLoads : loads' = [loads EXCEPT ![l] = load] /\ load.panel = old.panel /\ load.pc # "served"
    BY <1>7, <2>1
  <2> PICK s \in Screens : s = old.answer
    BY <1>4
  <2>3. GoodNow(old.panel, s)
    BY <2>1 DEF PanelInv, AnswersGood
  <2>4. GoodNext(old.panel, s)
    BY <1>2, <1>4, <2>3 DEF GoodStays
  <2> QED BY <1>5, <2>1, <2>2, <2>4
<1>10. CASE P!FailsToLoad(l)
  <2>1. P!Goes(l, "over")
        /\ (shown' = shown \/ (old.panel = "records" /\ shown' = [shown EXCEPT !["records"] = P!Blank("error")]))
    BY <1>10 DEF P!FailsToLoad
  <2>2. PICK load \in PanelLoads : loads' = [loads EXCEPT ![l] = load] /\ load.panel = old.panel /\ load.pc # "served"
    BY <1>7, <2>1
  <2>3. shown' \in {shown, [shown EXCEPT ![old.panel] = P!Blank("error")]}
    BY <2>1
  <2>4. old.panel = "records" => GoodNext(old.panel, P!Blank("error"))
    BY <1>6 DEF GoodNext, Good
  <2>5. shown' # shown => GoodNext(old.panel, P!Blank("error"))
    BY <2>1, <2>4
  <2> QED BY <1>5, <1>6, <2>2, <2>3, <2>5
<1>11. CASE P!Serve(l)
  <2>0. P!Consensus \in OnFile /\ P!Absent \in OnFile /\ retained \in SUBSET Retainable /\ l \in Nat
    <3>1. PanelTypes
      BY DEF PanelInv
    <3>2. P!Consensus \in OnFile
      BY <3>1, ConsensusRead
    <3>3. P!Absent \in OnFile
      BY FileRead
    <3>4. retained \in SUBSET Retainable /\ l \in Nat
      BY <1>3, <3>1 DEF PanelTypes
    <3> QED BY <3>2, <3>3, <3>4
  <2>1. shown' = shown /\ loads' = [loads EXCEPT ![l].pc = "served", ![l].answer = P!Answer(l)]
    BY <1>11 DEF P!Serve
  <2>2. P!Answer(l) = IF old.panel = "records"
                      THEN [what |-> "shown", of |-> l, records |-> retained, state |-> P!Absent]
                      ELSE [what |-> "shown", of |-> l, records |-> {}, state |-> P!Consensus]
    BY FileRead DEF P!Answer
  <2> PICK s \in Screens : /\ s = P!Answer(l) /\ s.of = l
                           /\ old.panel = "records" => s.records = retained
                           /\ old.panel # "records" => s.state = P!Consensus
    <3>1. P!Answer(l) \in Screens
      BY <2>0, <2>2 DEF Screens
    <3> QED BY <2>2, <3>1
  <2> DEFINE load == [old EXCEPT !.pc = "served", !.answer = s]
  <2>3. load \in PanelLoads /\ load.panel = old.panel /\ load.answer = s
    BY DEF PanelLoads
  <2>4. loads' = [loads EXCEPT ![l] = load]
    BY <1>3, <2>1
  <2> HIDE DEF load
  <2>5. GoodNow(old.panel, s)
    BY DEF GoodNow, Good, PanelInv
  <2>6. GoodNext(load.panel, load.answer)
    BY <1>2, <1>4, <2>3, <2>5 DEF GoodStays
  <2>7. shown' \in {shown, [shown EXCEPT ![old.panel] = s]}
    BY <2>1
  <2> QED BY <1>5, <2>1, <2>3, <2>4, <2>6, <2>7
<1> QED BY <1>8, <1>9, <1>10, <1>11

(* Changes the page has asked for.                                         *)
LEMMA PanelActs ==
    ASSUME PanelInv, P!Act PROVE PanelInv'
<1>1. UNCHANGED <<retained, file, shown, loads, told, decided>>
  BY DEF P!Act, P!Begins
<1>2. PICK h : handlers' = handlers \cup {h}
        /\ \/ \E r \in shown["records"].records : h = P!Handler("revoke", r)
           \/ \E r \in Retainable : h = P!Handler("execute", r)
           \/ \E d \in P!Decisions : h = P!Handler("decide", d)
  BY DEF P!Act, P!Begins
<1>3. shown["records"].records \subseteq Retainable
  <2>1. shown["records"] \in Screens
    BY DEF PanelInv, PanelTypes, P!Panels
  <2> QED BY <2>1 DEF Screens
<1>4. h \in Changes
  <2>1. \A r \in Retainable : P!Handler("revoke", r) \in Changes /\ P!Handler("execute", r) \in Changes
    BY DEF P!Handler, Changes
  <2>2. \A d \in P!Decisions : P!Handler("decide", d) \in Changes
    BY DEF P!Handler, Changes
  <2> QED BY <1>2, <1>3, <2>1, <2>2
<1>5. handlers' \subseteq Changes
  BY <1>2, <1>4 DEF PanelInv, PanelTypes
<1>6. GoodStays /\ P!Consensus' = P!Consensus
  BY <1>1 DEF GoodStays, GoodNow, GoodNext, P!Consensus
<1>7. AnswersGood' /\ ScreensGood'
  BY <1>1, <1>6, PanelUntouched
<1> QED BY <1>1, <1>5, <1>6, <1>7 DEF PanelInv, PanelTypes

LEMMA PanelServed ==
    ASSUME PanelInv, NEW h \in handlers, NEW kind, P!Served(h, kind)
    PROVE  handlers' \subseteq Changes /\ h \in Changes /\ h.kind = kind
<1>1. h \in Changes /\ handlers \subseteq Changes
  BY DEF PanelInv, PanelTypes
<1>2. [h EXCEPT !.pc = "served"] \in Changes
  <2>1. CASE h \in [kind : {"revoke", "execute"}, of : Retainable, pc : {"asked", "served"}]
    BY <2>1 DEF Changes
  <2>2. CASE h \in [kind : {"decide"}, of : P!Decisions, pc : {"asked", "served"}]
    BY <2>2 DEF Changes
  <2> QED BY <1>1, <2>1, <2>2 DEF Changes
<1> QED BY <1>1, <1>2 DEF P!Served

LEMMA PanelSaves ==
    ASSUME PanelInv, NEW d \in P!Decisions, P!Saves(d), handlers' \subseteq Changes,
           UNCHANGED <<retained, shown, loads, told>>
    PROVE  PanelInv'
<1>0. /\ P!Consensus \in OnFile /\ P!Consensus \notin {P!Torn, P!Absent}
      /\ P!After(d) \in OnFile /\ P!After(d).status = P!StatusOf[d]
  <2>1. PanelTypes
    BY DEF PanelInv
  <2> QED BY <2>1, ConsensusRead
<1>1. /\ decided \in [last : {"none", "signoff", "veto"}, count : Nat]
      /\ told \in Tellings
  BY DEF PanelInv, PanelTypes
<1>2. /\ decided' \in [last : {"none", "signoff", "veto"}, count : Nat] /\ decided'.count = decided.count + 1
      /\ decided.count \in Nat /\ told.decisions \in Nat /\ told.decisions <= decided.count
  BY <1>1 DEF PanelInv, P!Saves, P!Decisions, Tellings
<1>3. file' \in OnFile /\ P!Consensus'.status = P!StatusOf[decided'.last]
  <2>1. CASE file' = P!After(d) /\ decided'.last = d
    <3>1. P!After(d) # P!Torn /\ P!After(d) # P!Absent
      <4>1. P!After(d).status \in {"Consensus Reached", "Vetoed"}
        BY <1>0, FileRead DEF P!Decisions
      <4>2. P!Torn.status = "torn" /\ P!Absent.status = "absent"
        BY DEF P!Torn, P!Absent, P!State
      <4> QED BY <4>1, <4>2
    <3> QED BY <1>0, <2>1, <3>1 DEF P!Consensus
  <2>2. CASE file' = P!Torn /\ decided'.last = "none"
    BY <2>2, FileRead DEF P!Consensus
  <2>3. CASE file' = P!Consensus /\ file' # P!Torn /\ decided'.last = decided.last
    <3>1. P!Consensus' = P!Consensus
      BY <1>0, <2>3 DEF P!Consensus
    <3> QED BY <1>0, <2>3, <3>1 DEF PanelInv
  <2>4. \/ file' = P!After(d) /\ decided' = [last |-> d, count |-> decided.count + 1]
        \/ /\ file' \in {P!Consensus, P!Torn}
           /\ decided' = [last |-> IF file' = P!Torn THEN "none" ELSE decided.last, count |-> decided.count + 1]
    BY DEF P!Saves
  <2> QED BY <1>0, <2>1, <2>2, <2>3, <2>4
<1>4. told.decisions # decided'.count
  BY <1>2
<1>5. GoodStays
  BY <1>2, <1>4 DEF GoodStays, GoodNow, GoodNext, Good
<1>6. AnswersGood' /\ ScreensGood'
  BY <1>5, PanelUntouched
<1>7. told'.decisions <= decided'.count
  BY <1>2
<1> QED BY <1>2, <1>3, <1>6, <1>7 DEF PanelInv, PanelTypes

LEMMA PanelServes ==
    ASSUME PanelInv, NEW h \in handlers, P!Revoke(h) \/ P!Execute(h) \/ P!FailsToAct(h)
    PROVE  PanelInv'
<1>1. UNCHANGED <<file, shown, loads, decided>> /\ P!Consensus' = P!Consensus
  BY DEF P!Revoke, P!Execute, P!FailsToAct, P!Consensus
<1>2. handlers' \subseteq Changes
  <2>1. CASE P!Revoke(h) \/ P!Execute(h)
    BY <2>1, PanelServed DEF P!Revoke, P!Execute
  <2>2. CASE P!FailsToAct(h)
    BY <2>2 DEF P!FailsToAct, PanelInv, PanelTypes
  <2> QED BY <2>1, <2>2
<1>3. told \in Tellings /\ retained \in SUBSET Retainable
  BY DEF PanelInv, PanelTypes
<1>4. /\ retained' \in SUBSET Retainable /\ told' \in Tellings
      /\ told'.revoked \subseteq told.revoked /\ told'.decisions = told.decisions
      /\ told'.late = told.late /\ told'.early = told.early
      /\ told'.revoked \cap retained' = {}
  <2>1. CASE P!Revoke(h)
    BY <1>3, <2>1 DEF P!Revoke, PanelInv, Tellings
  <2>2. CASE P!Execute(h)
    <3>1. h \in Changes /\ h.kind = "execute"
      BY <2>2, PanelServed DEF P!Execute
    <3>2. h.of \in Retainable
      BY <3>1 DEF Changes
    <3> QED BY <1>3, <2>2, <3>2 DEF P!Execute, PanelInv, Tellings
  <2>3. CASE P!FailsToAct(h)
    BY <1>3, <2>3 DEF P!FailsToAct, PanelInv
  <2> QED BY <2>1, <2>2, <2>3
<1>5. GoodStays
  BY <1>1, <1>4 DEF GoodStays, GoodNow, GoodNext, Good
<1>6. AnswersGood' /\ ScreensGood'
  BY <1>1, <1>5, PanelUntouched
<1> QED BY <1>1, <1>2, <1>4, <1>6 DEF PanelInv, PanelTypes

LEMMA PanelReturns ==
    ASSUME PanelInv, NEW h \in handlers, P!Returns(h)
    PROVE  PanelInv'
<1>1. UNCHANGED <<retained, file, decided>> /\ P!Consensus' = P!Consensus /\ handlers' \subseteq Changes
  BY DEF P!Returns, P!Consensus, PanelInv, PanelTypes
<1>2. h \in Changes
  BY DEF PanelInv, PanelTypes
<1>3. /\ told \in Tellings /\ retained \in SUBSET Retainable /\ loads \in Seq(PanelLoads)
      /\ decided \in [last : {"none", "signoff", "veto"}, count : Nat] /\ shown \in [P!Panels -> Screens]
  BY DEF PanelInv, PanelTypes
<1> PICK way : way = P!OnTheirWay
  OBVIOUS
<1>4. way \in SUBSET Nat /\ \A l \in DOMAIN loads : loads[l].pc = "served" => l \in way
  BY <1>3 DEF P!OnTheirWay
<1>5. h.kind \in {"revoke", "execute", "decide"} /\ (h.kind = "revoke" => h.of \in Retainable)
  BY <1>2 DEF Changes
<1> PICK on \in Nat : on = shown["consensus"].of
  BY <1>3 DEF Screens, P!Panels
<1>6. told' = IF h.kind = "revoke" /\ h.of \notin retained
              THEN [told EXCEPT !.revoked = @ \cup {h.of}, !.late[h.of] = way]
              ELSE IF h.kind = "decide" THEN [told EXCEPT !.decisions = decided.count, !.early = {on} \cup way]
              ELSE told
  BY <1>5 DEF P!Told, P!Returns
<1>7. told' \in Tellings /\ told'.revoked \cap retained' = {} /\ told'.decisions <= decided'.count
  <2>1. CASE h.kind = "revoke" /\ h.of \notin retained
    <3>1. told' = [told EXCEPT !.revoked = @ \cup {h.of}, !.late[h.of] = way] /\ h.of \in Retainable
      BY <1>5, <1>6, <2>1
    <3>2. told' \in Tellings /\ told'.revoked = told.revoked \cup {h.of} /\ told'.decisions = told.decisions
      BY <1>3, <1>4, <3>1 DEF Tellings
    <3> QED BY <1>1, <2>1, <3>2 DEF PanelInv
  <2>2. CASE h.kind = "decide"
    <3>1. told' = [told EXCEPT !.decisions = decided.count, !.early = {on} \cup way]
      BY <1>6, <2>2
    <3>2. told' \in Tellings /\ told'.revoked = told.revoked /\ told'.decisions = decided.count
      BY <1>3, <1>4, <3>1 DEF Tellings
    <3> QED BY <1>1, <1>3, <3>2 DEF PanelInv
  <2>3. CASE told' = told
    BY <1>1, <1>3, <2>3 DEF PanelInv
  <2> QED BY <1>6, <2>1, <2>2, <2>3
<1>8. \A l \in DOMAIN loads : loads[l].pc = "served" =>
         loads[l].answer.of \in way /\ GoodNow(loads[l].panel, loads[l].answer)
  BY <1>4 DEF PanelInv, AnswersGood
<1>9. ASSUME NEW p, NEW s, GoodNow(p, s),
             h.kind = "revoke" /\ p = "records" => s.of \in way, h.kind = "decide" /\ p = "consensus" => s.of \in {on} \cup way
      PROVE  GoodNext(p, s)
  <2>1. CASE h.kind = "revoke" /\ h.of \notin retained
    <3>1. told' = [told EXCEPT !.revoked = @ \cup {h.of}, !.late[h.of] = way] /\ h.of \in Retainable
      BY <1>5, <1>6, <2>1
    <3>2. /\ told'.revoked = told.revoked \cup {h.of} /\ told'.decisions = told.decisions /\ told'.early = told.early
          /\ told'.late[h.of] = way /\ \A r \in told.revoked : r # h.of => told'.late[r] = told.late[r]
      BY <1>3, <3>1 DEF Tellings
    <3> QED BY <1>1, <1>9, <2>1, <3>2 DEF GoodNow, GoodNext, Good
  <2>2. CASE h.kind = "decide"
    <3>1. told' = [told EXCEPT !.decisions = decided.count, !.early = {on} \cup way]
      BY <1>6, <2>2
    <3>2. told'.revoked = told.revoked /\ told'.late = told.late /\ told'.early = {on} \cup way
      BY <1>3, <3>1 DEF Tellings
    <3> QED BY <1>1, <1>9, <2>2, <3>2 DEF GoodNow, GoodNext, Good
  <2>3. CASE told' = told
    BY <1>1, <1>9, <2>3 DEF GoodNow, GoodNext
  <2> QED BY <1>6, <2>1, <2>2, <2>3
<1> PICK panel \in P!Panels : panel = P!PanelOf(h)
  BY DEF P!PanelOf, P!Panels
<1>10. P!Loads(panel)
  BY DEF P!Returns
<1>11. \A l \in DOMAIN loads : loads[l].pc = "served" => GoodNext(loads[l].panel, loads[l].answer)
  BY <1>8, <1>9
<1>12. ASSUME NEW p \in P!Panels PROVE (p = "records" /\ panel = p) \/ GoodNext(p, shown[p])
  <2>1. GoodNow(p, shown[p]) /\ p \in {"records", "consensus"}
    BY DEF PanelInv, ScreensGood, P!Panels
  <2>2. CASE p = "consensus"
    BY <1>9, <2>1, <2>2
  <2>3. CASE p = "records" /\ panel # p
    <3>1. h.kind # "revoke"
      BY <2>3 DEF P!PanelOf
    <3> QED BY <1>9, <2>1, <2>3, <3>1
  <2> QED BY <2>1, <2>2, <2>3
<1>13. loads' \in Seq(PanelLoads) /\ shown' \in [P!Panels -> Screens] /\ AnswersGood' /\ ScreensGood'
  BY <1>10, <1>11, <1>12, PanelLoaded
<1> QED BY <1>1, <1>3, <1>7, <1>13 DEF PanelInv, PanelTypes

LEMMA PanelStep == ASSUME PanelInv, [P!Next]_P!panels PROVE PanelInv'
<1>1. CASE UNCHANGED P!panels
  BY <1>1 DEF P!panels, PanelInv, PanelTypes, AnswersGood, ScreensGood, GoodNow, P!Consensus
<1>2. ASSUME NEW p \in P!Panels, P!Refresh(p) PROVE PanelInv'
  <2>1. UNCHANGED <<retained, file, handlers, told, decided>> /\ P!Loads(p) /\ P!Consensus' = P!Consensus
    BY <1>2 DEF P!Refresh, P!Consensus
  <2>2. GoodStays
    BY <2>1 DEF GoodStays, GoodNow, GoodNext
  <2>3. loads' \in Seq(PanelLoads) /\ shown' \in [P!Panels -> Screens] /\ AnswersGood' /\ ScreensGood'
    BY <2>1, <2>2, PanelUntouched, PanelLoaded
  <2> QED BY <2>1, <2>3 DEF PanelInv, PanelTypes
<1>3. ASSUME NEW l \in DOMAIN loads, P!Hardware(l) \/ P!Serve(l) \/ P!Render(l) \/ P!FailsToLoad(l)
      PROVE  PanelInv'
  BY <1>3, PanelLoadStep
<1>4. ASSUME NEW h \in handlers, P!Decide(h) PROVE PanelInv'
  <2>1. handlers' \subseteq Changes /\ h \in Changes /\ h.kind = "decide"
    BY <1>4, PanelServed DEF P!Decide
  <2>2. h.of \in P!Decisions
    BY <2>1 DEF Changes
  <2> QED BY <1>4, <2>1, <2>2, PanelSaves DEF P!Decide
<1>5. ASSUME NEW d \in P!Decisions, P!DecideElsewhere(d) PROVE PanelInv'
  BY <1>5, PanelSaves DEF P!DecideElsewhere, PanelInv, PanelTypes
<1> QED BY <1>1, <1>2, <1>3, <1>4, <1>5, PanelActs, PanelServes, PanelReturns DEF P!Next

LEMMA PanelStart == P!Init => PanelInv
<1> SUFFICES ASSUME P!Init PROVE PanelInv
  OBVIOUS
<1>1. P!Blank("nothing") \in Screens /\ P!Blank("nothing").of = 0 /\ P!Absent \in OnFile
  BY FileRead
<1>2. PanelTypes
  BY <1>1 DEF P!Init, PanelTypes, Tellings
<1>3. loads = <<>> /\ DOMAIN loads = {} /\ \A p \in P!Panels : shown[p].of = 0
  BY <1>1 DEF P!Init
<1>4. P!Consensus.status = P!StatusOf[decided.last]
  BY FileRead DEF P!Init, P!Consensus
<1>5. told.revoked = {} /\ told.decisions = 0 /\ decided.count = 0 /\ told.early = {0}
  BY DEF P!Init
<1>6. AnswersGood /\ ScreensGood
  BY <1>3, <1>5 DEF AnswersGood, ScreensGood, GoodNow, Good
<1> QED BY <1>2, <1>4, <1>5, <1>6 DEF PanelInv

(* For any number of conversations, loads, changes and faults, in whatever *)
(* order answers arrive and are drawn over each other                      *)
(* (loadContinuityRecords): a conversation the page was told is revoked,   *)
(* and nobody has retained since, is shown by no answer but one that was   *)
(* on its way when the page was told.                                      *)
THEOREM RevokedIsGoneAlways == P!Spec => []P!RevokedIsGone
<1>1. PanelInv => P!RevokedIsGone
  BY DEF PanelInv, ScreensGood, GoodNow, Good, P!RevokedIsGone, P!Panels
<1> QED BY <1>1, PanelStart, PanelStep, PTL DEF P!Spec

(* For any number of decisions, by the page and by others, and of faults:  *)
(* if the page was told of the last decision, every answer given from then *)
(* on shows the consensus that is on file, and that decision's.            *)
THEOREM DecisionsShowAlways == P!Spec => []P!DecisionsShow
<1>1. PanelInv => P!DecisionsShow
  BY DEF PanelInv, ScreensGood, GoodNow, Good, P!DecisionsShow, P!Panels
<1> QED BY <1>1, PanelStart, PanelStep, PTL DEF P!Spec

-----------------------------------------------------------------------------
(* DashboardChat: the chat of the operator's page                          *)

Speech    == [who : {"operator", "dizzy"}, m : Messages, key : Nat]
ChatPages == [at : {"login", "dashboard", "leaving", "out"}, load : Nat, cookie : Nat, key : Nat,
              authoritative : BOOLEAN, generation : Nat, view : Seq(Speech)]
ChatTabs  == [key : Nat, history : Seq(Speech), writable : BOOLEAN]
ChatSends == [pc : {"new", "sent", "served", "shown", "dropped", "gone"}, key : Nat, generation : Nat,
              load : Nat, late : BOOLEAN,
              answer : {"none", "unauthorized", "refused", "reply", "out of scope", "lost"}]

ChatTypes ==
    /\ session \in [token : Nat, begun : Nat] /\ page \in ChatPages /\ store \in ChatTabs
    /\ minted \in Nat /\ sends \in [Messages -> ChatSends] /\ troubles \in Nat

(* Every key about has been minted, and what was said has one.             *)
KeysAreMinted ==
    /\ page.key <= minted /\ store.key <= minted /\ (page.authoritative => page.key # H!NoKey)
    /\ page.at \in {"dashboard", "leaving"} => page.load > 0
    /\ \A m \in Messages : /\ sends[m].key <= minted /\ sends[m].load <= page.load
                           /\ sends[m].load > 0 => sends[m].key # H!NoKey
Said == H!ToSet(page.view)
Remembered == H!ToSet(store.history)
(* While nothing has gone wrong, the tab's key is the page's and that of   *)
(* everything said.                                                        *)
OneKey ==
    troubles = 0 =>
       /\ store.writable /\ (page.key # H!NoKey => page.key = store.key)
       /\ \A b \in Remembered : b.key = store.key /\ b.key # H!NoKey
       /\ page.at = "dashboard" => \A b \in Said : b.key = store.key /\ b.key # H!NoKey
(* The keys of what is reset, or was sent before a logout, are given up.   *)
GivenUp(m) ==
    /\ sends[m].key # page.key
    /\ page.authoritative \/ sends[m].key # store.key
KeysAreGivenUp ==
    \A m \in Messages : sends[m].load > 0 /\ sends[m].load = page.load =>
       /\ sends[m].generation # page.generation => GivenUp(m)
       /\ page.at = "leaving" /\ ~sends[m].late => GivenUp(m)
GenerationsDiffer ==
    \A m, n \in Messages : sends[m].load > 0 /\ sends[m].load = sends[n].load
                           /\ sends[m].generation # sends[n].generation => sends[m].key # sends[n].key
ViewIsOfThisGeneration ==
    \A b \in Said : sends[b.m].load = page.load => sends[b.m].generation = page.generation
HistoryIsLate == page.at \in {"leaving", "out"} => \A b \in Remembered : sends[b.m].late
SessionIsOver ==
    /\ page.cookie <= session.begun
    /\ page.at = "out" /\ troubles = 0 => ~H!HasSession

ChatInv ==
    /\ ChatTypes /\ KeysAreMinted /\ OneKey /\ KeysAreGivenUp /\ GenerationsDiffer
    /\ ViewIsOfThisGeneration /\ HistoryIsLate /\ SessionIsOver

(* What is in a view or a history that grows.                              *)
LEMMA SpeechAdded ==
    ASSUME NEW s \in Seq(Speech), NEW b \in Speech
    PROVE  Append(s, b) \in Seq(Speech) /\ H!ToSet(Append(s, b)) = H!ToSet(s) \cup {b}
<1> DEFINE t == Append(s, b)
<1>1. /\ t \in Seq(Speech) /\ DOMAIN t = 1..(Len(s) + 1) /\ DOMAIN s = 1..Len(s) /\ Len(s) \in Nat
      /\ t[Len(s) + 1] = b /\ \A i \in DOMAIN s : t[i] = s[i]
  OBVIOUS
<1> HIDE DEF t
<1>2. H!ToSet(t) \subseteq H!ToSet(s) \cup {b}
  <2> SUFFICES ASSUME NEW i \in DOMAIN t PROVE t[i] \in H!ToSet(s) \cup {b}
    BY DEF H!ToSet
  <2>1. CASE i \in DOMAIN s
    BY <1>1, <2>1 DEF H!ToSet
  <2>2. CASE i = Len(s) + 1
    BY <1>1, <2>2
  <2> QED BY <1>1, <2>1, <2>2
<1>3. \A x \in H!ToSet(s) : x \in H!ToSet(t)
  <2> SUFFICES ASSUME NEW i \in DOMAIN s PROVE s[i] \in H!ToSet(t)
    BY DEF H!ToSet
  <2>1. i \in DOMAIN t /\ t[i] = s[i]
    BY <1>1
  <2> QED BY <2>1 DEF H!ToSet
<1>4. b \in H!ToSet(t)
  <2>1. Len(s) + 1 \in DOMAIN t
    BY <1>1
  <2> QED BY <1>1, <2>1 DEF H!ToSet
<1>5. Append(s, b) \in Seq(Speech)
  BY <1>1 DEF t
<1>6. H!ToSet(t) = H!ToSet(s) \cup {b}
  BY <1>2, <1>3, <1>4
<1> QED BY <1>5, <1>6 DEF t

LEMMA NothingSaid == <<>> \in Seq(Speech) /\ H!ToSet(<<>>) = {}
<1>1. <<>> \in Seq(Speech)
  OBVIOUS
<1>2. H!ToSet(<<>>) = {}
  BY DEF H!ToSet
<1> QED BY <1>1, <1>2

(* The key a message goes out with, and what asking for it changes: it is  *)
(* never one that was given up, and while nothing has gone wrong it is the *)
(* one of all that was said.                                               *)
LEMMA KeyAsked ==
    ASSUME ChatInv, H!Asks
    PROVE  /\ H!Key \in Nat /\ H!Key # H!NoKey /\ minted' \in Nat /\ minted <= minted' /\ H!Key <= minted'
           /\ H!Known \in ChatPages /\ H!Known.at = page.at /\ H!Known.load = page.load
           /\ H!Known.cookie = page.cookie /\ H!Known.generation = page.generation
           /\ H!Known.view = page.view /\ H!Known.key = H!Key
           /\ (page.authoritative => H!Known.authoritative) /\ (H!Known.authoritative => page.authoritative)
           /\ H!Kept \in ChatTabs /\ H!Kept.history = store.history /\ H!Kept.writable = store.writable
           /\ H!Kept.key \in {store.key, H!Key}
           /\ troubles = 0 => /\ H!Kept.key = H!Key
                              /\ store.key \in {H!NoKey, H!Key}
           /\ \A m \in Messages : sends[m].key <= minted /\ sends[m].key # H!NoKey /\ GivenUp(m)
                 => sends[m].key # H!Key
<1>1. /\ page \in ChatPages /\ store \in ChatTabs /\ minted \in Nat
      /\ page.key <= minted /\ store.key <= minted /\ (page.authoritative => page.key # H!NoKey)
      /\ page.key \in Nat /\ store.key \in Nat /\ sends \in [Messages -> ChatSends]
  BY DEF ChatInv, ChatTypes, KeysAreMinted, ChatPages, ChatTabs
<1>2. \/ page.authoritative /\ H!Key = page.key
      \/ ~page.authoritative /\ store.key # H!NoKey /\ H!Key = store.key
      \/ ~page.authoritative /\ store.key = H!NoKey /\ page.key # H!NoKey /\ H!Key = page.key
      \/ ~page.authoritative /\ store.key = H!NoKey /\ page.key = H!NoKey /\ H!Key = minted + 1
  BY DEF H!Key
<1>3. H!Key \in Nat /\ H!Key # H!NoKey
  BY <1>1, <1>2 DEF H!NoKey
<1>4. /\ minted' \in Nat /\ minted <= minted' /\ H!Key <= minted' /\ (page.authoritative => ~H!Mints)
      /\ H!Mints <=> (~page.authoritative /\ store.key = H!NoKey /\ page.key = H!NoKey)
  <2>1. minted' = IF H!Mints THEN minted + 1 ELSE minted
    BY DEF H!Asks
  <2> QED BY <1>1, <1>2, <2>1 DEF H!Mints
<1> PICK a \in BOOLEAN : a = (page.authoritative /\ ~H!Mints)
  OBVIOUS
<1>5. (a => page.authoritative) /\ (page.authoritative => a)
  BY <1>4
<1> DEFINE K == H!Key
<1>6. K \in Nat /\ K = H!Key
  BY <1>3
<1> HIDE DEF K
<1>7. H!Known = [page EXCEPT !.key = K, !.authoritative = a]
  BY <1>6 DEF H!Known
<1>8. /\ H!Known \in ChatPages /\ H!Known.at = page.at /\ H!Known.load = page.load
      /\ H!Known.cookie = page.cookie /\ H!Known.generation = page.generation
      /\ H!Known.view = page.view /\ H!Known.key = K
  BY <1>1, <1>6, <1>7 DEF ChatPages
<1>9. H!Known.authoritative = a
  BY <1>1, <1>7 DEF ChatPages
<1>10. /\ H!Kept \in ChatTabs /\ H!Kept.history = store.history /\ H!Kept.writable = store.writable
       /\ H!Kept.key = IF H!Mints /\ store.writable THEN K ELSE store.key
  <2>1. H!Kept = store \/ (H!Mints /\ store.writable /\ H!Kept = [store EXCEPT !.key = K])
        \/ (H!Mints /\ ~store.writable /\ H!Kept = [store EXCEPT !.key = store.key])
    BY <1>6 DEF H!Kept, H!Keeps
  <2>2. CASE H!Mints /\ store.writable
    <3>1. H!Kept = [store EXCEPT !.key = K]
      BY <1>6, <2>2 DEF H!Kept, H!Keeps
    <3> QED BY <1>1, <1>6, <2>2, <3>1 DEF ChatTabs
  <2>3. CASE H!Mints /\ ~store.writable
    <3>1. H!Kept = [store EXCEPT !.key = store.key]
      BY <2>3 DEF H!Kept, H!Keeps
    <3> QED BY <1>1, <2>3, <3>1 DEF ChatTabs
  <2>4. CASE ~H!Mints
    <3>1. H!Kept = store
      BY <2>4 DEF H!Kept
    <3> QED BY <1>1, <2>4, <3>1
  <2> QED BY <2>2, <2>3, <2>4
<1>11. ASSUME troubles = 0 PROVE H!Kept.key = H!Key /\ store.key \in {H!NoKey, H!Key}
  <2>1. store.writable /\ (page.key # H!NoKey => page.key = store.key)
    BY <1>11 DEF ChatInv, OneKey
  <2> QED BY <1>1, <1>2, <1>4, <1>6, <1>10, <2>1
<1>12. ASSUME NEW m \in Messages, sends[m].key <= minted, sends[m].key # H!NoKey, GivenUp(m)
       PROVE  sends[m].key # H!Key
  <2>1. sends[m].key \in Nat
    BY <1>1 DEF ChatSends
  <2> QED BY <1>1, <1>2, <1>12, <2>1 DEF GivenUp
<1> QED BY <1>3, <1>4, <1>5, <1>6, <1>8, <1>9, <1>10, <1>11, <1>12

(* What is said on a page, or only asked of it: the key of what is new is  *)
(* the one asked for, and nothing else changes hands.                      *)
SendKept(m)  == /\ sends'[m].key = sends[m].key /\ sends'[m].generation = sends[m].generation
            /\ sends'[m].load = sends[m].load /\ sends'[m].late = sends[m].late
SentNow(m)  == /\ sends'[m].key = H!Key /\ sends'[m].generation = page.generation
            /\ sends'[m].load = page.load /\ (page.at = "leaving" => sends'[m].late)
Spoken(new) ==
    /\ page' \in ChatPages /\ page'.at = page.at /\ page'.load = page.load /\ page'.cookie = page.cookie
    /\ page'.generation = page.generation /\ page'.key = H!Key
    /\ page'.authoritative <=> page.authoritative
    /\ store' \in ChatTabs /\ (store.writable => store'.writable) /\ store'.key \in {store.key, H!Key}
    /\ troubles = 0 => store'.key = H!Key
    /\ Said' \subseteq Said \cup new /\ Remembered' \subseteq Remembered \cup new

LEMMA SpokenHolds ==
    ASSUME ChatInv, H!Asks, NEW new \in SUBSET Speech, Spoken(new), page.at \in {"dashboard", "leaving"},
           UNCHANGED <<session, troubles>>, sends' \in [Messages -> ChatSends],
           \A m \in Messages : SendKept(m) \/ SentNow(m),
           \A b \in new : /\ b.key = H!Key
                          /\ sends'[b.m].load = page.load /\ sends'[b.m].generation = page.generation
                          /\ page.at = "leaving" => sends'[b.m].late
    PROVE  ChatInv'
<1>1. /\ page \in ChatPages /\ store \in ChatTabs /\ minted \in Nat /\ sends \in [Messages -> ChatSends]
      /\ \A m \in Messages : sends[m].key \in Nat /\ sends[m].load \in Nat
      /\ \A m \in Messages : sends[m].key <= minted
      /\ page.load \in Nat
  BY DEF ChatInv, ChatTypes, KeysAreMinted, ChatPages, ChatSends
<1>2. /\ H!Key \in Nat /\ H!Key # H!NoKey /\ minted' \in Nat /\ minted <= minted' /\ H!Key <= minted'
      /\ troubles = 0 => store.key \in {H!NoKey, H!Key}
      /\ \A m \in Messages : sends[m].key <= minted /\ sends[m].key # H!NoKey /\ GivenUp(m)
            => sends[m].key # H!Key
  BY KeyAsked
<1>3. \A b \in Said \cup Remembered : b \in Speech
  <2>1. page.view \in Seq(Speech) /\ store.history \in Seq(Speech)
    BY <1>1 DEF ChatPages, ChatTabs
  <2> QED BY <2>1 DEF Said, Remembered, H!ToSet
<1>4. ChatTypes'
  BY <1>2 DEF ChatInv, ChatTypes, Spoken
<1>5. KeysAreMinted'
  <2>1. page'.key <= minted' /\ page'.key # H!NoKey
    BY <1>2 DEF Spoken
  <2>2. store'.key <= minted'
    <3>1. store.key <= minted /\ store.key \in Nat
      BY <1>1 DEF ChatInv, KeysAreMinted, ChatTabs
    <3> QED BY <1>1, <1>2, <3>1 DEF Spoken
  <2>3. ASSUME NEW m \in Messages
        PROVE  /\ sends'[m].key <= minted' /\ sends'[m].load <= page'.load
               /\ sends'[m].load > 0 => sends'[m].key # H!NoKey
    <3>1. sends[m].key <= minted /\ sends[m].load <= page.load /\ (sends[m].load > 0 => sends[m].key # H!NoKey)
      BY DEF ChatInv, KeysAreMinted
    <3>2. page'.load = page.load
      BY DEF Spoken
    <3>3. CASE SendKept(m)
      BY <1>1, <1>2, <3>1, <3>2, <3>3 DEF SendKept
    <3>4. CASE SentNow(m)
      BY <1>1, <1>2, <3>2, <3>4 DEF SentNow
    <3> QED BY <3>3, <3>4
  <2>4. page'.at \in {"dashboard", "leaving"} => page'.load > 0
    BY DEF ChatInv, KeysAreMinted, Spoken
  <2> QED BY <2>1, <2>2, <2>3, <2>4 DEF KeysAreMinted, H!NoKey
<1>6. OneKey'
  <2> SUFFICES ASSUME troubles' = 0
               PROVE  /\ store'.writable /\ page'.key = store'.key
                      /\ \A b \in Remembered' : b.key = store'.key /\ b.key # H!NoKey
                      /\ page'.at = "dashboard" => \A b \in Said' : b.key = store'.key /\ b.key # H!NoKey
    BY DEF OneKey, H!NoKey
  <2>1. /\ troubles = 0 /\ store.writable /\ store'.writable /\ store'.key = H!Key /\ page'.key = H!Key
        /\ store.key \in {H!NoKey, H!Key} /\ page'.at = page.at
    BY <1>2 DEF ChatInv, OneKey, Spoken
  <2>2. \A b \in Remembered : b.key = H!Key
    BY <2>1 DEF ChatInv, OneKey
  <2>3. page.at = "dashboard" => \A b \in Said : b.key = H!Key
    BY <2>1 DEF ChatInv, OneKey
  <2>4. Said' \subseteq Said \cup new /\ Remembered' \subseteq Remembered \cup new
    BY DEF Spoken
  <2> QED BY <1>2, <2>1, <2>2, <2>3, <2>4
<1>7. ASSUME NEW m \in Messages, SendKept(m), sends[m].load > 0, sends[m].load = page.load, GivenUp(m)
      PROVE  sends[m].key # H!Key /\ GivenUp(m)'
  <2>1. sends[m].key # H!NoKey
    BY <1>7 DEF ChatInv, KeysAreMinted
  <2>2. sends[m].key # H!Key
    BY <1>1, <1>2, <1>7, <2>1
  <2>3. GivenUp(m)'
    BY <1>7, <2>2 DEF GivenUp, Spoken, SendKept
  <2> QED BY <2>2, <2>3
<1>8. KeysAreGivenUp'
  <2> SUFFICES ASSUME NEW m \in Messages, sends'[m].load > 0, sends'[m].load = page'.load,
                      sends'[m].generation # page'.generation \/ (page'.at = "leaving" /\ ~sends'[m].late)
               PROVE  GivenUp(m)'
    BY DEF KeysAreGivenUp
  <2>1. SendKept(m)
    BY DEF SentNow, Spoken
  <2>2. sends[m].load > 0 /\ sends[m].load = page.load
        /\ (sends[m].generation # page.generation \/ (page.at = "leaving" /\ ~sends[m].late))
    BY <2>1 DEF SendKept, Spoken
  <2>3. GivenUp(m)
    BY <2>2 DEF ChatInv, KeysAreGivenUp
  <2> QED BY <1>7, <2>1, <2>2, <2>3
<1>9. GenerationsDiffer'
  <2> SUFFICES ASSUME NEW m \in Messages, NEW n \in Messages, sends'[m].load > 0,
                      sends'[m].load = sends'[n].load, sends'[m].generation # sends'[n].generation
               PROVE  sends'[m].key # sends'[n].key
    BY DEF GenerationsDiffer
  <2>1. ASSUME NEW j \in Messages, NEW k \in Messages, SendKept(j), SentNow(k), sends'[j].load > 0,
               sends'[j].load = sends'[k].load, sends'[j].generation # sends'[k].generation
        PROVE  sends'[j].key # sends'[k].key
    <3>1. sends[j].load > 0 /\ sends[j].load = page.load /\ sends[j].generation # page.generation
      BY <2>1 DEF SendKept, SentNow
    <3>2. GivenUp(j)
      BY <3>1 DEF ChatInv, KeysAreGivenUp
    <3>3. sends[j].key # H!Key
      BY <1>7, <2>1, <3>1, <3>2
    <3> QED BY <2>1, <3>3 DEF SendKept, SentNow
  <2>2. CASE SendKept(m) /\ SendKept(n)
    BY <2>2 DEF ChatInv, GenerationsDiffer, SendKept
  <2>3. CASE SentNow(m) /\ SentNow(n)
    BY <2>3 DEF SentNow
  <2>4. CASE SendKept(m) /\ SentNow(n)
    BY <2>1, <2>4
  <2>5. CASE SentNow(m) /\ SendKept(n)
    <3>1. sends'[n].load > 0 /\ sends'[n].load = sends'[m].load /\ sends'[n].generation # sends'[m].generation
      OBVIOUS
    <3> QED BY <2>1, <2>5, <3>1
  <2> QED BY <2>2, <2>3, <2>4, <2>5
<1>10. ViewIsOfThisGeneration'
  <2> SUFFICES ASSUME NEW b \in Said', sends'[b.m].load = page'.load
               PROVE  sends'[b.m].generation = page'.generation
    BY DEF ViewIsOfThisGeneration
  <2>1. page'.load = page.load /\ page'.generation = page.generation /\ b \in Said \cup new
    BY DEF Spoken
  <2>2. CASE b \in new
    BY <2>1, <2>2
  <2>3. CASE b \in Said
    <3>1. b.m \in Messages
      BY <1>3, <2>3 DEF Speech
    <3>2. sends[b.m].load = page.load => sends[b.m].generation = page.generation
      BY <2>3 DEF ChatInv, ViewIsOfThisGeneration
    <3>3. SendKept(b.m) \/ SentNow(b.m)
      BY <3>1
    <3> QED BY <2>1, <3>2, <3>3 DEF SendKept, SentNow
  <2> QED BY <2>1, <2>2, <2>3
<1>11. HistoryIsLate'
  <2> SUFFICES ASSUME page'.at \in {"leaving", "out"}, NEW b \in Remembered' PROVE sends'[b.m].late
    BY DEF HistoryIsLate
  <2>1. page.at = "leaving" /\ b \in Remembered \cup new
    BY DEF Spoken
  <2>2. CASE b \in new
    BY <2>1, <2>2
  <2>3. CASE b \in Remembered
    <3>1. b.m \in Messages
      BY <1>3, <2>3 DEF Speech
    <3>2. sends[b.m].late
      BY <2>1, <2>3 DEF ChatInv, HistoryIsLate
    <3>3. SendKept(b.m) \/ SentNow(b.m)
      BY <3>1
    <3> QED BY <2>1, <3>2, <3>3 DEF SendKept, SentNow
  <2> QED BY <2>1, <2>2, <2>3
<1>12. SessionIsOver'
  BY DEF ChatInv, SessionIsOver, Spoken
<1> QED BY <1>4, <1>5, <1>6, <1>8, <1>9, <1>10, <1>11, <1>12 DEF ChatInv

LEMMA BubbleShown ==
    ASSUME ChatInv, H!Asks, NEW b \in Speech, H!Shows(b)
    PROVE  Spoken({b})
<1> DEFINE known == H!Known  kept == H!Kept
<1>1. /\ known \in ChatPages /\ known.at = page.at /\ known.load = page.load
      /\ known.cookie = page.cookie /\ known.generation = page.generation
      /\ known.view = page.view /\ known.key = H!Key
      /\ (page.authoritative => known.authoritative) /\ (known.authoritative => page.authoritative)
      /\ kept \in ChatTabs /\ kept.history = store.history /\ kept.writable = store.writable
      /\ kept.key \in {store.key, H!Key} /\ (troubles = 0 => kept.key = H!Key)
  BY KeyAsked
<1>2. page' = [known EXCEPT !.view = Append(@, b)]
      /\ store' = [kept EXCEPT !.history = IF kept.writable THEN Append(@, b) ELSE @]
  BY DEF H!Shows, H!Records
<1> HIDE DEF known, kept
<1>3. page.view \in Seq(Speech) /\ store.history \in Seq(Speech)
  BY <1>1 DEF ChatPages, ChatTabs
<1>4. /\ Append(page.view, b) \in Seq(Speech) /\ H!ToSet(Append(page.view, b)) = Said \cup {b}
      /\ Append(store.history, b) \in Seq(Speech) /\ H!ToSet(Append(store.history, b)) = Remembered \cup {b}
  BY <1>3, SpeechAdded DEF Said, Remembered
<1>5. PICK view \in Seq(Speech) : view = Append(page.view, b)
  BY <1>4
<1>6. page' = [known EXCEPT !.view = view]
  BY <1>1, <1>2, <1>5
<1>7. /\ page' \in ChatPages /\ page'.at = known.at /\ page'.load = known.load /\ page'.cookie = known.cookie
      /\ page'.generation = known.generation /\ page'.key = known.key /\ page'.view = view
  BY <1>1, <1>6 DEF ChatPages
<1>8. page'.authoritative = known.authoritative
  BY <1>1, <1>6 DEF ChatPages
<1>9. PICK past \in Seq(Speech) :
         past \in {store.history, Append(store.history, b)} /\ store' = [kept EXCEPT !.history = past]
  <2>1. CASE kept.writable
    <3>1. store' = [kept EXCEPT !.history = Append(store.history, b)]
      BY <1>1, <1>2, <2>1
    <3> QED BY <1>4, <3>1
  <2>2. CASE ~kept.writable
    <3>1. store' = [kept EXCEPT !.history = store.history]
      BY <1>1, <1>2, <2>2
    <3> QED BY <1>3, <3>1
  <2> QED BY <2>1, <2>2
<1>10. /\ store' \in ChatTabs /\ store'.key = kept.key /\ store'.history = past
  BY <1>1, <1>9 DEF ChatTabs
<1>11. store'.writable = kept.writable
  BY <1>1, <1>9 DEF ChatTabs
<1>12. Said' = H!ToSet(page'.view) /\ Remembered' = H!ToSet(store'.history)
  BY DEF Said, Remembered, H!ToSet
<1>13. Said' \subseteq Said \cup {b} /\ Remembered' \subseteq Remembered \cup {b}
  BY <1>4, <1>5, <1>7, <1>9, <1>10, <1>12 DEF Remembered
<1> QED BY <1>1, <1>7, <1>8, <1>10, <1>11, <1>13 DEF Spoken

LEMMA KeyOnlyAsked ==
    ASSUME ChatInv, H!Asks, page' = H!Known, store' = H!Kept
    PROVE  Spoken({})
<1>1. Said' = Said /\ Remembered' = Remembered
  <2>1. page'.view = page.view /\ store'.history = store.history
    BY KeyAsked
  <2> QED BY <2>1 DEF Said, Remembered, H!ToSet
<1> QED BY <1>1, KeyAsked DEF Spoken

(* An answer, or its loss, moves a message on and changes no key.          *)
LEMMA SendMoves ==
    ASSUME ChatTypes, NEW m \in Messages, NEW pc \in {"served", "shown", "dropped"},
           NEW answer \in {"none", "unauthorized", "refused", "reply", "out of scope", "lost"},
           sends' = [sends EXCEPT ![m].pc = pc, ![m].answer = answer]
    PROVE  sends' \in [Messages -> ChatSends] /\ \A k \in Messages : SendKept(k)
<1> PICK s \in ChatSends : s = sends[m]
  BY DEF ChatTypes
<1> DEFINE t == [s EXCEPT !.pc = pc, !.answer = answer]
<1>1. t \in ChatSends /\ t.key = s.key /\ t.generation = s.generation /\ t.load = s.load
  BY DEF ChatSends
<1>2. t.late = s.late
  BY DEF ChatSends
<1>3. sends' = [sends EXCEPT ![m] = t]
  BY DEF ChatTypes
<1> HIDE DEF t
<1>4. \A k \in Messages : sends'[k] = IF k = m THEN t ELSE sends[k]
  BY <1>3 DEF ChatTypes
<1>5. sends' \in [Messages -> ChatSends]
  BY <1>1, <1>3 DEF ChatTypes
<1>6. ASSUME NEW k \in Messages PROVE SendKept(k)
  <2>1. CASE k = m
    BY <1>1, <1>2, <1>4, <2>1 DEF SendKept
  <2>2. CASE k # m
    BY <1>4, <2>2 DEF SendKept
  <2> QED BY <2>1, <2>2
<1> QED BY <1>5, <1>6

LEMMA ChatSend ==
    ASSUME ChatInv, NEW m \in Messages, H!Send(m)
    PROVE  ChatInv'
<1> DEFINE b == H!Bubble("operator", m, H!Key)
<1>1. b \in Speech /\ b.key = H!Key /\ b.m = m
  BY KeyAsked DEF H!Send, H!Bubble, Speech
<1>2. H!Asks /\ H!Shows(b) /\ page.at \in {"dashboard", "leaving"} /\ UNCHANGED <<session, troubles>>
  BY DEF H!Send
<1> HIDE DEF b
<1>3. Spoken({b})
  BY <1>1, <1>2, BubbleShown
<1> PICK late \in BOOLEAN : late = (page.at = "leaving")
  OBVIOUS
<1> DEFINE t == [pc |-> "sent", key |-> H!Key, generation |-> page.generation, load |-> page.load,
                 late |-> late, answer |-> "none"]
<1>4. sends' = [sends EXCEPT ![m] = t]
  <2> DEFINE u == H!Unsent
  <2>1. u \in ChatSends
    BY DEF H!Unsent, ChatSends, H!NoKey
  <2>2. u.answer = "none"
    BY DEF H!Unsent
  <2>3. sends' = [sends EXCEPT ![m] = [u EXCEPT !.pc = "sent", !.key = H!Key, !.generation = page.generation,
                                                !.load = page.load, !.late = late]]
    BY DEF H!Send
  <2> HIDE DEF u
  <2> DEFINE v == [u EXCEPT !.pc = "sent", !.key = H!Key, !.generation = page.generation,
                            !.load = page.load, !.late = late]
  <2>4. /\ v = [x \in DOMAIN v |-> v[x]] /\ DOMAIN v = DOMAIN t /\ v.pc = "sent" /\ v.key = H!Key
        /\ v.generation = page.generation /\ v.load = page.load /\ v.answer = "none"
    BY <2>1, <2>2 DEF ChatSends
  <2>5. v.late = late
    BY <2>1 DEF ChatSends
  <2> HIDE DEF v
  <2>6. \A x \in DOMAIN t : v[x] = t[x]
    BY <2>4, <2>5
  <2>7. v = t
    BY <2>4, <2>6
  <2> QED BY <2>3, <2>7 DEF v
<1>5. t \in ChatSends
  <2>1. H!Key \in Nat /\ page.generation \in Nat /\ page.load \in Nat
    BY <1>2, KeyAsked DEF ChatInv, ChatTypes, ChatPages
  <2> QED BY <2>1 DEF ChatSends
<1>6. t.key = H!Key /\ t.generation = page.generation /\ t.load = page.load /\ (page.at = "leaving" => t.late)
  OBVIOUS
<1> HIDE DEF t
<1>7. sends' \in [Messages -> ChatSends] /\ \A k \in Messages : sends'[k] = IF k = m THEN t ELSE sends[k]
  BY <1>4, <1>5 DEF ChatInv, ChatTypes
<1>8. \A k \in Messages : SendKept(k) \/ SentNow(k)
  <2> SUFFICES ASSUME NEW k \in Messages PROVE SendKept(k) \/ SentNow(k)
    OBVIOUS
  <2>1. CASE k = m
    BY <1>6, <1>7, <2>1 DEF SentNow
  <2>2. CASE k # m
    BY <1>7, <2>2 DEF SendKept
  <2> QED BY <2>1, <2>2
<1>9. sends'[b.m].load = page.load /\ sends'[b.m].generation = page.generation
      /\ (page.at = "leaving" => sends'[b.m].late)
  BY <1>1, <1>6, <1>7
<1>10. {b} \in SUBSET Speech
  BY <1>1
<1>11. \A c \in {b} : /\ c.key = H!Key
                      /\ sends'[c.m].load = page.load /\ sends'[c.m].generation = page.generation
                      /\ page.at = "leaving" => sends'[c.m].late
  BY <1>1, <1>9
<1> QED BY <1>2, <1>3, <1>7, <1>8, <1>10, <1>11, SpokenHolds

LEMMA ChatAnswered ==
    ASSUME ChatInv, NEW m \in Messages, H!Answered(m)
    PROVE  ChatInv'
<1>1. /\ H!Asks /\ page.at \in {"dashboard", "leaving"} /\ UNCHANGED <<session, troubles>>
      /\ sends[m].load = page.load
  BY DEF H!Answered
<1>2. ChatTypes /\ page.load > 0
  BY <1>1 DEF ChatInv, KeysAreMinted
<1>3. CASE H!Belongs(m)
  <2> DEFINE b == H!Bubble("dizzy", m, sends[m].key)
  <2>1. H!Shows(b) /\ sends' = H!Done(m, "shown") /\ sends[m].generation = page.generation /\ sends[m].key = H!Key
    BY <1>3 DEF H!Answered, H!Belongs
  <2>2. b \in Speech /\ b.key = H!Key /\ b.m = m
    BY <1>1, <2>1, KeyAsked DEF H!Bubble, Speech
  <2> HIDE DEF b
  <2>3. Spoken({b})
    BY <1>1, <2>1, <2>2, BubbleShown
  <2>4. sends' = [sends EXCEPT ![m].pc = "shown", ![m].answer = "none"]
    BY <2>1 DEF H!Done
  <2>5. sends' \in [Messages -> ChatSends] /\ \A k \in Messages : SendKept(k)
    BY <1>2, <2>4, SendMoves
  <2>6. page.at = "leaving" => sends[m].late
    <3> SUFFICES ASSUME page.at = "leaving", ~sends[m].late PROVE FALSE
      OBVIOUS
    <3>1. GivenUp(m) /\ sends[m].key # H!NoKey /\ sends[m].key <= minted
      BY <1>1, <1>2 DEF ChatInv, KeysAreGivenUp, KeysAreMinted
    <3>2. sends[m].key # H!Key
      BY <1>1, <3>1, KeyAsked
    <3> QED BY <2>1, <3>2
  <2>7. \A c \in {b} : /\ c.key = H!Key
                       /\ sends'[c.m].load = page.load /\ sends'[c.m].generation = page.generation
                       /\ page.at = "leaving" => sends'[c.m].late
    BY <1>1, <2>1, <2>2, <2>5, <2>6 DEF SendKept
  <2>8. {b} \in SUBSET Speech
    BY <2>2
  <2> QED BY <1>1, <2>3, <2>5, <2>7, <2>8, SpokenHolds
<1>4. CASE ~H!Belongs(m)
  <2>1. page' = H!Known /\ store' = H!Kept /\ sends' = [sends EXCEPT ![m].pc = "dropped", ![m].answer = "none"]
    BY <1>4 DEF H!Answered, H!Done
  <2>2. sends' \in [Messages -> ChatSends] /\ \A k \in Messages : SendKept(k)
    BY <1>2, <2>1, SendMoves
  <2>3. Spoken({})
    BY <1>1, <2>1, KeyOnlyAsked
  <2> QED BY <1>1, <2>2, <2>3, SpokenHolds
<1> QED BY <1>3, <1>4

(* The other steps that leave every message with its key.                  *)
LEMMA ChatServed ==
    ASSUME ChatInv, NEW m \in Messages, H!Serve(m) \/ H!LoseRequest(m)
    PROVE  ChatInv'
<1>1. UNCHANGED <<session, page, store, minted>> /\ troubles' \in Nat /\ (troubles' = 0 => troubles = 0)
  <2>1. troubles \in Nat
    BY DEF ChatInv, ChatTypes
  <2>2. CASE H!Serve(m)
    BY <2>1, <2>2 DEF H!Serve
  <2>3. CASE H!LoseRequest(m)
    BY <2>1, <2>3 DEF H!LoseRequest
  <2> QED BY <2>2, <2>3
<1>2. \E a \in {"none", "unauthorized", "refused", "reply", "out of scope", "lost"} :
         sends' = [sends EXCEPT ![m].pc = "served", ![m].answer = a]
  <2>1. CASE H!Serve(m)
    <3>1. PICK text \in {"chat", "tool"} :
             sends' = [sends EXCEPT ![m].pc = "served",
                                    ![m].answer = IF ~H!HasSession THEN "unauthorized"
                                                  ELSE IF text = "tool" THEN "refused"
                                                  ELSE IF H!InScope(text) THEN "reply" ELSE "out of scope"]
      BY <2>1 DEF H!Serve
    <3> DEFINE a == IF ~H!HasSession THEN "unauthorized"
                    ELSE IF text = "tool" THEN "refused"
                    ELSE IF H!InScope(text) THEN "reply" ELSE "out of scope"
    <3>2. a \in {"none", "unauthorized", "refused", "reply", "out of scope", "lost"}
      OBVIOUS
    <3>3. sends' = [sends EXCEPT ![m].pc = "served", ![m].answer = a]
      BY <3>1
    <3> QED BY <3>2, <3>3
  <2>2. CASE H!LoseRequest(m)
    BY <2>2 DEF H!LoseRequest
  <2> QED BY <2>1, <2>2
<1>3. ChatTypes
  BY DEF ChatInv
<1>4. sends' \in [Messages -> ChatSends] /\ \A k \in Messages : SendKept(k)
  BY <1>2, <1>3, SendMoves
<1>5. Said' = Said /\ Remembered' = Remembered /\ \A b \in Said \cup Remembered : b.m \in Messages
  <2>1. page.view \in Seq(Speech) /\ store.history \in Seq(Speech)
    BY <1>3 DEF ChatTypes, ChatPages, ChatTabs
  <2>2. Said' = Said /\ Remembered' = Remembered
    BY <1>1 DEF Said, Remembered, H!ToSet
  <2>3. \A b \in Said \cup Remembered : b \in Speech
    BY <2>1 DEF Said, Remembered, H!ToSet
  <2> QED BY <2>2, <2>3 DEF Speech
<1>6. ChatTypes' /\ KeysAreMinted'
  BY <1>1, <1>4 DEF ChatInv, ChatTypes, KeysAreMinted, SendKept
<1>7. OneKey' /\ SessionIsOver'
  BY <1>1, <1>5 DEF ChatInv, OneKey, SessionIsOver, H!HasSession
<1>8. KeysAreGivenUp' /\ GenerationsDiffer'
  BY <1>1, <1>4 DEF ChatInv, KeysAreGivenUp, GenerationsDiffer, GivenUp, SendKept
<1>9. ViewIsOfThisGeneration' /\ HistoryIsLate'
  BY <1>1, <1>4, <1>5 DEF ChatInv, ViewIsOfThisGeneration, HistoryIsLate, SendKept
<1> QED BY <1>6, <1>7, <1>8, <1>9 DEF ChatInv

(* A page that is opened: nothing that is under way belongs to it.         *)
LEMMA PageOpened ==
    ASSUME ChatInv, NEW cookie \in Nat, H!Open(cookie), UNCHANGED <<store, minted, troubles>>,
           session' \in [token : Nat, begun : Nat], cookie <= session'.begun,
           sends' \in [Messages -> ChatSends],
           \A m \in Messages : SendKept(m) \/ (sends'[m].load = 0 /\ sends'[m].key = 0)
    PROVE  ChatInv'
<1>1. store \in ChatTabs /\ store.history \in Seq(Speech) /\ page.load \in Nat /\ minted \in Nat
      /\ troubles \in Nat /\ sends \in [Messages -> ChatSends]
  BY DEF ChatInv, ChatTypes, ChatTabs, ChatPages
<1>2. page' = [at |-> "dashboard", load |-> page.load + 1, cookie |-> cookie, key |-> 0, authoritative |-> FALSE,
               generation |-> 0, view |-> store.history]
  BY DEF H!Open, H!Fresh, H!NoKey
<1>3. page' \in ChatPages /\ page'.load = page.load + 1 /\ page'.key = 0 /\ page'.at = "dashboard"
      /\ page'.cookie = cookie /\ ~page'.authoritative
  BY <1>1, <1>2 DEF ChatPages
<1>4. Said' = Remembered /\ Remembered' = Remembered
  <2>1. page'.view = store.history /\ store'.history = store.history
    BY <1>2
  <2> QED BY <2>1 DEF Said, Remembered, H!ToSet
<1>5. \A b \in Remembered : b.m \in Messages
  <2>1. \A b \in Remembered : b \in Speech
    BY <1>1 DEF Remembered, H!ToSet
  <2> QED BY <2>1 DEF Speech
<1>6. \A m \in Messages : /\ sends'[m].load < page'.load /\ sends'[m].load \in Nat /\ sends'[m].key <= minted
                          /\ sends'[m].load > 0 => SendKept(m) /\ sends'[m].key # 0
  <2> SUFFICES ASSUME NEW m \in Messages
               PROVE  /\ sends'[m].load < page'.load /\ sends'[m].load \in Nat /\ sends'[m].key <= minted
                      /\ sends'[m].load > 0 => SendKept(m) /\ sends'[m].key # 0
    OBVIOUS
  <2>1. /\ sends[m].key <= minted /\ sends[m].load <= page.load /\ (sends[m].load > 0 => sends[m].key # 0)
        /\ sends[m].load \in Nat
    BY <1>1 DEF ChatInv, KeysAreMinted, ChatSends, H!NoKey
  <2>2. CASE SendKept(m)
    BY <1>1, <1>3, <2>1, <2>2 DEF SendKept
  <2>3. CASE sends'[m].load = 0 /\ sends'[m].key = 0
    BY <1>1, <1>3, <2>3
  <2> QED BY <2>2, <2>3
<1>7. ChatTypes' /\ KeysAreMinted'
  <2>1. store.key <= minted
    BY DEF ChatInv, KeysAreMinted
  <2> QED BY <1>1, <1>3, <1>6, <2>1 DEF ChatTypes, KeysAreMinted, H!NoKey
<1>8. OneKey' /\ SessionIsOver'
  BY <1>3, <1>4 DEF ChatInv, OneKey, SessionIsOver, H!NoKey
<1>9. KeysAreGivenUp'
  BY <1>1, <1>3, <1>6 DEF KeysAreGivenUp
<1>10. GenerationsDiffer'
  BY <1>6 DEF ChatInv, GenerationsDiffer, SendKept
<1>11. ViewIsOfThisGeneration'
  BY <1>1, <1>3, <1>4, <1>5, <1>6 DEF ViewIsOfThisGeneration
<1>12. HistoryIsLate'
  BY <1>3 DEF HistoryIsLate
<1> QED BY <1>7, <1>8, <1>9, <1>10, <1>11, <1>12 DEF ChatInv

LEMMA Abandoned ==
    ASSUME ChatTypes, H!Abandon
    PROVE  /\ sends' \in [Messages -> ChatSends]
           /\ \A m \in Messages : /\ SendKept(m) \/ (sends'[m].load = 0 /\ sends'[m].key = 0)
                                  /\ sends[m].late => sends'[m].late
<1>1. ASSUME NEW m \in Messages
      PROVE  /\ H!Gone(m) \in ChatSends /\ H!Gone(m).load = 0 /\ H!Gone(m).key = 0
             /\ sends[m].late => H!Gone(m).late
  <2> PICK late \in BOOLEAN : late = sends[m].late
    BY DEF ChatTypes, ChatSends
  <2> DEFINE u == H!Unsent
  <2>1. u \in ChatSends /\ u.load = 0 /\ u.key = 0
    BY DEF H!Unsent, ChatSends, H!NoKey
  <2>2. H!Gone(m) = [u EXCEPT !.pc = "gone", !.late = late]
    BY DEF H!Gone
  <2> HIDE DEF u
  <2>3. H!Gone(m) \in ChatSends /\ H!Gone(m).load = 0 /\ H!Gone(m).key = 0
    BY <2>1, <2>2 DEF ChatSends
  <2>4. H!Gone(m).late = late
    BY <2>1, <2>2 DEF ChatSends
  <2> QED BY <2>3, <2>4
<1>2. sends' = [m \in Messages |-> IF sends[m].pc = "new" THEN sends[m] ELSE H!Gone(m)]
  BY DEF H!Abandon
<1>3. ASSUME NEW m \in Messages
      PROVE  /\ sends'[m] \in ChatSends
             /\ SendKept(m) \/ (sends'[m].load = 0 /\ sends'[m].key = 0)
             /\ sends[m].late => sends'[m].late
  <2>1. CASE sends[m].pc = "new"
    <3>1. sends'[m] = sends[m]
      BY <1>2, <2>1
    <3> QED BY <3>1 DEF ChatTypes, SendKept
  <2>2. CASE sends[m].pc # "new"
    <3>1. sends'[m] = H!Gone(m)
      BY <1>2, <2>2
    <3> QED BY <1>1, <3>1
  <2> QED BY <2>1, <2>2
<1>4. sends' \in [Messages -> ChatSends]
  <2>1. sends' = [m \in Messages |-> sends'[m]]
    BY <1>2
  <2> QED BY <1>3, <2>1
<1> QED BY <1>3, <1>4

LEMMA ChatLogin == ASSUME ChatInv, H!Login PROVE ChatInv'
<1>1. session \in [token : Nat, begun : Nat] /\ sends \in [Messages -> ChatSends]
  BY DEF ChatInv, ChatTypes
<1>2. session' = [token |-> session.begun + 1, begun |-> session.begun + 1] /\ H!Open(session.begun + 1)
      /\ UNCHANGED <<store, minted, sends, troubles>>
  BY DEF H!Login, H!Begin
<1>3. /\ session.begun + 1 \in Nat /\ session' \in [token : Nat, begun : Nat]
      /\ session.begun + 1 <= session'.begun
  BY <1>1, <1>2
<1>4. \A m \in Messages : SendKept(m)
  BY <1>2 DEF SendKept
<1> QED BY <1>1, <1>2, <1>3, <1>4, PageOpened

LEMMA ChatReload == ASSUME ChatInv, H!Reload PROVE ChatInv'
<1>1. ChatTypes /\ page.cookie \in Nat /\ page.cookie <= session.begun
  BY DEF ChatInv, ChatTypes, ChatPages, SessionIsOver
<1>2. H!Abandon /\ UNCHANGED <<session, store, minted, troubles>> /\ page.at = "dashboard"
  BY DEF H!Reload
<1>3. /\ sends' \in [Messages -> ChatSends]
      /\ \A m \in Messages : SendKept(m) \/ (sends'[m].load = 0 /\ sends'[m].key = 0)
  BY <1>1, <1>2, Abandoned
<1>4. CASE H!HasSession
  <2>1. H!Open(page.cookie)
    BY <1>4 DEF H!Reload
  <2>2. session' \in [token : Nat, begun : Nat] /\ page.cookie <= session'.begun
    BY <1>1, <1>2 DEF ChatTypes
  <2> QED BY <1>1, <1>2, <1>3, <2>1, <2>2, PageOpened
<1>5. CASE ~H!HasSession
  <2>1. page' = [page EXCEPT !.at = "login", !.view = <<>>]
    BY <1>5 DEF H!Reload
  <2>2. /\ page' \in ChatPages /\ page'.at = "login" /\ page'.load = page.load /\ page'.cookie = page.cookie
        /\ page'.key = page.key /\ page'.generation = page.generation /\ page'.view = <<>>
    BY <1>1, <2>1, NothingSaid DEF ChatTypes, ChatPages
  <2>3. page'.authoritative = page.authoritative
    BY <1>1, <2>1 DEF ChatTypes, ChatPages
  <2>4. Said' = {} /\ Remembered' = Remembered
    <3>1. Said' = H!ToSet(page'.view) /\ Remembered' = H!ToSet(store'.history)
      BY DEF Said, Remembered, H!ToSet
    <3> QED BY <1>2, <2>2, <3>1, NothingSaid DEF Remembered
  <2>5. ChatTypes'
    BY <1>1, <1>2, <1>3, <2>2 DEF ChatTypes
  <2>6. KeysAreMinted'
    <3>1. ASSUME NEW m \in Messages
          PROVE  /\ sends'[m].key <= minted /\ sends'[m].load <= page.load
                 /\ sends'[m].load > 0 => sends'[m].key # H!NoKey
      <4>1. /\ sends[m].key <= minted /\ sends[m].load <= page.load
            /\ (sends[m].load > 0 => sends[m].key # H!NoKey)
        BY DEF ChatInv, KeysAreMinted
      <4>2. minted \in Nat /\ page.load \in Nat
        BY <1>1 DEF ChatTypes, ChatPages
      <4>3. CASE SendKept(m)
        BY <4>1, <4>3 DEF SendKept
      <4>4. CASE sends'[m].load = 0 /\ sends'[m].key = 0
        BY <4>2, <4>4
      <4> QED BY <1>3, <4>3, <4>4
    <3> QED BY <1>2, <2>2, <2>3, <3>1 DEF ChatInv, KeysAreMinted
  <2>7. OneKey' /\ SessionIsOver'
    BY <1>2, <2>2, <2>4 DEF ChatInv, OneKey, SessionIsOver
  <2>8. KeysAreGivenUp'
    <3> SUFFICES ASSUME NEW m \in Messages, sends'[m].load > 0, sends'[m].load = page'.load,
                        sends'[m].generation # page'.generation \/ (page'.at = "leaving" /\ ~sends'[m].late)
                 PROVE  GivenUp(m)'
      BY DEF KeysAreGivenUp
    <3>1. SendKept(m)
      BY <1>3
    <3>2. GivenUp(m)
      BY <2>2, <3>1 DEF SendKept, ChatInv, KeysAreGivenUp
    <3> QED BY <1>2, <2>2, <2>3, <3>1, <3>2 DEF SendKept, GivenUp
  <2>9. GenerationsDiffer'
    BY <1>3 DEF ChatInv, GenerationsDiffer, SendKept
  <2>10. ViewIsOfThisGeneration' /\ HistoryIsLate'
    BY <2>2, <2>4 DEF ViewIsOfThisGeneration, HistoryIsLate
  <2> QED BY <2>5, <2>6, <2>7, <2>8, <2>9, <2>10 DEF ChatInv
<1> QED BY <1>4, <1>5

(* The operator's other acts on the page, and what befalls its tab and its *)
(* session.                                                                *)
LEMMA ChatCleared == ASSUME ChatInv, H!Clear PROVE ChatInv'
<1>1. /\ page' = [page EXCEPT !.view = <<>>] /\ store' = [store EXCEPT !.history = <<>>]
      /\ UNCHANGED <<session, minted, sends, troubles>> /\ page \in ChatPages /\ store \in ChatTabs
  BY DEF H!Clear, ChatInv, ChatTypes
<1>2. /\ page' \in ChatPages /\ page'.at = page.at /\ page'.load = page.load /\ page'.cookie = page.cookie
      /\ page'.key = page.key /\ page'.generation = page.generation /\ page'.view = <<>>
      /\ store' \in ChatTabs /\ store'.key = store.key /\ store'.history = <<>>
  BY <1>1, NothingSaid DEF ChatPages, ChatTabs
<1>3. page'.authoritative = page.authoritative
  BY <1>1 DEF ChatPages
<1>4. store'.writable = store.writable
  BY <1>1 DEF ChatTabs
<1>5. Said' = {} /\ Remembered' = {}
  <2>1. Said' = H!ToSet(page'.view) /\ Remembered' = H!ToSet(store'.history)
    BY DEF Said, Remembered, H!ToSet
  <2> QED BY <1>2, <2>1, NothingSaid
<1>6. ChatTypes' /\ KeysAreMinted'
  BY <1>1, <1>2, <1>3 DEF ChatInv, ChatTypes, KeysAreMinted
<1>7. OneKey' /\ SessionIsOver'
  BY <1>1, <1>2, <1>4, <1>5 DEF ChatInv, OneKey, SessionIsOver, H!HasSession
<1>8. KeysAreGivenUp' /\ GenerationsDiffer'
  BY <1>1, <1>2, <1>3 DEF ChatInv, KeysAreGivenUp, GenerationsDiffer, GivenUp
<1>9. ViewIsOfThisGeneration' /\ HistoryIsLate'
  BY <1>5 DEF ViewIsOfThisGeneration, HistoryIsLate
<1> QED BY <1>6, <1>7, <1>8, <1>9 DEF ChatInv

LEMMA ChatReset == ASSUME ChatInv, H!Reset PROVE ChatInv'
<1>1. /\ page \in ChatPages /\ store \in ChatTabs /\ minted \in Nat /\ page.at = "dashboard"
      /\ page' = [page EXCEPT !.generation = @ + 1, !.key = minted + 1, !.authoritative = TRUE, !.view = <<>>]
      /\ store' = [H!Keeps(store, minted + 1) EXCEPT !.history = <<>>]
      /\ UNCHANGED <<session, sends, troubles>> /\ minted' = minted + 1
  BY DEF H!Reset, ChatInv, ChatTypes
<1>2. /\ page' \in ChatPages /\ page'.at = "dashboard" /\ page'.load = page.load /\ page'.cookie = page.cookie
      /\ page'.key = minted + 1 /\ page'.view = <<>>
  <2> PICK g \in Nat : g = page.generation + 1
    BY <1>1 DEF ChatPages
  <2> PICK k \in Nat : k = minted + 1
    BY <1>1
  <2>1. page' = [page EXCEPT !.generation = g, !.key = k, !.authoritative = TRUE, !.view = <<>>]
    BY <1>1
  <2> QED BY <1>1, <2>1, NothingSaid DEF ChatPages
<1>3. page'.authoritative = TRUE
  BY <1>1 DEF ChatPages
<1> DEFINE kept == H!Keeps(store, minted + 1)
<1>4. /\ kept \in ChatTabs /\ kept.writable = store.writable
      /\ kept.key = IF store.writable THEN minted + 1 ELSE store.key
  <2>1. CASE store.writable
    <3> PICK k \in Nat : k = minted + 1
      BY <1>1
    <3>1. kept = [store EXCEPT !.key = k]
      BY <2>1 DEF H!Keeps
    <3> HIDE DEF kept
    <3>2. kept \in ChatTabs /\ kept.key = k
      BY <1>1, <3>1 DEF ChatTabs
    <3>3. kept.writable = store.writable
      BY <1>1, <3>1 DEF ChatTabs
    <3> QED BY <2>1, <3>2, <3>3
  <2>2. CASE ~store.writable
    <3>1. kept = [store EXCEPT !.key = store.key]
      BY <2>2 DEF H!Keeps
    <3> QED BY <1>1, <2>2, <3>1 DEF ChatTabs
  <2> QED BY <2>1, <2>2
<1>5. store' = [kept EXCEPT !.history = <<>>]
  BY <1>1
<1> HIDE DEF kept
<1>6. store' \in ChatTabs /\ store'.key = kept.key /\ store'.history = <<>>
  BY <1>4, <1>5, NothingSaid DEF ChatTabs
<1>7. store'.writable = kept.writable
  BY <1>4, <1>5 DEF ChatTabs
<1>8. Said' = {} /\ Remembered' = {}
  <2>1. Said' = H!ToSet(page'.view) /\ Remembered' = H!ToSet(store'.history)
    BY DEF Said, Remembered, H!ToSet
  <2> QED BY <1>2, <1>6, <2>1, NothingSaid
<1>9. \A m \in Messages : /\ sends[m].key \in Nat /\ sends[m].key <= minted /\ sends[m].load <= page.load
                          /\ sends[m].load > 0 => sends[m].key # H!NoKey
  BY DEF ChatInv, ChatTypes, KeysAreMinted, ChatSends
<1>10. ChatTypes'
  BY <1>1, <1>2, <1>6 DEF ChatInv, ChatTypes
<1>11. KeysAreMinted'
  <2>1. store.key <= minted /\ store.key \in Nat /\ page.load > 0
    BY <1>1 DEF ChatInv, KeysAreMinted, ChatTabs
  <2>2. store'.key <= minted' /\ page'.key <= minted' /\ page'.key # H!NoKey
    BY <1>1, <1>2, <1>4, <1>6, <2>1 DEF H!NoKey
  <2>3. \A m \in Messages : /\ sends'[m].key <= minted' /\ sends'[m].load <= page'.load
                            /\ sends'[m].load > 0 => sends'[m].key # H!NoKey
    BY <1>1, <1>2, <1>9
  <2> QED BY <1>2, <2>1, <2>2, <2>3 DEF KeysAreMinted
<1>12. OneKey' /\ SessionIsOver'
  BY <1>1, <1>2, <1>4, <1>6, <1>7, <1>8 DEF ChatInv, OneKey, SessionIsOver
<1>13. KeysAreGivenUp' /\ GenerationsDiffer'
  BY <1>1, <1>2, <1>3, <1>9 DEF ChatInv, KeysAreGivenUp, GenerationsDiffer, GivenUp
<1>14. ViewIsOfThisGeneration' /\ HistoryIsLate'
  BY <1>8 DEF ViewIsOfThisGeneration, HistoryIsLate
<1> QED BY <1>10, <1>11, <1>12, <1>13, <1>14 DEF ChatInv

LEMMA ChatLogout == ASSUME ChatInv, H!Logout PROVE ChatInv'
<1>1. /\ page \in ChatPages /\ store \in ChatTabs /\ minted \in Nat /\ page.at = "dashboard"
      /\ page' = [page EXCEPT !.at = "leaving", !.key = 0, !.authoritative = FALSE]
      /\ store' = [store EXCEPT !.key = 0, !.history = <<>>]
      /\ UNCHANGED <<session, minted, sends, troubles>>
  BY DEF H!Logout, ChatInv, ChatTypes, H!NoKey
<1>2. /\ page' \in ChatPages /\ page'.at = "leaving" /\ page'.load = page.load /\ page'.cookie = page.cookie
      /\ page'.key = 0 /\ page'.view = page.view /\ page'.generation = page.generation
      /\ store' \in ChatTabs /\ store'.key = 0 /\ store'.history = <<>>
  BY <1>1, NothingSaid DEF ChatPages, ChatTabs
<1>3. page'.authoritative = FALSE
  BY <1>1 DEF ChatPages
<1>4. store'.writable = store.writable
  BY <1>1 DEF ChatTabs
<1>5. Said' = Said /\ Remembered' = {}
  <2>1. Said' = H!ToSet(page'.view) /\ Remembered' = H!ToSet(store'.history)
    BY DEF Said, Remembered, H!ToSet
  <2> QED BY <1>2, <2>1, NothingSaid DEF Said
<1>6. ChatTypes'
  BY <1>1, <1>2 DEF ChatInv, ChatTypes
<1>7. KeysAreMinted'
  BY <1>1, <1>2, <1>3 DEF ChatInv, KeysAreMinted
<1>8. OneKey' /\ SessionIsOver'
  BY <1>1, <1>2, <1>4, <1>5 DEF ChatInv, OneKey, SessionIsOver, H!NoKey
<1>9. KeysAreGivenUp'
  BY <1>1, <1>2 DEF ChatInv, KeysAreMinted, KeysAreGivenUp, GivenUp, H!NoKey
<1>10. GenerationsDiffer'
  BY <1>1 DEF ChatInv, GenerationsDiffer
<1>11. ViewIsOfThisGeneration' /\ HistoryIsLate'
  BY <1>1, <1>2, <1>5 DEF ChatInv, ViewIsOfThisGeneration, HistoryIsLate
<1> QED BY <1>6, <1>7, <1>8, <1>9, <1>10, <1>11 DEF ChatInv

LEMMA ChatLeave == ASSUME ChatInv, H!Leave PROVE ChatInv'
<1>1. /\ ChatTypes /\ page \in ChatPages /\ page.at = "leaving" /\ H!Abandon
      /\ page' = [page EXCEPT !.at = "out", !.view = <<>>] /\ UNCHANGED <<store, minted>>
  BY DEF H!Leave, ChatInv, ChatTypes
<1>2. /\ sends' \in [Messages -> ChatSends]
      /\ \A m \in Messages : /\ SendKept(m) \/ (sends'[m].load = 0 /\ sends'[m].key = 0)
                             /\ sends[m].late => sends'[m].late
  BY <1>1, Abandoned
<1>3. /\ page' \in ChatPages /\ page'.at = "out" /\ page'.load = page.load /\ page'.cookie = page.cookie
      /\ page'.key = page.key /\ page'.view = <<>> /\ page'.generation = page.generation
  BY <1>1, NothingSaid DEF ChatPages
<1>4. page'.authoritative = page.authoritative
  BY <1>1 DEF ChatPages
<1>5. /\ session' \in [token : Nat, begun : Nat] /\ session'.begun = session.begun
      /\ troubles' \in Nat /\ (troubles' = 0 => troubles = 0)
      /\ troubles' = 0 => ~(session'.token # H!NoKey /\ page.cookie = session'.token)
  <2>0. session \in [token : Nat, begun : Nat] /\ troubles \in Nat
    BY <1>1 DEF ChatTypes
  <2>1. CASE troubles' = troubles + 1 /\ UNCHANGED session
    BY <2>0, <2>1
  <2>2. CASE session' = [session EXCEPT !.token = IF H!HasSession THEN H!NoKey ELSE @] /\ UNCHANGED troubles
    BY <2>0, <2>2 DEF H!HasSession, H!NoKey
  <2> QED BY <2>1, <2>2 DEF H!Leave
<1>6. Said' = {} /\ Remembered' = Remembered /\ \A b \in Remembered : b.m \in Messages
  <2>1. Said' = H!ToSet(page'.view) /\ Remembered' = H!ToSet(store'.history)
    BY DEF Said, Remembered, H!ToSet
  <2>2. store.history \in Seq(Speech)
    BY <1>1 DEF ChatTypes, ChatTabs
  <2>3. \A b \in Remembered : b \in Speech
    BY <2>2 DEF Remembered, H!ToSet
  <2>4. \A b \in Remembered : b.m \in Messages
    BY <2>3 DEF Speech
  <2>5. Said' = {} /\ Remembered' = Remembered
    BY <1>1, <1>3, <2>1, NothingSaid DEF Remembered
  <2> QED BY <2>4, <2>5
<1>7. ChatTypes'
  BY <1>1, <1>2, <1>3, <1>5 DEF ChatTypes
<1>8. KeysAreMinted'
  <2>1. ASSUME NEW m \in Messages
        PROVE  /\ sends'[m].key <= minted /\ sends'[m].load <= page.load
               /\ sends'[m].load > 0 => sends'[m].key # H!NoKey
    <3>1. /\ sends[m].key <= minted /\ sends[m].load <= page.load
          /\ (sends[m].load > 0 => sends[m].key # H!NoKey)
      BY DEF ChatInv, KeysAreMinted
    <3>2. minted \in Nat /\ page.load \in Nat
      BY <1>1 DEF ChatTypes, ChatPages
    <3>3. CASE SendKept(m)
      BY <3>1, <3>3 DEF SendKept
    <3>4. CASE sends'[m].load = 0 /\ sends'[m].key = 0
      BY <3>2, <3>4
    <3> QED BY <1>2, <3>3, <3>4
  <2> QED BY <1>1, <1>3, <1>4, <2>1 DEF ChatInv, KeysAreMinted
<1>9. OneKey' /\ SessionIsOver'
  BY <1>1, <1>3, <1>5, <1>6 DEF ChatInv, OneKey, SessionIsOver, H!HasSession
<1>10. KeysAreGivenUp'
  <2> SUFFICES ASSUME NEW m \in Messages, sends'[m].load > 0, sends'[m].load = page'.load,
                      sends'[m].generation # page'.generation
               PROVE  GivenUp(m)'
    BY <1>3 DEF KeysAreGivenUp
  <2>1. SendKept(m)
    BY <1>2
  <2>2. GivenUp(m)
    BY <1>3, <2>1 DEF SendKept, ChatInv, KeysAreGivenUp
  <2> QED BY <1>1, <1>3, <1>4, <2>1, <2>2 DEF SendKept, GivenUp
<1>11. GenerationsDiffer'
  BY <1>2 DEF ChatInv, GenerationsDiffer, SendKept
<1>12. ViewIsOfThisGeneration' /\ HistoryIsLate'
  BY <1>1, <1>2, <1>6 DEF ChatInv, ViewIsOfThisGeneration, HistoryIsLate
<1> QED BY <1>7, <1>8, <1>9, <1>10, <1>11, <1>12 DEF ChatInv

LEMMA ChatBystanders ==
    ASSUME ChatInv, H!LoginElsewhere \/ H!Expire \/ H!StorageTurns
    PROVE  ChatInv'
<1>1. /\ session \in [token : Nat, begun : Nat] /\ store \in ChatTabs /\ troubles \in Nat
      /\ UNCHANGED <<page, minted, sends>> /\ page \in ChatPages
  BY DEF ChatInv, ChatTypes, H!LoginElsewhere, H!Expire, H!StorageTurns
<1>2. /\ session' \in [token : Nat, begun : Nat] /\ session.begun <= session'.begun
      /\ session' = session \/ session'.token = H!NoKey \/ session'.token > session.begun
  BY <1>1 DEF H!LoginElsewhere, H!Expire, H!StorageTurns, H!Begin, H!NoKey
<1>3. /\ store' \in ChatTabs /\ store'.key = store.key /\ store'.history = store.history /\ troubles' \in Nat
      /\ troubles' = 0 => store' = store /\ troubles = 0
  <2>1. CASE UNCHANGED <<store, troubles>>
    BY <1>1, <2>1
  <2>2. CASE H!StorageTurns
    <3> PICK w \in BOOLEAN : w = ~store.writable
      OBVIOUS
    <3>1. store' = [store EXCEPT !.writable = w] /\ troubles' = troubles + 1
      BY <2>2 DEF H!StorageTurns
    <3>2. store' \in ChatTabs /\ store'.key = store.key /\ store'.history = store.history
      BY <1>1, <3>1 DEF ChatTabs
    <3>3. troubles' \in Nat /\ troubles' # 0
      BY <1>1, <3>1
    <3> QED BY <3>2, <3>3
  <2> QED BY <2>1, <2>2 DEF H!LoginElsewhere, H!Expire
<1>4. Said' = Said /\ Remembered' = Remembered
  <2>1. Said' = H!ToSet(page'.view) /\ Remembered' = H!ToSet(store'.history)
    BY DEF Said, Remembered, H!ToSet
  <2> QED BY <1>1, <1>3, <2>1 DEF Said, Remembered
<1>5. ChatTypes' /\ KeysAreMinted'
  BY <1>1, <1>2, <1>3 DEF ChatInv, ChatTypes, KeysAreMinted
<1>6. OneKey'
  BY <1>1, <1>3, <1>4 DEF ChatInv, OneKey
<1>7. SessionIsOver'
  <2>1. page.cookie \in Nat /\ page.cookie <= session.begun
    BY <1>1 DEF ChatInv, SessionIsOver, ChatPages
  <2>2. page.cookie <= session'.begun
    BY <1>1, <1>2, <2>1
  <2>3. ASSUME page'.at = "out", troubles' = 0 PROVE ~(session'.token # H!NoKey /\ page'.cookie = session'.token)
    <3>1. ~(session.token # H!NoKey /\ page.cookie = session.token)
      BY <1>1, <1>3, <2>3 DEF ChatInv, SessionIsOver, H!HasSession
    <3> QED BY <1>1, <1>2, <2>1, <3>1
  <2> QED BY <1>1, <2>2, <2>3 DEF SessionIsOver, H!HasSession
<1>8. KeysAreGivenUp' /\ GenerationsDiffer'
  BY <1>1, <1>3 DEF ChatInv, KeysAreGivenUp, GenerationsDiffer, GivenUp
<1>9. ViewIsOfThisGeneration' /\ HistoryIsLate'
  BY <1>1, <1>4 DEF ChatInv, ViewIsOfThisGeneration, HistoryIsLate
<1> QED BY <1>5, <1>6, <1>7, <1>8, <1>9 DEF ChatInv

LEMMA ChatStep == ASSUME ChatInv, [H!Next]_H!chatting PROVE ChatInv'
<1>1. CASE UNCHANGED H!chatting
  <2>1. UNCHANGED <<session, page, store, minted, sends, troubles>>
    BY <1>1 DEF H!chatting
  <2>2. Said' = Said /\ Remembered' = Remembered
    BY <2>1 DEF Said, Remembered, H!ToSet
  <2> QED BY <2>1, <2>2 DEF ChatInv, ChatTypes, KeysAreMinted, OneKey, KeysAreGivenUp, GivenUp, GenerationsDiffer,
             ViewIsOfThisGeneration, HistoryIsLate, SessionIsOver, H!HasSession
<1>2. ASSUME NEW m \in Messages, H!Send(m) \/ H!Serve(m) \/ H!Answered(m) \/ H!LoseRequest(m)
      PROVE  ChatInv'
  BY <1>2, ChatSend, ChatServed, ChatAnswered
<1> QED BY <1>1, <1>2, ChatLogin, ChatReload, ChatCleared, ChatReset, ChatLogout, ChatLeave, ChatBystanders
        DEF H!Next

LEMMA ChatStart == H!Init => ChatInv
<1> SUFFICES ASSUME H!Init PROVE ChatInv
  OBVIOUS
<1>1. page = [H!Fresh(0, H!NoKey, <<>>) EXCEPT !.at = "login"]
  BY DEF H!Init
<1> DEFINE fresh == H!Fresh(0, H!NoKey, <<>>)
<1>2. fresh \in ChatPages /\ fresh.load = 0 /\ fresh.cookie = 0 /\ fresh.key = 0 /\ fresh.view = <<>>
  BY NothingSaid DEF H!Fresh, ChatPages, H!NoKey
<1>3. fresh.authoritative = FALSE
  BY DEF H!Fresh
<1> HIDE DEF fresh
<1>4. /\ page \in ChatPages /\ page.at = "login" /\ page.load = 0 /\ page.cookie = 0 /\ page.key = 0
      /\ page.view = <<>>
  BY <1>1, <1>2 DEF ChatPages, fresh
<1>5. page.authoritative = FALSE
  BY <1>1, <1>2, <1>3 DEF ChatPages, fresh
<1>6. /\ H!Unsent \in ChatSends /\ H!Unsent.key = 0 /\ H!Unsent.load = 0
  BY DEF H!Unsent, ChatSends, H!NoKey
<1>7. /\ session \in [token : Nat, begun : Nat] /\ session.begun = 0
      /\ store \in ChatTabs /\ store.key = 0 /\ store.history = <<>> /\ minted = 0 /\ troubles = 0
      /\ sends \in [Messages -> ChatSends] /\ \A m \in Messages : sends[m].key = 0 /\ sends[m].load = 0
  BY <1>6, NothingSaid DEF H!Init, ChatTabs, H!NoKey
<1>8. store.writable
  BY DEF H!Init
<1>9. Said = {} /\ Remembered = {}
  BY <1>4, <1>7, NothingSaid DEF Said, Remembered
<1>10. ChatTypes /\ KeysAreMinted
  BY <1>4, <1>5, <1>7 DEF ChatTypes, KeysAreMinted
<1>11. OneKey /\ KeysAreGivenUp /\ GenerationsDiffer
  BY <1>4, <1>7, <1>8, <1>9 DEF OneKey, KeysAreGivenUp, GenerationsDiffer, H!NoKey
<1>12. ViewIsOfThisGeneration /\ HistoryIsLate /\ SessionIsOver
  BY <1>4, <1>7, <1>9 DEF ViewIsOfThisGeneration, HistoryIsLate, SessionIsOver
<1> QED BY <1>10, <1>11, <1>12 DEF ChatInv

(* Whatever is sent, answered late, lost, cleared, reset or reloaded, and  *)
(* whoever logs in, what the operator's page shows and what its tab keeps  *)
(* (dashboard.js) is of the one conversation whose key the next message    *)
(* goes out with, while the storage takes writes and until the page is     *)
(* being left.                                                             *)
THEOREM ViewIsOfOneConversationAlways == H!Spec => []H!ViewIsOfOneConversation
<1>1. ChatInv => H!ViewIsOfOneConversation
  <2> SUFFICES ASSUME ChatInv, troubles = 0, page.at = "dashboard", NEW b \in Said \cup Remembered
               PROVE  b.key = H!Key
    BY DEF H!ViewIsOfOneConversation, H!Bubbles, Said, Remembered
  <2>1. /\ b.key = store.key /\ b.key # H!NoKey /\ (page.key # H!NoKey => page.key = store.key)
        /\ (page.authoritative => page.key # H!NoKey)
    BY DEF ChatInv, OneKey, KeysAreMinted
  <2> QED BY <2>1 DEF H!Key
<1> QED BY <1>1, ChatStart, ChatStep, PTL DEF H!Spec

(* A conversation that was reset stays reset, even when the tab's storage  *)
(* fails: handleSend never sends its key from that page again, and no      *)
(* answer to it is shown, however late it comes.                           *)
THEOREM ResetHoldsAlways == H!Spec => []H!ResetHolds
<1>1. ChatInv => H!ResetHolds
  BY DEF ChatInv, GenerationsDiffer, ViewIsOfThisGeneration, H!ResetHolds, Said
<1> QED BY <1>1, ChatStart, ChatStep, PTL DEF H!Spec

(* A logout leaves nothing of what was said before it in the tab, even if  *)
(* answers arrive while the page is being left, and ends the session       *)
(* unless the request was lost.                                            *)
THEOREM LogoutIsCompleteAlways == H!Spec => []H!LogoutIsComplete
<1>1. ChatInv => H!LogoutIsComplete
  BY DEF ChatInv, HistoryIsLate, SessionIsOver, H!LogoutIsComplete, Remembered
<1> QED BY <1>1, ChatStart, ChatStep, PTL DEF H!Spec

-----------------------------------------------------------------------------
(* The worker and what stands around it, side by side, as MCWorker has them*)

LEMMA EachStep ==
    ASSUME [MCNext]_working
    PROVE  [Next]_vars /\ [T!Next]_(T!tooling) /\ [C!Next]_(C!core) /\ [H!Next]_(H!chatting) /\ [P!Next]_(P!panels)
<1>1. CASE part \in {"queue", "fleet"} /\ TeamNext /\ UNCHANGED <<tools, core, chat, panes>>
  <2>1. Next
    BY <1>1, WorkerAssumption DEF TeamNext, Team, Next
  <2> QED BY <1>1, <2>1 DEF tools, core, chat, panes, T!tooling, C!core, H!chatting, P!panels
<1>2. CASE part = "tools" /\ T!Next /\ UNCHANGED <<vars, core, chat, panes>>
  BY <1>2 DEF core, chat, panes, C!core, H!chatting, P!panels
<1>3. CASE part = "core" /\ C!Next /\ UNCHANGED <<vars, tools, chat, panes>>
  BY <1>3 DEF tools, chat, panes, T!tooling, H!chatting, P!panels
<1>4. CASE part = "chat" /\ H!Next /\ UNCHANGED <<vars, tools, core, panes>>
  BY <1>4 DEF tools, core, panes, T!tooling, C!core, P!panels
<1>5. CASE part = "panels" /\ P!Next /\ UNCHANGED <<vars, tools, core, chat>>
  BY <1>5 DEF tools, core, chat, T!tooling, C!core, H!chatting
<1>6. CASE UNCHANGED working
  BY <1>6 DEF working, tools, core, chat, panes, T!tooling, C!core, H!chatting, P!panels
<1> QED BY <1>1, <1>2, <1>3, <1>4, <1>5, <1>6 DEF MCNext

LEMMA EachAlways ==
    MCSpec => Spec /\ T!Spec /\ C!Spec /\ H!Spec /\ P!Spec
<1>1. MCInit => Init /\ T!Init /\ C!Init /\ H!Init /\ P!Init
  BY DEF MCInit
<1> QED BY <1>1, EachStep, PTL DEF MCSpec, Spec, T!Spec, C!Spec, H!Spec, P!Spec

(* A step of a worker leaves the others where they are.                    *)
LEMMA StepsAlone ==
    ASSUME TypeOK, NEW w \in Workers, Step(w) \/ Renew(w) \/ Crash(w), NEW v \in Workers, v # w
    PROVE  frame'[v] = frame[v]
<1>1. ASSUME NEW f, Reply(w, f) PROVE frame'[v] = frame[v]
  BY <1>1 DEF Reply, TypeOK
<1>2. CASE Recovery(w)
  BY <1>1, <1>2 DEF Recovery, StartRecovery, SkipRecovery, RecoverNext, RecoveryDone, Requeue, Push, TypeOK
<1>3. CASE Shared(w)
  BY <1>1, <1>3 DEF Shared, MarkDead, FileDlq, Notify, ScheduleRetry, Acknowledge
<1>4. CASE Cycle(w)
  BY <1>1, <1>4 DEF Cycle, MoveDueDelayed, ClaimNothing, ClaimStale, Claim, Fetch, MarkRunning, CallTool,
     ToolReturns, MarkSucceeded, CatchRetry, CatchDead, MarkRetry, TypeOK
<1>5. CASE Rejected(w) \/ Renew(w) \/ Crash(w)
  BY <1>5 DEF Rejected, Renew, Crash, local, TypeOK
<1> QED BY <1>2, <1>3, <1>4, <1>5 DEF Step

(* The wrecked queue has one worker: the others rest.                      *)
Wrecks == part = "queue" => OthersRest(w1) /\ AccInv

LEMMA WrecksStep ==
    ASSUME TypeOK, TypeOK', Wrecks, [MCNext]_working PROVE Wrecks'
<1> SUFFICES ASSUME part = "queue" PROVE OthersRest(w1)' /\ AccInv'
  BY DEF Wrecks, MCNext, working
<1>1. w1 \in Workers /\ OthersRest(w1) /\ AccInv
  BY WorkerAssumption DEF Wrecks
<1>2. TeamNext \/ UNCHANGED vars
  BY DEF MCNext, working
<1>3. \/ \E i \in Jobs : Enqueue(i) \/ LeaseExpires(i)
      \/ Step(w1) \/ Renew(w1) \/ Crash(w1)
      \/ UNCHANGED vars
  BY <1>2 DEF TeamNext, Team
<1>4. AccInv'
  BY <1>1, <1>3, StepKeepsJobs
<1>5. ASSUME NEW v \in Workers, v # w1 PROVE frame'[v] = Free("top")
  <2>1. frame[v] = Free("top")
    BY <1>1, <1>5 DEF OthersRest
  <2>2. CASE Step(w1) \/ Renew(w1) \/ Crash(w1)
    BY <1>1, <1>5, <2>1, <2>2, StepsAlone
  <2>3. CASE (\E i \in Jobs : Enqueue(i) \/ LeaseExpires(i)) \/ UNCHANGED vars
    BY <2>1, <2>3 DEF Enqueue, LeaseExpires, vars, local
  <2> QED BY <1>3, <2>2, <2>3
<1>6. Free("top") = Free("top")'
  BY DEF Free, Nothing
<1> QED BY <1>4, <1>5, <1>6 DEF OthersRest

(* Whatever the tools are allowed, whatever is proposed and whichever of   *)
(* the faults the queue of one worker meets: no job is lost, no fetch goes *)
(* beyond its zone, and the core and its ports say the same.               *)
THEOREM NothingStrays == MCSpec => []NothingGoesAstray
<1>1. MCInit => Wrecks
  BY JobsAtStart DEF MCInit, Wrecks, OthersRest, Init
<1>2. MCSpec => []TypeOK
  BY EachAlways, TypeCorrect, PTL
<1>3. T!Spec => []T!FetchStaysWithin
  BY WorkerAssumption, FetchStaysWithinAlways DEF WorkerAssumption
<1>4. C!Spec => [](C!GrantsAgree /\ C!DecaysAgree /\ C!SievesAgree)
  BY WorkerAssumption, CoreRulesAgree DEF WorkerAssumption
<1>5. Wrecks => (part = "queue" => Accounted)
  BY DEF Wrecks, AccInv, Accounted, Stocked
<1>6. /\ part = "queue" => Accounted
      /\ T!FetchStaysWithin /\ C!GrantsAgree /\ C!DecaysAgree /\ C!SievesAgree
      => NothingGoesAstray
  BY DEF NothingGoesAstray
<1> QED BY <1>1, <1>2, <1>3, <1>4, <1>5, <1>6, WrecksStep, EachAlways, PTL DEF MCSpec

(* For any jobs, tools and proposals: a dead job is on file unless there   *)
(* was a fault, a tool's run is in the chain of receipts, and a verdict is *)
(* the proposal's own.                                                     *)
THEOREM RecordHolds == MCSpec => []RecordIsTrue
<1>1. T!Spec => []T!RunsAreOnRecord
  BY WorkerAssumption, RunsAreOnRecordAlways DEF WorkerAssumption
<1>2. T!Spec => []T!ReceiptsAreChained
  BY WorkerAssumption, ReceiptsAreChainedAlways DEF WorkerAssumption
<1>3. DeathsOnRecord /\ T!RunsAreOnRecord /\ T!ReceiptsAreChained /\ C!ResultsAreTheirOwn => RecordIsTrue
  BY DEF RecordIsTrue
<1> QED BY <1>1, <1>2, <1>3, DeathsAreOnRecord, ResultsAreTheirOwnAlways, EachAlways, PTL

(* However many messages, sessions, loads, handlers and decisions there    *)
(* are: the chat shows one conversation, none that was reset or left, and  *)
(* answers given after the page heard of a revocation or a decision show   *)
(* no record that was revoked and the decision made last.                  *)
THEOREM PageHolds == MCSpec => []PageIsTrue
<1>1. ASSUME H!ViewIsOfOneConversation, H!ResetHolds, H!LogoutIsComplete, P!RevokedIsGone, P!DecisionsShow
      PROVE  PageIsTrue
  <2>1. CASE part = "chat"
    <3>1. PageIsTrue <=> (H!ViewIsOfOneConversation /\ H!ResetHolds /\ H!LogoutIsComplete)
      BY <2>1 DEF PageIsTrue
    <3> QED BY <1>1, <3>1
  <2>2. CASE part = "panels"
    <3>1. PageIsTrue <=> (P!RevokedIsGone /\ P!DecisionsShow)
      BY <2>2 DEF PageIsTrue
    <3> QED BY <1>1, <3>1
  <2>3. CASE part \notin {"chat", "panels"}
    BY <2>3 DEF PageIsTrue
  <2> QED BY <2>1, <2>2, <2>3
<1> QED BY <1>1, ViewIsOfOneConversationAlways, ResetHoldsAlways, LogoutIsCompleteAlways,
           RevokedIsGoneAlways, DecisionsShowAlways, EachAlways, PTL
=============================================================================
