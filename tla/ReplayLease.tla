---------------------------- MODULE ReplayLease ------------------------------
(***************************************************************************)
(* The replay leases of lib/sqlite_operational_store.mjs: a request with a *)
(* lease key, an idempotency key and a fingerprint of the operation takes  *)
(* the lease, has its effect, and records that it completed or failed.     *)
(* Every operation is one IMMEDIATE transaction, hence one step.           *)
(***************************************************************************)
EXTENDS Integers

CONSTANTS
    Owners,        \* the processes that acquire leases
    Keys,          \* lease keys
    Idems,         \* idempotency keys
    Fingerprints,  \* of the requested operation
    Requests,      \* what callers ask for: a lease key, an idempotency key, a fingerprint
    MaxFailures,   \* how often an effect is reported failed
    MaxFaults,        \* how many faults occur
    None

ReplayAssumption ==
    /\ MaxFailures \in Nat /\ MaxFaults \in Nat /\ None \notin Owners \cup Idems \cup Fingerprints
    /\ Requests \subseteq [key : Keys, idem : Idems \cup {None}, print : Fingerprints]

VARIABLES
    row,     \* the table replay_leases
    frame,   \* the request each owner is serving
    faults,  \* the faults so far
    effects, \* history: how often each lease key's effect happened
    breaks,  \* history: how often each lease lapsed or was failed
    done     \* history: the requests whose effect happened

vars == <<row, frame, faults, effects, breaks, done>>

NoRow    == [status |-> "none", owner |-> None, idem |-> None, print |-> None, valid |-> FALSE]
Idle     == [stage |-> "idle", req |-> None]

Init ==
    /\ row = [k \in Keys |-> NoRow] /\ frame = [o \in Owners |-> Idle] /\ faults = 0
    /\ effects = [k \in Keys |-> 0] /\ breaks = [k \in Keys |-> 0]
    /\ done = {}

Fault == faults < MaxFaults /\ faults' = faults + 1

-----------------------------------------------------------------------------
(* acquireReplayLease.  A conflicting request is an exception.             *)
ConflictsByPrint(r) == row[r.key].status # "none" /\ row[r.key].print # r.print
Conflicts(r) ==
    \/ r.idem # None /\ \E k \in Keys \ {r.key} : row[k].idem = r.idem
    \/ /\ row[r.key].status # "none"
       /\ \/ row[r.key].print # r.print
          \/ r.idem # None /\ row[r.key].idem \notin {None, r.idem}

Held(k)        == row[k].status = "leased" /\ row[k].valid

Leased(o, r, old) ==
    [status |-> "leased", owner |-> o, print |-> r.print, valid |-> TRUE,
     idem |-> IF old.idem = None THEN r.idem ELSE old.idem]

(* The row is inserted, or taken over once it has lapsed or failed; it     *)
(* keeps the first idempotency key it was given.  A held or completed      *)
(* lease changes nothing: its owner is named, its result replayed.         *)
Acquire(o, r) ==
    /\ frame[o] = Idle /\ ~Conflicts(r)
    /\ row[r.key].status # "completed" /\ ~Held(r.key)
    /\ row' = [row EXCEPT ![r.key] = Leased(o, r, @)]
    /\ frame' = [frame EXCEPT ![o] = [stage |-> "acquired", req |-> r]]
    /\ UNCHANGED <<faults, effects, breaks, done>>

(* The caller has its effect, not inside a transaction.                    *)
Effect(o) ==
    /\ frame[o].stage = "acquired"
    /\ effects' = [effects EXCEPT ![frame[o].req.key] = @ + 1]
    /\ done' = done \cup {frame[o].req}
    /\ frame' = [frame EXCEPT ![o].stage = "done"]
    /\ UNCHANGED <<row, faults, breaks>>

(* completeReplayLease and failReplayLease: only for the owner in the row  *)
(* and while it is leased; whether it has lapsed is not asked.             *)
MayCloseAny(o, k) == row[k].status = "leased"
MayClose(o, k)    == row[k].owner = o /\ row[k].status = "leased"

CompleteReplayLease(o) ==
    /\ frame[o].stage = "done"
    /\ LET k == frame[o].req.key
       IN  row' = IF MayClose(o, k) THEN [row EXCEPT ![k].status = "completed"] ELSE row
    /\ frame' = [frame EXCEPT ![o] = Idle]
    /\ UNCHANGED <<faults, effects, breaks, done>>

FailReplayLease(o) ==
    /\ frame[o].stage \in {"acquired", "done"}
    /\ LET k == frame[o].req.key
       IN  IF MayClose(o, k)
           THEN /\ breaks[k] < MaxFailures
                /\ row'    = [row EXCEPT ![k].status = "failed"]
                /\ breaks' = [breaks EXCEPT ![k] = @ + 1]
           ELSE UNCHANGED <<row, breaks>>
    /\ frame' = [frame EXCEPT ![o] = Idle]
    /\ UNCHANGED <<faults, effects, done>>

(* Time passes a lease; while its owner is at work this is a fault.        *)
Lapse(k) ==
    /\ row[k].status = "leased" /\ row[k].valid
    /\ IF \E o \in Owners : frame[o] # Idle /\ frame[o].req.key = k
       THEN Fault ELSE UNCHANGED faults
    /\ row' = [row EXCEPT ![k].valid = FALSE]
    /\ breaks' = [breaks EXCEPT ![k] = @ + 1]
    /\ UNCHANGED <<frame, effects, done>>

Crash(o) ==
    /\ frame[o] # Idle /\ Fault
    /\ frame' = [frame EXCEPT ![o] = Idle]
    /\ UNCHANGED <<row, effects, breaks, done>>

Next ==
    \/ \E o \in Owners, r \in Requests : Acquire(o, r)
    \/ \E o \in Owners : Effect(o) \/ CompleteReplayLease(o) \/ FailReplayLease(o) \/ Crash(o)
    \/ \E k \in Keys : Lapse(k)

(* Callers go on; time passes; somebody repeats the request until it is    *)
(* answered.                                                               *)
Fairness ==
    /\ \A o \in Owners : WF_vars(Effect(o) \/ CompleteReplayLease(o))
    /\ \A k \in Keys : /\ SF_vars(\E o \in Owners, r \in Requests : r.key = k /\ Acquire(o, r))
                       /\ WF_vars(Lapse(k))

Spec == Init /\ [][Next]_vars /\ Fairness

-----------------------------------------------------------------------------
TypeOK ==
    /\ row \in [Keys -> [status : {"none", "leased", "completed", "failed"},
                         owner : Owners \cup {None}, idem : Idems \cup {None},
                         print : Fingerprints \cup {None}, valid : BOOLEAN]]
    /\ \A k \in Keys : row[k] # NoRow => row[k].owner # None /\ row[k].print # None
    /\ frame \in [Owners -> {Idle} \cup [stage : {"acquired", "done"}, req : Requests]]
    /\ faults \in 0 .. MaxFaults
    /\ effects \in [Keys -> Nat] /\ breaks \in [Keys -> Nat]
    /\ done \subseteq Requests

(* The effect under a lease key happens once more only for each time the   *)
(* lease lapsed or its owner reported failure.                             *)
EffectsNeedBreaks == \A k \in Keys : effects[k] <= 1 + breaks[k]

(* An idempotency key never guards two operations, whether they reuse the  *)
(* key for another lease or the lease for another fingerprint, although a  *)
(* lease may be acquired first without a key.                              *)
OneOperation ==
    \A r, s \in done : /\ r.key = s.key => r.print = s.print
                       /\ r.idem = s.idem /\ r.idem # None => r.key = s.key

(* A completed lease stays as it is, and it is completed by the owner that *)
(* acquired it last, once its effect has happened: an owner that lost the  *)
(* lease cannot answer for the request.                                    *)
ResultsAreFinal == [][
    \A k \in Keys :
       IF row[k].status = "completed" THEN row'[k] = row[k]
       ELSE row'[k].status = "completed" =>
               LET o == row[k].owner
               IN  frame[o].stage = "done" /\ frame[o].req.key = k /\ frame'[o] = Idle
    ]_vars

(* Every lease that was asked for is completed in the end, though owners   *)
(* crash, stall and report failures.                                       *)
LeasesComplete == <>[](\A k \in Keys : row[k].status \in {"none", "completed"})

(* Effects under leases are accounted for, and each is of one operation.   *)
EffectsAreAccounted == TypeOK /\ EffectsNeedBreaks /\ OneOperation
=============================================================================
