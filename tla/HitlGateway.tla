----------------------------- MODULE HitlGateway -----------------------------
(***************************************************************************)
(* The approval gateway of lib/hitl_approval_gateway.mjs: checkpoints that *)
(* an operator approves or rejects and an agent then resumes from, kept in *)
(* a map, in checkpoints.jsonl and in the hash chain of audit_log.jsonl.   *)
(*                                                                         *)
(* Calls are synchronous; what can come between is the end of the process. *)
(* So a call is two steps, one per file it appends to, and each append may *)
(* be refused, before its line is written or, in fsync, after; or torn.  A *)
(* line torn by the end of the process has no newline, and the next append *)
(* continues it.                                                           *)
(***************************************************************************)
EXTENDS Naturals, Sequences, FiniteSets

CONSTANTS
    Checkpoints,   \* checkpoint ids, each with its one resume token
    Payloads,      \* the payloads an approval may bind: the one asked for, a modified one
    Budget         \* how many crashes, refused and torn writes occur

Faults == {"crash", "refuse", "tear"}
Open   == {"none", "PENDING_APPROVAL"}
Closed == Payloads \cup {"REJECTED", "EXPIRED"}   \* an approval is named by its payload

ASSUME HitlAssumption ==
    /\ Payloads \cap (Open \cup {"REJECTED", "EXPIRED"}) = {}
    /\ Budget \in [Faults -> Nat]

VARIABLES
    checkpoints,    \* the map: the state of every checkpoint
    lastAuditHash,  \* the index of the audit entry the next one is chained to, 0 for genesis
    pending,        \* what the running call has yet to record in the audit log
    records,        \* lines of checkpoints.jsonl
    audit,          \* lines of audit_log.jsonl; an entry's hash is its index
    created, expired,
    budget,
    acted           \* history: the verdicts on which somebody acted

memory == <<checkpoints, lastAuditHash, pending>>
files  == <<records, audit>>
vars   == <<memory, files, created, expired, budget, acted>>

NoCall == [id |-> "none", event |-> "none"]
Spend(fault)   == budget[fault] > 0 /\ budget' = [budget EXCEPT ![fault] = @ - 1]
Spent(fault)   == Budget[fault] - budget[fault]

-----------------------------------------------------------------------------
(* durableAppendJsonl.  whole: the line parses; ended: it has its newline. *)
Unended(file) == file # <<>> /\ ~file[Len(file)].ended

Spoilt(file, ended) == [file EXCEPT ![Len(file)].whole = FALSE, ![Len(file)].ended = ended]

Appended(file, line) == IF Unended(file) THEN Spoilt(file, TRUE) ELSE Append(file, line)

TornInto(file, line) ==
    IF Unended(file) THEN {Spoilt(file, FALSE)}
    ELSE {Append(file, [line EXCEPT !.whole = w, !.ended = FALSE]) : w \in BOOLEAN}

(* An append that throws: the line is there, or it is not.                 *)
Refusals(file, line) == {file, Appended(file, line)}

Landing(file)     == IF Unended(file) THEN Len(file) ELSE Len(file) + 1

RecordLine(c, state) == [id |-> c, state |-> state, whole |-> TRUE, ended |-> TRUE]
AuditLine(call) == [id |-> call.id, event |-> call.event, prev |-> lastAuditHash,
                    whole |-> TRUE, ended |-> TRUE]

-----------------------------------------------------------------------------
(* _initialize: the last parsable record of a checkpoint counts, and the   *)
(* last line of the audit log gives the hash to chain to.                  *)
Loaded(file, c) ==
    LET mine == {i \in DOMAIN file : file[i].whole /\ file[i].id = c}
    IN  IF mine = {} THEN "none"
        ELSE file[CHOOSE i \in mine : \A k \in mine : k <= i].state

FromGenesis(file) == 0
LoadedHash(file)  == IF file # <<>> /\ file[Len(file)].whole THEN Len(file) ELSE 0

RestartWith(rs, as) ==
    /\ records' = rs /\ audit' = as
    /\ checkpoints'   = [c \in Checkpoints |-> Loaded(rs, c)]
    /\ lastAuditHash' = LoadedHash(as)
    /\ pending'       = NoCall

Crash == Spend("crash") /\ RestartWith(records, audit) /\ UNCHANGED <<created, expired, acted>>

-----------------------------------------------------------------------------
(* _saveCheckpoint: the map first, then the line.  If the line is refused, *)
(* written or not, the call throws and the map keeps the new state.        *)
EventUnlessExpired(c, state) == IF state = "EXPIRED" THEN NoCall ELSE [id |-> c, event |-> state]
Event(c, state)              == [id |-> c, event |-> state]

SaveCheckpoint(c, state) ==
    /\ pending = NoCall
    /\ \/ /\ checkpoints' = [checkpoints EXCEPT ![c] = state]
          /\ \/ records' = Appended(records, RecordLine(c, state))
                /\ pending' = Event(c, state) /\ UNCHANGED budget
             \/ Spend("refuse") /\ records' \in Refusals(records, RecordLine(c, state)) /\ UNCHANGED pending
          /\ UNCHANGED <<lastAuditHash, audit>>
       \/ /\ Spend("tear")
          /\ \E torn \in TornInto(records, RecordLine(c, state)) : RestartWith(torn, audit)

CreateCheckpoint(c) ==
    /\ c \notin created
    /\ created' = created \cup {c}
    /\ SaveCheckpoint(c, "PENDING_APPROVAL")
    /\ UNCHANGED <<expired, acted>>

(* resolveCheckpoint: the time decides before the operator does.           *)
ResolvableTwice(c) == checkpoints[c] # "none"
Resolvable(c)      == checkpoints[c] = "PENDING_APPROVAL"

ResolveCheckpoint(c, verdict) ==
    /\ Resolvable(c)
    /\ SaveCheckpoint(c, IF c \in expired THEN "EXPIRED" ELSE verdict)
    /\ UNCHANGED <<created, expired, acted>>

(* _recordAuditEntry, then the answer to the caller.  If the append throws *)
(* the hash to chain to stays, though the entry may have been written.     *)
RecordAuditEntry ==
    /\ pending # NoCall
    /\ \/ /\ audit' = Appended(audit, AuditLine(pending))
          /\ lastAuditHash' = Landing(audit)
          /\ pending' = NoCall
          /\ acted' = IF pending.event = "REJECTED"
                      THEN [acted EXCEPT ![pending.id] = @ \cup {"REJECTED"}] ELSE acted
          /\ UNCHANGED <<checkpoints, records, budget>>
       \/ /\ Spend("refuse") /\ pending' = NoCall
          /\ audit' \in Refusals(audit, AuditLine(pending))
          /\ UNCHANGED <<checkpoints, lastAuditHash, records, acted>>
       \/ /\ Spend("tear") /\ UNCHANGED acted
          /\ \E torn \in TornInto(audit, AuditLine(pending)) : RestartWith(records, torn)
    /\ UNCHANGED <<created, expired>>

(* verifyResumeToken, with the payload the agent is about to act on.       *)
VerifyResumeToken(c) ==
    /\ pending = NoCall
    /\ checkpoints[c] \in Payloads /\ c \notin expired
    /\ acted' = [acted EXCEPT ![c] = @ \cup {checkpoints[c]}]
    /\ UNCHANGED <<memory, files, created, expired, budget>>

TimePasses(c) ==
    /\ c \in created \ expired
    /\ expired' = expired \cup {c}
    /\ UNCHANGED <<memory, files, created, budget, acted>>

-----------------------------------------------------------------------------
Init ==
    /\ checkpoints = [c \in Checkpoints |-> "none"] /\ lastAuditHash = 0 /\ pending = NoCall
    /\ records = <<>> /\ audit = <<>>
    /\ created = {} /\ expired = {} /\ budget = Budget
    /\ acted = [c \in Checkpoints |-> {}]

Next ==
    \/ \E c \in Checkpoints :
          \/ CreateCheckpoint(c) \/ VerifyResumeToken(c) \/ TimePasses(c)
          \/ \E verdict \in Payloads \cup {"REJECTED"} : ResolveCheckpoint(c, verdict)
    \/ RecordAuditEntry
    \/ Crash

Spec == Init /\ [][Next]_vars

-----------------------------------------------------------------------------
(* Types; the running call is about the state it put into the map, and the *)
(* chain is continued from a line that exists.                             *)
TypeOK ==
    /\ checkpoints \in [Checkpoints -> Open \cup Closed]
    /\ lastAuditHash \in 0..Len(audit)
    /\ pending # NoCall => pending.id \in created /\ pending.event = checkpoints[pending.id]
    /\ \A c \in Checkpoints \ created : checkpoints[c] = "none"
    /\ acted \in [Checkpoints -> SUBSET Closed]
    /\ budget \in [Faults -> Nat]

(* verifyAuditLog accepts the log after any crashes.  It takes a torn line *)
(* to break the chain, or an entry that was written although its append    *)
(* threw: the next repeats its prev_hash, once for each refused write.     *)
Breaks == {i \in DOMAIN audit : audit[i].prev # i - 1}
ChainHolds ==
    Spent("tear") = 0 => /\ \A i \in DOMAIN audit : audit[i].whole /\ audit[i].prev < i
                         /\ Cardinality(Breaks) + (IF lastAuditHash = Len(audit) THEN 0 ELSE 1) <= Spent("refuse")

(* A checkpoint is decided once: the same token is acted on under a second *)
(* verdict (approved and rejected, or approved for two payloads) only      *)
(* after a write was refused or torn, once for each such fault.  Crashes   *)
(* alone, wherever they fall, do not reopen a decision.                    *)
VerdictsNeedFaults ==
    \A c \in Checkpoints : Cardinality(acted[c]) <= 1 + Spent("refuse") + Spent("tear")

(* Every closed checkpoint that a restart would find has its audit entry,  *)
(* but for the call under way and one per crash or refused write; a torn   *)
(* line may cost the entry before it as well.                              *)
Audited(c) == \E i \in DOMAIN audit : audit[i].whole /\ audit[i].id = c
                                      /\ audit[i].event = Loaded(records, c)
Unaudited  == {c \in Checkpoints : Loaded(records, c) \in Closed /\ ~Audited(c)}

AuditGapsNeedFaults ==
    Cardinality(Unaudited) <= Spent("crash") + Spent("refuse") + 2 * Spent("tear")
                                + (IF pending = NoCall THEN 0 ELSE 1)
=============================================================================
