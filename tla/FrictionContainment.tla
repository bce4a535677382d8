------------------------- MODULE FrictionContainment -------------------------
(***************************************************************************)
(* The friction ledger (lib/friction_ledger.mjs) and the active policy     *)
(* engine it calls (lib/active_policy_engine.mjs, with the detector of     *)
(* lib/friction_anomaly_detector.mjs).  Several processes record friction; *)
(* they share the ledger, the state file and the bridge files, and nothing *)
(* locks them.  An evaluation is synchronous: its process does nothing else*)
(* between reading the state and writing it, the other processes do, and a *)
(* file is written in two steps: it is cut to nothing, then filled.  The   *)
(* ledger's own operations follow one another within a process (writeMutex)*)
(* and each awaits its file.                                               *)
(***************************************************************************)
EXTENDS Integers, Sequences, SequencesExt, FiniteSetsExt

CONSTANTS
    Processes, Server,      \* the processes; the one with the dashboard
    Entries, Past,          \* entries to be recorded; the ledger at the start
    Resolutions,            \* what the operator asks: to end the containment
    By, Weight, Key,        \* of an entry: its process, severity * frequency, task_context
    Bridges,                \* the status of each bridge file, in the order of their names
    Janitor,                \* the process that removes entries
    MinHistory,             \* min_history_entries; z_score_threshold is 3
    Forgotten,              \* the key removeFrictionEntriesByKey is asked to remove
    MaxCrashes, None

(* Whatever writes the state file: an evaluation and a resolution.         *)
Writers == Entries \cup Resolutions

FrictionAssumption ==
    /\ {Server, Janitor} \subseteq Processes /\ MinHistory \in Nat \ {0}
    /\ By \in [Writers -> Processes] /\ \A r \in Resolutions : By[r] = Server /\ r \notin Entries
    /\ Past \cup Entries \subseteq DOMAIN Weight /\ DOMAIN Key = DOMAIN Weight
    /\ \A e \in DOMAIN Weight : Weight[e] \in 1..30
    /\ Bridges \in Seq({"quarantined", "vetoed", "unreadable"})
    /\ MaxCrashes \in Nat

VARIABLES
    entry,      \* each writer: its stage, the bridge file it is at, the state it will save,
                \* whether it found an anomaly and whether it could not read the state file
    ledger,     \* ledger.jsonl, whose order nobody looks at
    clipped,       \* whether its last line was cut short
    state,      \* the last active_policy_state.json: containment, its episodes and those resolved
    form,       \* what the file is now: "whole", "empty", or "mangled" by two writers
    bridge,     \* the status of each bridge file
    removal,    \* the Janitor's removal: its stage and the rows read
    crashes,
    removed, raced, joined,  \* history: entries removed by key, lost to another process's
                             \* removal, and appended to a line that was cut short
    decider,    \* history: the process whose decision the containment last followed
    halted      \* history: bridge files at which a round of vetoes has ended

bookkeeping == <<removal, crashes, removed, raced, decider>>
files == <<ledger, clipped, joined, state, form, bridge, halted>>
vars == <<entry, files, bookkeeping>>

Calm == [on |-> FALSE, episodes |-> 0, resolved |-> 0]
Stage(pc) == [pc |-> pc, at |-> 1, state |-> Calm, saw |-> FALSE, blind |-> FALSE]

Init ==
    /\ entry = [w \in Writers |-> Stage("new")]
    /\ ledger = Past /\ clipped = FALSE /\ state = Calm /\ form = "whole"
    /\ bridge = Bridges /\ removal = [pc |-> "idle", rows |-> {}]
    /\ crashes = 0 /\ removed = {} /\ raced = {} /\ joined = {} /\ decider = None /\ halted = {}

(* Within an evaluation a process does nothing else; its ledger operations *)
(* wait for the removal before them.                                       *)
Judging == {"vetoing", "opening", "writing", "judged", "saving"}

(* Mutant: an evaluation awaits its files.                                 *)
FreeAlways(p) == TRUE

Free(p) == \A w \in Writers : By[w] = p => entry[w].pc \notin Judging
MutexFree(p) == p = Janitor => removal.pc # "read"

-----------------------------------------------------------------------------
(* detectFrictionAnomaly.  The weights are natural numbers: medians are    *)
(* counted in halves and deviations from them in quarters.                 *)
Twice(sorted) ==
    LET n == Len(sorted)
    IN  IF n % 2 = 1 THEN 2 * sorted[(n + 1) \div 2]
        ELSE sorted[n \div 2] + sorted[n \div 2 + 1]

MedianTwice(s) == Twice(SortSeq(s, <))
Distance(a, b) == IF a < b THEN b - a ELSE a - b
Square(a) == a * a
Total(s) == FoldSeq(+, 0, s)

(* robust_z, rounded to hundredths, is at least 3: by 1.4826 times the     *)
(* median deviation or, when that is 0, by the standard deviation, which   *)
(* counts for at least 0.1.                                                *)
IsAnomaly(w, weights) ==
    LET n    == Len(weights)
        med2 == MedianTwice(weights)
        mad4 == MedianTwice([i \in 1..n |-> Distance(2 * weights[i], med2)])
        over == 2 * w - med2
        spread == n * Total([i \in 1..n |-> Square(weights[i])]) - Square(Total(weights))
    IN  /\ n >= MinHistory /\ over > 0
        /\ IF mad4 > 0 THEN 2000000 * over >= 599 * 7413 * mad4
           ELSE /\ 10000 * Square(over * n) >= Square(599) * spread
                /\ 1000 * over >= 599

(* evaluate: the history without the entry itself is the baseline.         *)
Baseline(e) == FoldSet(LAMBDA x, weights : Append(weights, Weight[x]), <<>>, ledger \ {e})

-----------------------------------------------------------------------------
(* loadState: a file that does not parse is read as the defaults.          *)
Found == IF form = "whole" THEN state ELSE Calm

(* appendFriction: the write is assessed at the call, and refused while    *)
(* writes are suspended; the line is appended in turn, then evaluated.  An *)
(* append that fails can leave a part of its line.                         *)
Call(e) ==
    /\ entry[e].pc = "new" /\ Free(By[e])
    /\ entry' = [entry EXCEPT ![e].pc = IF Found.on THEN "refused" ELSE "queued"]
    /\ UNCHANGED <<files, bookkeeping>>

AppendLine(e) ==
    /\ entry[e].pc = "queued" /\ Free(By[e]) /\ MutexFree(By[e])
    /\ entry' = [entry EXCEPT ![e].pc = "logged"]
    /\ ledger' = IF clipped THEN ledger ELSE ledger \cup {e}
    /\ joined' = IF clipped THEN joined \cup {e} ELSE joined
    /\ clipped' = FALSE
    /\ UNCHANGED <<state, form, bridge, halted, bookkeeping>>

AppendFails(e) ==
    /\ entry[e].pc = "queued" /\ Free(By[e]) /\ MutexFree(By[e])
    /\ entry' = [entry EXCEPT ![e].pc = "lost"]
    /\ clipped' \in {clipped, TRUE}
    /\ UNCHANGED <<ledger, joined, state, form, bridge, halted, bookkeeping>>

(* evaluate: an anomaly that finds no containment begins one.              *)
Judge(e) ==
    LET triggers == ~Found.on /\ IsAnomaly(Weight[e], Baseline(e))
    IN  /\ entry[e].pc = "logged" /\ Free(By[e])
        /\ entry' = [entry EXCEPT ![e] =
              [pc |-> IF triggers THEN "vetoing" ELSE "judged", at |-> 1,
               saw |-> triggers, blind |-> form # "whole",
               state |-> IF triggers THEN [Found EXCEPT !.on = TRUE, !.episodes = @ + 1] ELSE Found]]
        /\ UNCHANGED <<files, bookkeeping>>

(* vetoQuarantinedBridges: each file is read and, if it is not vetoed yet, *)
(* written.  The round ends at a file that cannot be read or written.      *)
(* Mutant: the first bridge file is passed over.                           *)
QuarantinedFromSecond(e) ==
    {i \in DOMAIN bridge : i > 1 /\ i >= entry[e].at /\ bridge[i] # "vetoed"}

Quarantined(e) == {i \in DOMAIN bridge : i >= entry[e].at /\ bridge[i] # "vetoed"}

ReadBridge(e) ==
    /\ entry[e].pc = "vetoing"
    /\ \/ /\ Quarantined(e) = {}
          /\ entry' = [entry EXCEPT ![e].pc = "judged"]
          /\ UNCHANGED halted
       \/ \E i \in Quarantined(e) :
             /\ \A j \in Quarantined(e) : i <= j
             /\ \/ /\ bridge[i] = "quarantined"
                   /\ entry' = [entry EXCEPT ![e].pc = "opening", ![e].at = i]
                   /\ UNCHANGED halted
                \/ /\ bridge[i] = "unreadable"
                   /\ entry' = [entry EXCEPT ![e].pc = "judged"]
                   /\ halted' = halted \cup {i}
    /\ UNCHANGED <<ledger, clipped, joined, state, form, bridge, bookkeeping>>

OpenBridge(e) ==
    /\ entry[e].pc = "opening"
    /\ entry' = [entry EXCEPT ![e].pc = "writing"]
    /\ bridge' = [bridge EXCEPT ![entry[e].at] = "unreadable"]
    /\ UNCHANGED <<ledger, clipped, joined, state, form, halted, bookkeeping>>

WriteBridge(e) ==
    /\ entry[e].pc = "writing"
    /\ entry' = [entry EXCEPT ![e].pc = "vetoing"]
    /\ bridge' = [bridge EXCEPT ![entry[e].at] = "vetoed"]
    /\ UNCHANGED <<ledger, clipped, joined, state, form, halted, bookkeeping>>

BridgeFails(e) ==
    /\ entry[e].pc \in {"opening", "writing"}
    /\ entry' = [entry EXCEPT ![e].pc = "judged"]
    /\ halted' = halted \cup {entry[e].at}
    /\ UNCHANGED <<ledger, clipped, joined, state, form, bridge, bookkeeping>>

(* POST /api/operator/resolve-containment: nothing to do when the file that*)
(* was read is not contained.                                              *)
ResolveContainment(r) ==
    /\ entry[r].pc = "new" /\ Free(Server) /\ Found.on
    /\ entry' = [entry EXCEPT ![r] =
          [Stage("judged") EXCEPT !.state = [Found EXCEPT !.on = FALSE, !.resolved = @ + 1]]]
    /\ UNCHANGED <<files, bookkeeping>>

(* saveState: the file is cut, then filled.  Over what another process has *)
(* filled since, the shorter text leaves the end of the longer.  An error  *)
(* is logged, and the file stays as it is.                                 *)
CutState(w) ==
    /\ entry[w].pc = "judged" /\ entry' = [entry EXCEPT ![w].pc = "saving"]
    /\ form' = "empty"
    /\ UNCHANGED <<ledger, clipped, joined, state, bridge, halted, bookkeeping>>

SaveState(w) ==
    /\ entry[w].pc = "saving" /\ entry' = [entry EXCEPT ![w] = Stage("done")]
    /\ state' = entry[w].state
    /\ form' \in IF form = "empty" THEN {"whole"} ELSE {"whole", "mangled"}
    /\ decider' = IF state'.on # state.on THEN By[w] ELSE decider
    /\ UNCHANGED <<ledger, clipped, joined, bridge, halted, removal, crashes, removed, raced>>

SaveFails(w) ==
    /\ entry[w].pc \in {"judged", "saving"} /\ entry' = [entry EXCEPT ![w] = Stage("done")]
    /\ UNCHANGED <<files, bookkeeping>>

(* removeFrictionEntriesByKey: all rows are read, and when some have the   *)
(* key the others are written to a temporary file renamed over the ledger. *)
ReadRows ==
    /\ removal.pc = "idle" /\ Free(Janitor)
    /\ \E x \in ledger : Key[x] = Forgotten
    /\ removal' = [pc |-> "read", rows |-> ledger]
    /\ UNCHANGED <<entry, files, crashes, removed, raced, decider>>

RenameOver ==
    LET kept == {x \in removal.rows : Key[x] # Forgotten}
    IN  /\ removal.pc = "read" /\ Free(Janitor)
        /\ removal' = [pc |-> "done", rows |-> {}]
        /\ ledger' = kept /\ clipped' = FALSE
        /\ removed' = removed \cup (removal.rows \ kept)
        /\ raced' = raced \cup {e \in ledger \ removal.rows : By[e] # Janitor}
        /\ UNCHANGED <<entry, joined, state, form, bridge, halted, crashes, decider>>

(* A process dies with whatever it had under way; the line it was appending*)
(* may be cut short.                                                       *)
Crash(p) ==
    /\ crashes < MaxCrashes /\ crashes' = crashes + 1
    /\ entry' = [w \in Writers |->
          IF By[w] = p /\ entry[w].pc \in Judging \cup {"queued", "logged"}
          THEN Stage("lost") ELSE entry[w]]
    /\ clipped' \in IF \E w \in Writers : By[w] = p /\ entry[w].pc = "queued"
                    THEN {clipped, TRUE} ELSE {clipped}
    /\ removal' = IF p = Janitor THEN [pc |-> "done", rows |-> {}] ELSE removal
    /\ UNCHANGED <<ledger, joined, state, form, bridge, halted, removed, raced, decider>>

-----------------------------------------------------------------------------
Next ==
    \/ \E e \in Entries :
          \/ Call(e) \/ AppendLine(e) \/ AppendFails(e) \/ Judge(e)
          \/ ReadBridge(e) \/ OpenBridge(e) \/ WriteBridge(e) \/ BridgeFails(e)
    \/ \E r \in Resolutions : ResolveContainment(r)
    \/ \E w \in Writers : CutState(w) \/ SaveState(w) \/ SaveFails(w)
    \/ ReadRows \/ RenameOver
    \/ \E p \in Processes : Crash(p)

Spec == Init /\ [][Next]_vars

-----------------------------------------------------------------------------
(* A recorded entry stays in the ledger until its key is removed; lost are *)
(* only an entry that another process appended during a removal, which is  *)
(* overwritten, and one appended to a line that was cut short.             *)
LedgerIsKept ==
    \A e \in Entries :
        entry[e].pc \in Judging \cup {"logged", "done"} => e \in ledger \cup removed \cup raced \cup joined

(* A containment is begun by an anomaly and ended by the operator, and an  *)
(* evaluation undoes neither: the state it saves is as contained as the one*)
(* it finds, but for the anomaly it saw.  No lock is shared, so a decision *)
(* that another process took meanwhile can be overwritten, and one that    *)
(* read the state file when it was empty or mangled starts from the        *)
(* defaults.                                                               *)
DecisionsLast ==
    [][\A e \in Entries :
          entry[e].pc = "saving" /\ entry'[e].pc = "done" /\ decider = By[e] /\ ~entry[e].blind =>
              \/ state'.on = state.on
              \/ state'.on /\ entry[e].saw]_vars

(* Once a containment has been saved, its bridges have been vetoed: those  *)
(* whose file comes before one at which a round of vetoes ended.           *)
VetoComesFirst ==
    state.episodes > 0 => \A i \in DOMAIN bridge :
        bridge[i] = "quarantined" => \E j \in 1..i : j \in halted
=============================================================================
