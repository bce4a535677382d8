--------------------------- MODULE TrajectoryLedger ---------------------------
(***************************************************************************)
(* The ledger of known-good trajectories (lib/trajectories.mjs), their     *)
(* admission (lib/trajectory_evaluator.mjs) and the snapshots of the       *)
(* ledger (lib/trajectory_snapshot_store.mjs).                             *)
(*                                                                         *)
(* A trajectory is evaluated, normalised and appended as one line with its *)
(* receipt; whoever reads the ledger takes the last MaxRows lines, and of  *)
(* these only the rows it can vouch for: it evaluates the evidence again,  *)
(* normalises the row again and compares the digests.  Snapshots take the  *)
(* rows up to a moment without that.  A process may die in the middle of   *)
(* an append, and a new revision of the evaluator may be deployed.         *)
(*                                                                         *)
(* A text is what trimming and cutting make of it: "long" ones are cut at  *)
(* a letter, "spaced" ones at a blank (a tag at a dash), which the next    *)
(* trim removes.  "derived" ones are put together from the other texts, the*)
(* evidence basis of a trajectory that states none or the summary of a     *)
(* step, and are cut only when they are read again.  The digest of a row is*)
(* its normal text; the vocabulary of statuses, banned words and the scores*)
(* of a query are left out.                                                *)
(***************************************************************************)
EXTENDS Integers, SequencesExt, FiniteSetsExt

CONSTANTS
    Trajectories,   \* what is offered: [steps, outcome, text]
    MaxSteps,       \* max_steps of the thresholds
    MaxErrors,      \* max_consecutive_errors
    MaxRows,        \* DIZZY_TRAJECTORY_MAX_ROWS
    MaxItems,       \* maxRows of a snapshot
    MaxAppends, MaxClock, MaxDeploys, MaxSnapshots, MaxTears

LedgerAssumption ==
    /\ {MaxSteps, MaxErrors, MaxRows, MaxItems} \subseteq Nat \ {0}
    /\ {MaxAppends, MaxClock, MaxDeploys, MaxSnapshots, MaxTears} \subseteq Nat
    /\ \A t \in Trajectories :
          /\ t.steps \in Seq({"ok", "error", "turn"}) /\ t.outcome \in {"success", "failure"}
          /\ t.text \in {"short", "long", "spaced", "derived"}

VARIABLES
    lines,      \* of the ledger: rows, and junk
    open,       \* the file ends within a line
    revision,   \* of the evaluator that is deployed
    clock,
    snapshots,
    appended,   \* history: the rows written so far, which numbers them
    reported,   \* history: the rows whose append was reported as saved
    glued,      \* history: the rows that stand on a line with something else
    tears

ledgered == <<lines, open, revision, clock, snapshots, appended, reported, glued, tears>>

Junk == [id |-> 0]

Init ==
    /\ lines = <<>> /\ open = FALSE /\ revision = 0 /\ clock = 0 /\ snapshots = <<>>
    /\ appended = 0 /\ reported = {} /\ glued = {} /\ tears = 0

-----------------------------------------------------------------------------
CountedReset(s, step) ==
    IF step = "error" THEN [s EXCEPT !.row = @ + 1, !.errors = @ + 1,
                                     !.worst = IF s.row + 1 > @ THEN s.row + 1 ELSE @]
    ELSE [s EXCEPT !.row = 0, !.oks = IF step = "ok" THEN @ + 1 ELSE @]

(* evaluateTrajectory over the steps: the errors in a row, the worst row of*)
(* them, and how many steps are evidence.  A user's turn is neither.       *)
Counted(s, step) ==
    CASE step = "error" -> LET row == s.row + 1
                           IN  [s EXCEPT !.row = row, !.errors = @ + 1,
                                         !.worst = IF row > @ THEN row ELSE @]
      [] step = "ok"    -> [s EXCEPT !.row = 0, !.oks = @ + 1]
      [] OTHER          -> s
Uncounted == [row |-> 0, worst |-> 0, errors |-> 0, oks |-> 0]
CountUpTo(steps) ==
    LET upTo[n \in 0..Len(steps)] == IF n = 0 THEN Uncounted ELSE Counted(upTo[n - 1], steps[n])
    IN  upTo
Count(steps) == CountUpTo(steps)[Len(steps)]

Passes(t) ==
    LET c == Count(t.steps) IN
    /\ Len(t.steps) \in 1..MaxSteps
    /\ c.worst <= MaxErrors
    /\ c.errors + c.oks > 0
    /\ t.outcome # "failure"
    /\ ~(c.errors > 0 /\ c.oks = 0)

(* normalizeString, normalizeActions and buildDistillationContract: what   *)
(* trimming, cutting and deriving leave.                                   *)
Normal(text) ==
    CASE text = "long"    -> "cut"
      [] text = "spaced"  -> "blank" [] text = "blank" -> "trimmed"
      [] text = "derived" -> "uncut" [] text = "uncut" -> "cut"
      [] OTHER -> text

(* normalizeTrajectory, and the digest of the result beside it.            *)
RowRaw(id, t, at) ==
    [id |-> id, text |-> Normal(t.text), digest |-> t.text, at |-> at, revision |-> revision,
     evidence |-> t]
Row(id, t, at) ==
    [id |-> id, text |-> Normal(t.text), digest |-> Normal(t.text), at |-> at,
     revision |-> revision, evidence |-> t]

(* validateTrajectoryLedgerRecord and validateAdmissionSource.             *)
VouchedByReceipt(line) == line # Junk
VouchedFor(line) ==
    /\ line # Junk /\ line.revision = revision
    /\ line.digest = Normal(line.text)
    /\ Passes(line.evidence)

-----------------------------------------------------------------------------
(* The end of the file with one more line on it: one that follows a torn   *)
(* one shares its line, and neither can be parsed.                         *)
Extended(line) == IF open THEN Append(Front(lines), Junk) ELSE Append(lines, line)
Lost == IF open /\ Last(lines) # Junk THEN {Last(lines).id} ELSE {}

(* appendTrajectory, with the moment its input claims or the present one.  *)
AppendTrajectory ==
    /\ appended < MaxAppends
    /\ \E t \in Trajectories, at \in 0..clock :
          /\ Passes(t)
          /\ lines' = Extended(Row(appended + 1, t, at)) /\ open' = FALSE
          /\ glued' = glued \cup Lost \cup (IF open THEN {appended + 1} ELSE {})
    /\ appended' = appended + 1 /\ reported' = reported \cup {appended + 1}
    /\ UNCHANGED <<revision, clock, snapshots, tears>>

(* The process dies while it appends: part of the line is written, or all  *)
(* of it but for its end.                                                  *)
TearAppend ==
    /\ appended < MaxAppends /\ tears < MaxTears /\ tears' = tears + 1
    /\ \E t \in Trajectories, at \in 0..clock, whole \in BOOLEAN :
          /\ Passes(t)
          /\ lines' = Extended(IF whole THEN Row(appended + 1, t, at) ELSE Junk)
          /\ glued' = glued \cup Lost \cup (IF open \/ ~whole THEN {appended + 1} ELSE {})
    /\ open' = TRUE /\ appended' = appended + 1
    /\ UNCHANGED <<revision, clock, snapshots, reported>>

(* readTrajectoryLines, readTrajectories.                                  *)
WindowShort == SubSeq(lines, Max({1, Len(lines) - MaxRows + 2}), Len(lines))
Window == SubSeq(lines, Max({1, Len(lines) - MaxRows + 1}), Len(lines))
ReadTrajectories == {line.id : line \in {l \in ToSet(Window) : VouchedFor(l)}}

-----------------------------------------------------------------------------
(* readTrajectoryRowsForSnapshot: the rows up to asOf, of which the latest *)
(* MaxItems are kept.                                                      *)
Later(r, s) == r.at > s.at \/ (r.at = s.at /\ r.id > s.id)
OldestOf(rows) == {r \in rows : Cardinality({s \in rows : Later(r, s)}) < MaxItems}
LatestOf(rows) == {r \in rows : Cardinality({s \in rows : Later(s, r)}) < MaxItems}
RowsUpTo(asOf) == {line \in ToSet(lines) : line # Junk /\ line.at <= asOf}

(* buildTrajectorySnapshot, appendTrajectorySnapshot.                      *)
AppendSnapshot ==
    /\ Len(snapshots) < MaxSnapshots
    /\ \E asOf \in 0..clock :
          snapshots' = Append(snapshots, [asOf |-> asOf, items |-> LatestOf(RowsUpTo(asOf))])
    /\ UNCHANGED <<lines, open, revision, clock, appended, reported, glued, tears>>

Deploy ==
    /\ revision < MaxDeploys /\ revision' = revision + 1
    /\ UNCHANGED <<lines, open, clock, snapshots, appended, reported, glued, tears>>

Tick ==
    /\ clock < MaxClock /\ clock' = clock + 1
    /\ UNCHANGED <<lines, open, revision, snapshots, appended, reported, glued, tears>>

Next == AppendTrajectory \/ TearAppend \/ AppendSnapshot \/ Deploy \/ Tick

Spec == Init /\ [][Next]_ledgered

-----------------------------------------------------------------------------
(* What is known of a row by its number, whether or not a reader takes it. *)
Rows == ToSet(lines) \ {Junk}

(* A row reported as saved is read back, unless MaxRows later lines stand  *)
(* after it, a torn line was glued to it, the evaluator has changed since, *)
(* or its text was cut at a blank or derived too long: such a row is       *)
(* refused by every reader, for the digest is of the text normalised once, *)
(* and the reader normalises it a second time.                             *)
SavedIsRead ==
    \A id \in reported :
       \/ id \in ReadTrajectories
       \/ id \in glued
       \/ \E n \in 1..(Len(lines) - MaxRows) : lines[n] # Junk /\ lines[n].id = id
       \/ \E row \in Rows : row.id = id /\ (row.revision # revision \/ row.text \in {"blank", "uncut"})

(* What is read was worth recording: no more than MaxErrors errors follow  *)
(* one another without a success between them, some step succeeded, and    *)
(* the row passed under the evaluator of today.                            *)
ErrorsFollow(steps, i, j) ==
    Cardinality({n \in i..j : steps[n] = "error"}) > MaxErrors /\ \A n \in i..j : steps[n] # "ok"
ReadIsAdmitted ==
    \A row \in Rows : row.id \in ReadTrajectories =>
       /\ row.revision = revision
       /\ Contains(row.evidence.steps, "ok")
       /\ \A i, j \in DOMAIN row.evidence.steps : ~ErrorsFollow(row.evidence.steps, i, j)

(* Of two snapshots of one moment the later one has every item of the      *)
(* earlier, but those since swallowed by a torn line and those that are    *)
(* older than the MaxItems it holds.                                       *)
SnapshotsGrow ==
    \A i, j \in DOMAIN snapshots : i < j /\ snapshots[i].asOf = snapshots[j].asOf =>
       \A row \in snapshots[i].items \ snapshots[j].items :
          \/ row.id \in glued
          \/ /\ Cardinality(snapshots[j].items) = MaxItems
             /\ \A kept \in snapshots[j].items : Later(kept, row)
=============================================================================
