----------------------------- MODULE MCKnowledge ------------------------------
(***************************************************************************)
(* What the system writes down about itself and reads again: the memory    *)
(* engine, friction and its containment, the memories of a conversation,   *)
(* the edits of its own files, the queries over its documents, the ledger  *)
(* of trajectories and their replay.  They share nothing, so one run checks*)
(* them side by side: the first state picks a part, and only its actions   *)
(* happen.  The constants get their values in Knowledge.cfg;               *)
(* KnowledgeProofs proves some of the properties for all of them.          *)
(***************************************************************************)
EXTENDS CognitiveMemory

CONSTANTS
    Processes, Server, Frictions, Past, Resolutions, By, Weight, Key, Bridges, Janitor,
    MinHistory, Forgotten,                                              \* of friction
    Signatures, MaxStaged, MaxManual, MaxStops,                         \* of what is remembered
    Files, Conversations, MaxProposals, MaxApplies, MaxHandEdits,       \* of the edits
    Servers, Zones, Corpora, IndexTtl, CacheTtl, Batch, Slack, MaxEdits,  \* of the queries
    Trajectories, MaxSteps, MaxErrors, MaxRows, MaxItems, MaxAppends, MaxClock, MaxDeploys,
    MaxSnapshots, MaxTears,                                             \* of the trajectories
    Hops, MaxHops,                                                      \* of their replay
    None

VARIABLES
    part,
    entry, ledger, clipped, state, form, bridge, removal, deaths, removed, raced, joined,
    decider, halted,
    turn, candidate, mark, cooling, document, daily, staged, manual, stops,
    file, asking, proposals, backup, applying, texts, applies, handEdits, failures,
    recopied, dropped,
    corpus, index, rows, request, shown, oldest, edits,
    lines, open, revision, clock, snapshots, appended, reported, glued, tears,
    golden, steps, cursor, diverged, replayed, fork, forkPoint

friction == <<entry, ledger, clipped, state, form, bridge, removal, deaths, removed, raced, joined,
              decider, halted>>
remember == <<turn, candidate, mark, cooling, document, daily, staged, manual, stops>>
improve  == <<file, asking, proposals, backup, applying, texts, applies, handEdits, failures,
              recopied, dropped>>
query    == <<corpus, index, rows, request, shown, oldest, edits>>
trajectories == <<lines, open, revision, clock, snapshots, appended, reported, glued, tears>>
replays == <<golden, steps, cursor, diverged, replayed, fork, forkPoint>>

knowledge == <<part, vars, friction, remember, improve, query, trajectories, replays>>

F == INSTANCE FrictionContainment WITH Entries <- Frictions, crashes <- deaths
A == INSTANCE AutoRemember WITH MaxCrashes <- MaxStops, crashes <- stops
I == INSTANCE SelfImprovement WITH crashes <- failures
Q == INSTANCE QueryCache
T == INSTANCE TrajectoryLedger
P == INSTANCE TrajectoryReplay WITH NoCall <- None

ASSUME KnowledgeAssumption ==
    /\ MemoryAssumption /\ F!FrictionAssumption /\ A!RememberAssumption /\ I!ImproveAssumption
    /\ Q!CacheAssumption /\ T!LedgerAssumption /\ P!ReplayAssumption

-----------------------------------------------------------------------------
(* What Knowledge.cfg takes for the constants that are more than a number  *)
(* or a few names.                                                         *)
CONSTANTS e1, e2, e3, m1, m2, r1, d1, d2

(* Three texts of one partition, of which the second contradicts the first *)
(* and outscores it and the third takes no side and has a heading, and one *)
(* of another; a pack made elsewhere that knows the first capture.         *)
Text(part_, polarity, level, class_, grave, headed) ==
    [part |-> part_, polarity |-> polarity, level |-> level, class |-> class_, grave |-> grave,
     headed |-> headed]

SomeTexts ==
    {Text("pa", 1, 1, "durable", TRUE, FALSE), Text("pa", -1, 2, "expiring", FALSE, FALSE),
     Text("pa", 0, 1, "durable", FALSE, TRUE), Text("pb", -1, 1, "expiring", FALSE, FALSE)}
OnePack == {<<Memory(7, Text("pa", 1, 1, "durable_rule", FALSE, FALSE)),
              Memory(1, Text("pa", -1, 2, "durable", FALSE, FALSE))>>}

(* Five entries: two from before, the worst and the mildest of the server, *)
(* and the worst of the worker; the operator ends the containment once.    *)
(* A bridge is unreadable after a veto that was cut short.                 *)
SomeWeights == [x \in {e1, e2, e3, m1, m2} |->
                   CASE x \in {e1, e2} -> 30 [] x \in {m1, e3} -> 4 [] OTHER -> 5]
SomeKeys    == [x \in {e1, e2, e3, m1, m2} |-> IF x \in {e1, e3, m2} THEN "b" ELSE "a"]
SomeOrigins == [x \in {e1, e2, e3, r1} |-> IF x = e2 THEN "worker" ELSE "server"]
SomeBridges == <<"quarantined", "quarantined">>

(* One zone, whose document the disk replaces.                             *)
SomeCorpora == {"private_self" :> {d1}, "private_self" :> {d2}}

(* Trajectories that pass and that do not, of texts that normalise well,   *)
(* are cut, are cut at a blank, and are derived.                           *)
Offered(so_far, outcome, text) == [steps |-> so_far, outcome |-> outcome, text |-> text]
SomeTrajectories ==
    {Offered(<<"ok">>, "success", "long"), Offered(<<"error", "ok">>, "success", "spaced"),
     Offered(<<"error", "turn", "error", "ok">>, "success", "long"),
     Offered(<<"error">>, "success", "short"), Offered(<<"turn">>, "success", "short"),
     Offered(<<"ok", "error", "turn">>, "success", "derived")}

(* Hops of a recorded run: a call and the same with other arguments or with*)
(* another output, another tool, and words.                                *)
Hop(call, output, cost) == [call |-> call, output |-> output, cost |-> cost]
Tool(tool, args) == [tool |-> tool, args |-> args]
SomeHops == {Hop(Tool("read", 1), "a", 1), Hop(Tool("read", 2), "a", 1), Hop(Tool("read", 1), "b", 2),
             Hop(Tool("write", 1), "b", 2), Hop(None, "b", 1)}

-----------------------------------------------------------------------------
KnowledgeInit ==
    /\ part \in {"memory", "friction", "remember", "improve", "query", "trajectories", "replay"}
    /\ Init /\ F!Init /\ A!Init /\ I!Init /\ Q!Init /\ T!Init /\ P!Init
    /\ part # "query" => corpus = CHOOSE c \in Corpora : TRUE

KnowledgeNext ==
    \/ /\ part = "memory" /\ Next
       /\ UNCHANGED <<part, friction, remember, improve, query, trajectories, replays>>
    \/ /\ part = "friction" /\ F!Next
       /\ UNCHANGED <<part, vars, remember, improve, query, trajectories, replays>>
    \/ /\ part = "remember" /\ A!Next
       /\ UNCHANGED <<part, vars, friction, improve, query, trajectories, replays>>
    \/ /\ part = "improve" /\ I!Next
       /\ UNCHANGED <<part, vars, friction, remember, query, trajectories, replays>>
    \/ /\ part = "query" /\ Q!Next
       /\ UNCHANGED <<part, vars, friction, remember, improve, trajectories, replays>>
    \/ /\ part = "trajectories" /\ T!Next
       /\ UNCHANGED <<part, vars, friction, remember, improve, query, replays>>
    \/ /\ part = "replay" /\ P!Next
       /\ UNCHANGED <<part, vars, friction, remember, improve, query, trajectories>>

KnowledgeSpec == KnowledgeInit /\ [][KnowledgeNext]_knowledge

-----------------------------------------------------------------------------
(* What was written down is found again, but for what the history names: a *)
(* note of the memory engine, an entry of the friction ledger, a text of   *)
(* the files that proposals edit, a trajectory with the snapshots that hold*)
(* it, and of a recorded run what a fork, a replay or a comparison tells.  *)
NothingIsForgotten ==
    NotesAreKept /\ F!LedgerIsKept /\ I!TextsAreKept /\ T!SavedIsRead /\ T!SnapshotsGrow
    /\ P!ReplayAgreesWithComparison /\ P!ForkKeepsThePast

(* What is retired is not used again: a memory that is archived stays so,  *)
(* a document that is no longer shown leaves the answers in time, and a    *)
(* trajectory that would not pass today is not read.                       *)
RetiredStaysOut == ArchivedStays /\ Q!TypeOK /\ Q!AnswersAreFresh /\ T!ReadIsAdmitted

(* AutoRemember: the daily log repeats a candidate only after a crash.     *)
OncePerCandidate == A!OncePerCandidate

(* FrictionContainment: an evaluation that found a whole state file undoes *)
(* no decision of its process, and the bridges are vetoed before it is     *)
(* saved, up to one that cannot be read or written.                        *)
DecisionsLast == F!DecisionsLast /\ []F!VetoComesFirst
=============================================================================
