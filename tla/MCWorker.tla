------------------------------ MODULE MCWorker -------------------------------
(***************************************************************************)
(* The worker, what it works with and the page its operator looks at: the  *)
(* first state picks whether an instance runs the wrecked queue with one   *)
(* worker, a fleet of two of whom one may crash, the tool jobs of two      *)
(* requests or jobs, the definitions of the core side by side, or the chat *)
(* or the panels of the dashboard.  They share no state: one run checks    *)
(* them all, each on instances of its own.  The constants get their values *)
(* in the cfgs; JobQueueProofs proves the properties for all of them.      *)
(***************************************************************************)
EXTENDS JobQueue, FiniteSets, TLC

CONSTANTS
    ToolZones, Reachable, MaxRedirects, MaxAsked,       \* of the tools
    Subjects, Proposals, Dispatched, Days,              \* of the core
    Messages, MaxKeys, MaxLogins, MaxTroubles,          \* of the chat
    Retainable, MaxLoads, MaxHandlers, MaxDecisions,    \* of the panels
    MaxFaults                                           \* of the tools, and of the panels

VARIABLES
    part,
    run, life, receipts, previous, contacted, throws,   \* the tools
    asked, said, inner, results,                        \* the core
    session, page, store, minted, sends, troubles,      \* the page's chat
    retained, file, shown, loads, handlers, told, decided, faults   \* its panels

tools == <<run, life, receipts, previous, contacted, throws>>
core  == <<asked, said, inner, results>>
chat  == <<session, page, store, minted, sends, troubles>>
panes == <<retained, file, shown, loads, handlers, told, decided, faults>>
working == <<part, vars, tools, core, chat, panes>>

T == INSTANCE ToolRun WITH Zones <- ToolZones
C == INSTANCE CoreSpec
H == INSTANCE DashboardChat
P == INSTANCE DashboardPanels WITH Records <- Retainable

(* The worker that has the wrecked queue to itself.                        *)
CONSTANT w1

ASSUME WorkerAssumption ==
    /\ w1 \in Workers /\ ToolZones # {}
    /\ T!ToolAssumption /\ C!CoreAssumption /\ H!ChatAssumption /\ P!PanelAssumption

-----------------------------------------------------------------------------
(* What the cfgs take for the constants that are more than a number or a  *)
(* few names: fault budgets of the queue, the zones of the tools, what     *)
(* proposals say; and symmetry for TLC.                                    *)
CONSTANTS w2, p1, p2

NoFaults   == [f \in Faults |-> 0]
Wrecked    == [f \in Faults |-> 1]
TwoCrashes == [Wrecked EXCEPT !["crash"] = 2]

WorkerSymmetry == Permutations(Workers)

-----------------------------------------------------------------------------
(* Next, for the workers of the part: the queue that is wrecked, by any two *)
(* of the faults, has one.  The fleet gets one job, of either effect; a    *)
(* worker crashes and a connection drops.  (The symmetry is that of the    *)
(* fleet: where w1 works by itself, no two states differ only by workers'  *)
(* names.)                                                                 *)
Team == IF part = "fleet" THEN Workers ELSE {w1}
TeamNext ==
    \/ \E j \in Jobs : Enqueue(j) \/ LeaseExpires(j)
    \/ \E w \in Team : Step(w) \/ Renew(w) \/ Crash(w)
AnyTwo == Cardinality({f \in Faults : budget'[f] = 0}) <= 2
FleetOfTwo ==
    /\ \A f \in Faults \ {"crash", "drop"} : budget'[f] = budget[f]
    /\ \A j, k \in Jobs : enqueues'[j] <= 1 /\ (enqueues'[j] + enqueues'[k] > 1 => j = k)

-----------------------------------------------------------------------------
(* A strict zone that may only fetch, and a lax one.                       *)
TwoZones == {[max |-> 2, tools |-> {"fetch"}, strict |-> TRUE],
             [max |-> 3, tools |-> {"fetch", "contract"}, strict |-> FALSE]}

(* Texts with every mix of the keywords that matter to their field, inside *)
(* words, beside a letter that is not ASCII or as words of their own; and  *)
(* texts that are brief by one measure or by both.                         *)
Text(parts, asciiWords, words) ==
    [blank |-> FALSE, brief |-> {}, parts |-> parts, asciiWords |-> asciiWords, words |-> words]
Saying(keywords) == Text(keywords, keywords, keywords)
FewLetters == [Saying({}) EXCEPT !.brief = {"characters"}]
Brief == [Saying({}) EXCEPT !.brief = {"bytes", "characters"}]
Blank == [Brief EXCEPT !.blank = TRUE]
TextsOf(keywords) ==
    UNION {UNION {{Text(parts, asciiWords, words) : asciiWords \in {words, parts}} : words \in SUBSET parts}
              : parts \in SUBSET keywords}
SomeProposals ==
    [exit : TextsOf({"no exit"}) \cup {FewLetters, Brief, Blank},
     capture : TextsOf({"no mitigation", "absolute ownership"}),
     ownership : TextsOf({"absolute ownership"}),
     metrics : TextsOf({"tvl", "access"}) \cup {FewLetters, Brief},
     governance : TextsOf({"appeal"})]
Sound == [exit |-> Saying({}), capture |-> Saying({}), ownership |-> Saying({}), metrics |-> Saying({}),
          governance |-> Saying({"appeal"})]
SomeDispatched == {Sound, [Sound EXCEPT !.exit = Brief], [Sound EXCEPT !.metrics = Saying({"tvl"})]}

-----------------------------------------------------------------------------
(* The panels share nothing but the network: one of the two is looked at.  *)
OnePanel == \A l, k \in DOMAIN loads' : loads'[l].panel = loads'[k].panel
OneKind  == \A h \in handlers' : \A l \in DOMAIN loads' : P!PanelOf(h) = loads'[l].panel

MCInit ==
    /\ part \in {"queue", "fleet", "tools", "core", "chat", "panels"}
    /\ Init /\ T!Init /\ C!Init /\ H!Init /\ P!Init

MCNext ==
    /\ UNCHANGED part
    /\ \/ part \in {"queue", "fleet"} /\ TeamNext /\ (IF part = "queue" THEN AnyTwo ELSE FleetOfTwo)
          /\ UNCHANGED <<tools, core, chat, panes>>
       \/ part = "tools" /\ T!Next /\ UNCHANGED <<vars, core, chat, panes>>
       \/ part = "core" /\ C!Next /\ UNCHANGED <<vars, tools, chat, panes>>
       \/ part = "chat" /\ H!Next /\ UNCHANGED <<vars, tools, core, panes>>
       \/ part = "panels" /\ P!Next /\ OnePanel /\ OneKind /\ UNCHANGED <<vars, tools, core, chat>>

MCSpec == MCInit /\ [][MCNext]_working

(* The queue by itself, with its fairness: faults are possible, and none   *)
(* but crashes occur.                                                      *)
QueueInit == part = "queue" /\ MCInit

CrashNext ==
    /\ Next
    /\ \A f \in Faults \ {"crash"} : budget'[f] = budget[f]
    /\ UNCHANGED <<part, tools, core, chat, panes>>
CrashSpec == QueueInit /\ [][CrashNext]_working /\ Fairness

(* Nothing that was taken on is lost or run beyond what was allowed it: no *)
(* job of a queue with one worker, no tool whose connections, redirects    *)
(* and time were checked, no right or refusal that the core states more    *)
(* than once.                                                              *)
NothingGoesAstray ==
    CASE part = "queue" -> Accounted
      [] part = "tools" -> T!FetchStaysWithin
      [] part = "core"  -> C!GrantsAgree /\ C!DecaysAgree /\ C!SievesAgree
      [] OTHER -> TRUE

(* What happened is what the record says: a death of the queue, a tool's   *)
(* run in the chain of receipts, the verdict on a proposal.                *)
RecordIsTrue ==
    CASE part = "queue" -> DeathsOnRecord
      [] part = "tools" -> T!RunsAreOnRecord /\ T!ReceiptsAreChained
      [] part = "core"  -> C!ResultsAreTheirOwn
      [] OTHER -> TRUE

(* What the operator sees is what is: one conversation at a time, nothing  *)
(* of one that was reset or left; and in every answer the server gave      *)
(* after the page heard of them, no record that was revoked, and the       *)
(* decision that was made last.                                            *)
PageIsTrue ==
    CASE part = "chat"   -> H!ViewIsOfOneConversation /\ H!ResetHolds /\ H!LogoutIsComplete
      [] part = "panels" -> P!RevokedIsGone /\ P!DecisionsShow
      [] OTHER -> TRUE
=============================================================================
