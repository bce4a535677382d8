--------------------------- MODULE DashboardPanels ---------------------------
(***************************************************************************)
(* The panels of the operator's page (dashboard/dashboard.js): each shows  *)
(* what the server said when it was last asked, by the page, a button, or  *)
(* a handler that has changed something and asks again.  Requests overlap  *)
(* and their answers come in any order; the last to arrive is shown.       *)
(* Behind two panels the server's state is spelt out: the conversations    *)
(* retained (an execution of the operator adds one, a revocation removes   *)
(* one) and the consensus, a file that sign-offs and vetoes read and       *)
(* replace (lib/consensus.mjs).                                            *)
(*                                                                         *)
(* The governance panel is reduced to the consensus, which it asks for     *)
(* after the hardware and before the sandbox; rendering, messages and busy *)
(* buttons are left out.  Others may decide at any time.                   *)
(***************************************************************************)
EXTENDS Integers, SequencesExt

CONSTANTS
    Records,        \* conversations that may be retained
    MaxLoads,       \* bound: times a panel is loaded
    MaxHandlers,    \* bound: handlers under way at once
    MaxDecisions,   \* bound: sign-offs and vetoes
    MaxFaults       \* bound: requests that fail, writes of the file that fail or tear it

PanelAssumption == {MaxLoads, MaxHandlers, MaxDecisions, MaxFaults} \subseteq Nat

Panels    == {"records", "consensus"}
Decisions == {"signoff", "veto"}

VARIABLES
    retained,   \* the server's conversations
    file,       \* runtime/consensus_state.json
    shown,      \* by each panel, and which load it is the answer to
    loads,      \* requests for panels, in the order they were made
    handlers,   \* changes the page has asked for and waits for
    told,       \* history: what the page has been told was done, and the answers given before
    decided,    \* history: the last decision on file, and how many were made
    faults

panels == <<retained, file, shown, loads, handlers, told, decided, faults>>

-----------------------------------------------------------------------------
(* getConsensusState: what cannot be read becomes the default again.       *)
State(codex, openclaude, antigravity, status) ==
    [codex |-> codex, openclaude |-> openclaude, antigravity |-> antigravity, status |-> status]
Default   == State("SIGNED", "SIGNED", "PENDING", "Awaiting Operator")
Torn      == State("torn", "torn", "torn", "torn")
Absent    == State("absent", "absent", "absent", "absent")
Consensus == IF file \in {Torn, Absent} THEN Default ELSE file

(* signOffOperator and vetoOperator, on what they read.                    *)
After(decision) ==
    IF decision = "veto" THEN State("VETOED", "VETOED", "VETOED", "Vetoed")
    ELSE [Consensus EXCEPT !.antigravity = "SIGNED", !.status = "Consensus Reached"]

Screen(what, of, records, state) == [what |-> what, of |-> of, records |-> records, state |-> state]
Blank(what) == Screen(what, 0, {}, Absent)
Answer(l) ==
    IF loads[l].panel = "records" THEN Screen("shown", l, retained, Absent) ELSE Screen("shown", l, {}, Consensus)

Faulty == faults < MaxFaults /\ faults' = faults + 1

Init ==
    /\ retained = Records /\ file = Absent
    /\ shown = [p \in Panels |-> Blank("nothing")]
    /\ loads = <<>> /\ handlers = {}
    /\ told = [revoked |-> {}, late |-> [r \in Records |-> {}], decisions |-> 0, early |-> {0}]
    /\ decided = [last |-> "none", count |-> 0]
    /\ faults = 0

-----------------------------------------------------------------------------
(* loadContinuityRecords and loadGovernanceData: from the page, a button   *)
(* or a handler.  Only the records say that they are being loaded.         *)
Loads(panel) ==
    /\ Len(loads) < MaxLoads
    /\ loads' = Append(loads, [panel |-> panel, pc |-> IF panel = "records" THEN "asked" ELSE "hardware",
                               answer |-> Blank("nothing")])
    /\ shown' = IF panel = "records" THEN [shown EXCEPT ![panel] = Blank("loading")] ELSE shown
Refresh(panel) ==
    /\ Loads(panel)
    /\ UNCHANGED <<retained, file, handlers, told, decided, faults>>

Goes(l, pc) == loads' = [loads EXCEPT ![l].pc = pc, ![l].answer = Blank("nothing")]
Hardware(l) ==
    /\ loads[l].pc = "hardware" /\ Goes(l, "asked")
    /\ UNCHANGED <<retained, file, shown, handlers, told, decided, faults>>

(* The server answers; asking for the consensus may write the default.     *)
ResetsWhatItReads(l) ==
    /\ loads[l].pc = "asked"
    /\ loads' = [loads EXCEPT ![l].pc = "served", ![l].answer = Answer(l)]
    /\ file' = Default /\ UNCHANGED <<retained, shown, handlers, told, decided, faults>>
Serve(l) ==
    /\ loads[l].pc = "asked"
    /\ loads' = [loads EXCEPT ![l].pc = "served", ![l].answer = Answer(l)]
    /\ \/ loads[l].panel = "records" /\ UNCHANGED <<file, faults>>
       \/ loads[l].panel = "consensus" /\ file' = Consensus /\ UNCHANGED faults
       \/ loads[l].panel = "consensus" /\ file \in {Torn, Absent} /\ Faulty /\ file' \in {file, Torn}
    /\ UNCHANGED <<retained, shown, handlers, told, decided>>
Render(l) ==
    /\ loads[l].pc = "served" /\ Goes(l, "over")
    /\ shown' = [shown EXCEPT ![loads[l].panel] = loads[l].answer]
    /\ UNCHANGED <<retained, file, handlers, told, decided, faults>>

(* A request that fails: the records say so; the governance panel says so  *)
(* elsewhere and leaves the consensus it shows.                            *)
FailsToLoad(l) ==
    /\ loads[l].pc # "over" /\ Faulty /\ Goes(l, "over")
    /\ shown' = IF loads[l].panel = "records" THEN [shown EXCEPT !["records"] = Blank("error")] ELSE shown
    /\ UNCHANGED <<retained, file, handlers, told, decided>>

-----------------------------------------------------------------------------
(* deleteContinuityRecord, runOperatorExecute and the two decisions: asked *)
(* for, done by the server, and the panel loaded again.                    *)
Handler(kind, of) == [kind |-> kind, of |-> of, pc |-> "asked"]
PanelOf(h) == IF h.kind = "decide" THEN "consensus" ELSE "records"
Begins(h) ==
    /\ Cardinality(handlers) < MaxHandlers /\ handlers' = handlers \cup {h}
    /\ UNCHANGED <<retained, file, shown, loads, told, decided, faults>>
Act ==
    \/ \E r \in shown["records"].records : Begins(Handler("revoke", r))
    \/ \E r \in Records : Begins(Handler("execute", r))
    \/ \E d \in Decisions : Begins(Handler("decide", d))

Served(h, kind) ==
    /\ h.kind = kind /\ h.pc = "asked"
    /\ handlers' = (handlers \ {h}) \cup {[h EXCEPT !.pc = "served"]}
Revoke(h) ==
    /\ Served(h, "revoke") /\ retained' = retained \ {h.of}
    /\ UNCHANGED <<file, shown, loads, told, decided, faults>>
Execute(h) ==
    /\ Served(h, "execute") /\ retained' = retained \cup {h.of}
    /\ told' = [told EXCEPT !.revoked = @ \ {h.of}]
    /\ UNCHANGED <<file, shown, loads, decided, faults>>

(* saveConsensusState: written and renamed, or copied where that is not    *)
(* allowed; the decision is not recorded if that fails, and a copy that    *)
(* breaks off leaves a file that cannot be read.                           *)
Saves(decision) ==
    /\ decided.count < MaxDecisions
    /\ \/ /\ file' = After(decision) /\ decided' = [last |-> decision, count |-> decided.count + 1]
          /\ UNCHANGED faults
       \/ /\ Faulty /\ file' \in {Consensus, Torn}
          /\ decided' = [last |-> IF file' = Torn THEN "none" ELSE decided.last, count |-> decided.count + 1]
Decide(h) ==
    /\ Served(h, "decide") /\ Saves(h.of)
    /\ UNCHANGED <<retained, shown, loads, told>>
DecideElsewhere(decision) ==
    /\ Saves(decision)
    /\ UNCHANGED <<retained, shown, loads, handlers, told>>

(* The page hears of it and loads the panel again; the answers that are on *)
(* their way to it then were given before.                                 *)
OnTheirWay == {l \in DOMAIN loads : loads[l].pc = "served"}
Told(h) ==
    CASE h.kind = "revoke" /\ h.of \notin retained ->
            [told EXCEPT !.revoked = @ \cup {h.of}, !.late[h.of] = OnTheirWay]
      [] h.kind = "decide" ->
            [told EXCEPT !.decisions = decided.count, !.early = {shown["consensus"].of} \cup OnTheirWay]
      [] OTHER -> told
ReturnsOnly(h) ==
    /\ h.pc = "served" /\ handlers' = handlers \ {h}
    /\ told' = Told(h) /\ UNCHANGED <<retained, file, shown, loads, decided, faults>>
Returns(h) ==
    /\ h.pc = "served" /\ handlers' = handlers \ {h}
    /\ Loads(PanelOf(h)) /\ told' = Told(h)
    /\ UNCHANGED <<retained, file, decided, faults>>
FailsToAct(h) ==
    /\ Faulty /\ handlers' = handlers \ {h}
    /\ UNCHANGED <<retained, file, shown, loads, told, decided>>

Next ==
    \/ \E p \in Panels : Refresh(p)
    \/ \E l \in DOMAIN loads : Hardware(l) \/ Serve(l) \/ Render(l) \/ FailsToLoad(l)
    \/ Act
    \/ \E h \in handlers : Revoke(h) \/ Execute(h) \/ Decide(h) \/ Returns(h) \/ FailsToAct(h)
    \/ \E d \in Decisions : DecideElsewhere(d)

Spec == Init /\ [][Next]_panels

-----------------------------------------------------------------------------
(* A conversation the page was told is revoked, and nobody has retained    *)
(* since, is off the screen at once, and comes back to it only with an     *)
(* answer that was on its way by then and is drawn over a later one: never *)
(* with one that is given afterwards.                                      *)
RevokedIsGone ==
    \A r \in told.revoked \cap shown["records"].records : shown["records"].of \in told.late[r]

(* A decision the page was told of shows with every answer given from then *)
(* on, as long as no other decision follows: the consensus on the screen   *)
(* is the one on file, and that decision's.                                *)
StatusOf == [none |-> "Awaiting Operator", signoff |-> "Consensus Reached", veto |-> "Vetoed"]
DecisionsShow ==
    told.decisions = decided.count /\ shown["consensus"].of \notin told.early =>
        /\ shown["consensus"].state = Consensus
        /\ Consensus.status = StatusOf[decided.last]
=============================================================================
