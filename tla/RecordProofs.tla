--------------------------- MODULE RecordProofs -----------------------------
(***************************************************************************)
(* Proofs about StatemRunbook for any verification plan, number of retries *)
(* and number of faults: its phases come in their order, what is finished  *)
(* is final, and a phase is repeated only at the price of a fault.         *)
(* After it the replay leases, the jobs of the SQLite store, and the runs  *)
(* of the review loop; and last what MCRecords checks of the four side by  *)
(* side.                                                                   *)
(***************************************************************************)
EXTENDS MCRecords, Sequences, FiniteSetTheorems, TLAPS

FileType == [state : States, attempts : 0 .. MaxRetries, passed : BOOLEAN]
CallType == [state : States, attempts : 0 .. MaxRetries, passed : BOOLEAN,
             pc : Handlers \cup {"idle", "go", "catch"}, cmd : Commands, success : BOOLEAN]

-----------------------------------------------------------------------------
(* Type correctness                                                        *)

LEMMA NoCallTyped == NoCall \in CallType /\ Fresh \in FileType
BY RunbookAssumption DEF NoCall, Fresh, CallType, FileType, States, Phases, Terminal, Handlers, Commands

LEMMA CallsTyped ==
    ASSUME TypeOK
    PROVE  /\ \A p \in Handlers \cup {"idle", "go", "catch"} : Goto(p) \in CallType
           /\ \A s \in States, p \in Handlers \cup {"idle", "go", "catch"} : ToState(s, p) \in CallType
BY DEF TypeOK, Goto, ToState, CallType

LEMMA SpendTyped ==
    ASSUME TypeOK, NEW f \in Faults, Spend(f)
    PROVE  spent' \in [Faults -> Nat]
BY DEF TypeOK, Spend

(* Whatever becomes of a save, the file and the call keep their types.     *)
LEMMA SaveTyped ==
    ASSUME TypeOK, NEW c \in CallType, NEW next \in CallType, NEW thrown \in CallType,
           Save(c, next, thrown)
    PROVE  saved' \in FileType /\ torn' \in BOOLEAN /\ call' \in CallType /\ spent' \in [Faults -> Nat]
<1>1. Checkpoint(c) \in FileType
  BY DEF Checkpoint, CallType, FileType
<1>2. CASE /\ saved' = IF torn THEN saved ELSE Checkpoint(c)
           /\ torn' = FALSE /\ call' = next /\ UNCHANGED spent
  BY <1>1, <1>2 DEF TypeOK, FileType
<1>3. CASE Spend("tear") /\ torn' = TRUE /\ call' = NoCall /\ UNCHANGED saved
  BY <1>3, NoCallTyped, SpendTyped DEF TypeOK, FileType, Faults
<1>4. CASE Spend("disk") /\ call' = thrown /\ UNCHANGED <<saved, torn>>
  BY <1>4, SpendTyped DEF TypeOK, FileType, Faults
<1> QED BY <1>2, <1>3, <1>4 DEF Save

LEMMA SaveAndGoTyped ==
    ASSUME TypeOK, NEW c \in CallType, SaveAndGo(c)
    PROVE  saved' \in FileType /\ torn' \in BOOLEAN /\ call' \in CallType /\ spent' \in [Faults -> Nat]
<1>1. [c EXCEPT !.pc = "go"] \in CallType /\ [c EXCEPT !.pc = "catch"] \in CallType
  BY DEF CallType
<1> QED BY <1>1, SaveTyped DEF SaveAndGo

LEMMA BeginsTyped ==
    ASSUME TypeOK, NEW h \in Handlers, Begins(h)
    PROVE  runs' \in [Handlers -> Nat]
BY DEF TypeOK, Begins

LEMMA AfterTyped ==
    ASSUME TypeOK, NEW h \in Handlers \ {"verify"}
    PROVE  After(h) \in CallType
BY DEF TypeOK, After, ToState, CallType, Handlers, Phases, States, Terminal

LEMMA ReportTyped ==
    ASSUME TypeOK, Report(call)
    PROVE  reports' \subseteq {"PASSED", "FAILED", "CANCELLED"}
BY DEF TypeOK, Report

LEMMA TypeByParts ==
    /\ TypeOK <=> /\ saved \in FileType /\ torn \in BOOLEAN /\ call \in CallType
                  /\ spent \in [Faults -> Nat] /\ runs \in [Handlers -> Nat]
                  /\ green \subseteq Commands /\ reports \subseteq {"PASSED", "FAILED", "CANCELLED"}
    /\ TypeOK' <=> /\ saved' \in FileType /\ torn' \in BOOLEAN /\ call' \in CallType
                   /\ spent' \in [Faults -> Nat] /\ runs' \in [Handlers -> Nat]
                   /\ green' \subseteq Commands /\ reports' \subseteq {"PASSED", "FAILED", "CANCELLED"}
BY DEF TypeOK, FileType, CallType

LEMMA TypeInit == Init => TypeOK
<1> SUFFICES ASSUME Init PROVE TypeOK
  OBVIOUS
<1>1. spent \in [Faults -> Nat] /\ runs \in [Handlers -> Nat]
  BY DEF Init
<1>2. /\ saved \in FileType /\ torn \in BOOLEAN /\ call \in CallType
      /\ green \subseteq Commands /\ reports \subseteq {"PASSED", "FAILED", "CANCELLED"}
  BY NoCallTyped DEF Init
<1> QED BY <1>1, <1>2, TypeByParts

LEMMA TypeStep == TypeOK /\ [Next]_vars => TypeOK'
<1> SUFFICES ASSUME TypeOK, [Next]_vars PROVE TypeOK'
  OBVIOUS
<1> USE TypeByParts
<1>1. ASSUME NEW cancel \in BOOLEAN, Call(cancel) PROVE TypeOK'
  <2>1. call' \in CallType
    BY <1>1, NoCallTyped DEF Call, CallType, FileType, Handlers, States
  <2> QED BY <1>1, <2>1 DEF Call
<1>2. ASSUME NEW h \in Handlers, Announce(h) PROVE TypeOK'
  <2>1. Goto(h) \in CallType /\ Goto("catch") \in CallType /\ call \in CallType
    BY CallsTyped
  <2>2. Save(call, Goto(h), Goto("catch")) /\ UNCHANGED <<green, reports>>
    BY <1>2 DEF Announce
  <2>3. Begins(h) \/ UNCHANGED runs
    BY <1>2 DEF Announce
  <2> QED BY <2>1, <2>2, <2>3, SaveTyped, BeginsTyped
<1>3. CASE BeginExecute
  BY <1>3, CallsTyped, BeginsTyped DEF BeginExecute, Handlers, Phases
<1>4. CASE BeginVerify
  <2>1. call.attempts + 1 \in 0 .. MaxRetries /\ 1 \in Commands
    BY <1>4, RunbookAssumption DEF BeginVerify, Retries, CallType, Commands
  <2>2. call' \in CallType
    BY <1>4, <2>1 DEF BeginVerify, Goto, CallType, Handlers, Phases
  <2> QED BY <1>4, <2>2, BeginsTyped DEF BeginVerify, Handlers, Phases
<1>5. CASE BarrierFails
  BY <1>5, CallsTyped DEF BarrierFails
<1>6. CASE BeginHandoff
  BY <1>6, CallsTyped, BeginsTyped DEF BeginHandoff, Handlers, Phases
<1>7. CASE Return
  BY <1>7, NoCallTyped, ReportTyped DEF Return
<1>8. CASE Catch
  <2>1. ToState("FAILED", "go") \in CallType
    BY CallsTyped DEF States, Terminal
  <2> QED BY <1>8, <2>1, NoCallTyped, SaveTyped DEF Catch
<1>9. ASSUME NEW h \in Handlers, Succeeds(h) PROVE TypeOK'
  BY <1>9, AfterTyped, SaveAndGoTyped DEF Succeeds
<1>10. CASE CommandPasses
  <2>1. green' \subseteq Commands /\ UNCHANGED <<runs, reports>>
    BY <1>10 DEF CommandPasses, CallType
  <2>2. CASE call.cmd + 1 \in Commands
    BY <1>10, <2>1, <2>2 DEF CommandPasses, CallType
  <2>3. CASE call.cmd + 1 \notin Commands
    <3>1. [ToState("handoff", "go") EXCEPT !.passed = TRUE] \in CallType
      BY DEF ToState, CallType, States, Phases
    <3> QED BY <1>10, <2>1, <2>3, <3>1, SaveAndGoTyped DEF CommandPasses
  <2> QED BY <2>2, <2>3
<1>11. CASE CommandFails
  <2>1. ToState("execute", "go") \in CallType /\ Goto("go") \in CallType
    BY CallsTyped DEF States, Phases
  <2> QED BY <1>11, <2>1, SaveAndGoTyped DEF CommandFails
<1>12. CASE HandlerFails
  BY <1>12, CallsTyped, SpendTyped DEF HandlerFails, Faults
<1>13. CASE Suspends
  BY <1>13, NoCallTyped, SpendTyped, ReportTyped DEF Suspends, Faults
<1>14. CASE Crash
  BY <1>14, NoCallTyped, SpendTyped DEF Crash, Faults
<1>15. CASE UNCHANGED vars
  BY <1>15 DEF vars
<1> QED BY <1>1, <1>2, <1>3, <1>4, <1>5, <1>6, <1>7, <1>8, <1>9, <1>10, <1>11, <1>12, <1>13,
           <1>14, <1>15 DEF Next, Proceed, Answer

THEOREM TypeCorrect == Spec => []TypeOK
BY TypeInit, TypeStep, PTL DEF Spec

-----------------------------------------------------------------------------
(* The order of the phases                                                 *)

(* A call in a handler is in the state of that name, and has succeeded only*)
(* when the runbook is completed, or failed to be saved as such.           *)
CallAgrees ==
    /\ call.pc = "idle" => call = NoCall
    /\ call.pc \in Handlers => call.state = call.pc
    /\ call.success => call.state \in {"COMPLETED", "FAILED"}

(* The call is never before what the file says, though it may be ahead.    *)
RolledBack == {"rollback", "CANCELLED", "FAILED"}
FileBounds ==
    call.pc # "idle" =>
        /\ saved.state \in {"COMPLETED", "CANCELLED"} => call.pc = "go" /\ call.state = saved.state
        /\ saved.state \in {"rollback", "FAILED"} => call.state \in RolledBack
        /\ saved.state = "handoff" => call.state \in RolledBack \cup {"handoff", "COMPLETED"}

(* Whoever is at the handoff, call or file, has every command passed.      *)
Verified ==
    /\ call.pc = "verify" => 1 .. (call.cmd - 1) \subseteq green
    /\ call.state = "handoff" \/ saved.state = "handoff" => green = Commands

RollbackHolds ==
    spent["tear"] = 0 => ~torn /\ (runs["rollback"] > 0 => saved.state \in RolledBack)

SuccessHolds ==
    spent["tear"] + spent["disk"] = 0 =>
        /\ call.success => call.state = "COMPLETED" /\ saved.state = "COMPLETED"
        /\ "PASSED" \in reports => saved.state = "COMPLETED"

OrderInv == CallAgrees /\ FileBounds /\ Verified /\ RollbackHolds /\ SuccessHolds

LEMMA OrderInit == Init => OrderInv
BY RunbookAssumption DEF Init, OrderInv, CallAgrees, FileBounds, Verified, RollbackHolds, SuccessHolds,
   NoCall, Fresh, Handlers, Phases, Faults

(* The three ways a save can go: it lands, or tears, or throws.            *)
Lands(c, next) ==
    /\ saved' = IF torn THEN saved ELSE Checkpoint(c)
    /\ torn' = FALSE /\ call' = next /\ UNCHANGED spent
Tears  == Spend("tear") /\ torn' = TRUE /\ call' = NoCall /\ UNCHANGED saved
Throws(thrown) == Spend("disk") /\ call' = thrown /\ UNCHANGED <<saved, torn>>

LEMMA SaveOutcomes ==
    ASSUME NEW c, NEW next, NEW thrown
    PROVE  Save(c, next, thrown) <=> Lands(c, next) \/ Tears \/ Throws(thrown)
BY DEF Save, Lands, Tears, Throws

(* One more command has passed; after the last, all have.                  *)
LEMMA Passing ==
    ASSUME NEW n \in Commands, NEW g \in SUBSET Commands, 1 .. (n - 1) \subseteq g
    PROVE  /\ 1 .. ((n + 1) - 1) \subseteq g \cup {n}
           /\ n + 1 \notin Commands => g \cup {n} = Commands
<1>1. n \in Nat /\ Steps \in Nat /\ n >= 1 /\ n <= Steps
  BY RunbookAssumption DEF Commands
<1>2. ASSUME NEW i \in 1 .. ((n + 1) - 1) PROVE i \in g \cup {n}
  <2>1. i = n \/ i \in 1 .. (n - 1)
    BY <1>1
  <2> QED BY <2>1
<1>3. n + 1 \notin Commands => n = Steps
  BY <1>1 DEF Commands
<1>4. n = Steps => (n + 1) - 1 = Steps
  BY <1>1
<1> QED BY <1>2, <1>3, <1>4 DEF Commands

LEMMA OrderStep == TypeOK /\ OrderInv /\ [Next]_vars => OrderInv'
<1> SUFFICES ASSUME TypeOK, OrderInv, [Next]_vars PROVE OrderInv'
  OBVIOUS
<1> USE DEF OrderInv, CallAgrees, FileBounds, Verified, RollbackHolds, SuccessHolds, RolledBack,
        TypeOK, Handlers, Phases, States, Terminal, Faults, NoCall
<1>1. ASSUME NEW cancel \in BOOLEAN, Call(cancel) PROVE OrderInv'
  BY <1>1 DEF Call
<1>2. ASSUME NEW h \in Handlers, Announce(h) PROVE OrderInv'
  BY <1>2 DEF Announce, Save, Goto, Begins, Checkpoint, Spend
<1>3. CASE BeginExecute
  BY <1>3 DEF BeginExecute, Goto, Begins
<1>4. CASE BeginVerify
  BY <1>4 DEF BeginVerify, Goto, Begins
<1>5. CASE BarrierFails
  BY <1>5 DEF BarrierFails, Goto
<1>6. CASE BeginHandoff
  BY <1>6 DEF BeginHandoff, Goto, Begins
<1>7. CASE Return
  BY <1>7 DEF Return, Report
<1>8. CASE Catch
  <2>1. CASE Lands(ToState("FAILED", "go"), ToState("FAILED", "go"))
    BY <1>8, <2>1 DEF Catch, Lands, ToState, Checkpoint
  <2>2. CASE Tears
    BY <1>8, <2>2 DEF Catch, Tears, Spend
  <2>3. CASE Throws(NoCall)
    BY <1>8, <2>3 DEF Catch, Throws, Spend
  <2> QED BY <1>8, <2>1, <2>2, <2>3, SaveOutcomes DEF Catch
<1>9. ASSUME NEW h \in Handlers, Succeeds(h) PROVE OrderInv'
  <2> DEFINE c == After(h)
  <2>1. CASE Lands(c, [c EXCEPT !.pc = "go"])
    BY <1>9, <2>1 DEF Succeeds, After, Lands, ToState, Checkpoint
  <2>2. CASE Tears
    BY <1>9, <2>2 DEF Succeeds, Tears, Spend
  <2>3. CASE Throws([c EXCEPT !.pc = "catch"])
    BY <1>9, <2>3 DEF Succeeds, After, ToState, Throws, Spend
  <2> QED BY <1>9, <2>1, <2>2, <2>3, SaveOutcomes DEF Succeeds, SaveAndGo
<1>10. CASE CommandPasses
  <2> DEFINE c == [ToState("handoff", "go") EXCEPT !.passed = TRUE]
  <2>1. CASE call.cmd + 1 \in Commands
    <3>1. /\ call.pc = "verify" /\ green' = green \cup {call.cmd}
          /\ call' = [call EXCEPT !.cmd = @ + 1] /\ UNCHANGED <<saved, torn, spent, runs, reports>>
      BY <1>10, <2>1 DEF CommandPasses
    <3>2. 1 .. (call'.cmd - 1) \subseteq green'
      <4>1. call'.cmd = call.cmd + 1
        BY <3>1
      <4> QED BY <3>1, <4>1, Passing
    <3>3. green = Commands => green' = Commands
      BY <3>1 DEF Commands
    <3> QED BY <3>1, <3>2, <3>3
  <2>2. CASE call.cmd + 1 \notin Commands
    <3> HIDE DEF c
    <3>0. /\ call.pc = "verify" /\ green' = green \cup {call.cmd}
          /\ SaveAndGo(c) /\ UNCHANGED <<runs, reports>>
      BY <1>10, <2>2 DEF CommandPasses, c
    <3>1. green' = Commands
      BY <2>2, <3>0, Passing
    <3>2. CASE Lands(c, [c EXCEPT !.pc = "go"])
      BY <3>0, <3>1, <3>2 DEF Lands, ToState, Checkpoint, c
    <3>3. CASE Tears
      BY <3>0, <3>1, <3>3 DEF Tears, Spend
    <3>4. CASE Throws([c EXCEPT !.pc = "catch"])
      BY <3>0, <3>1, <3>4 DEF Throws, ToState, Spend, c
    <3> QED BY <3>0, <3>2, <3>3, <3>4, SaveOutcomes DEF SaveAndGo
  <2> QED BY <2>1, <2>2
<1>11. CASE CommandFails
  <2> DEFINE c == ToState("execute", "go")
  <2>1. call.pc = "verify" /\ UNCHANGED <<runs, green, reports>>
    BY <1>11 DEF CommandFails
  <2>2. CASE Lands(c, [c EXCEPT !.pc = "go"])
    BY <2>1, <2>2 DEF Lands, ToState, Checkpoint
  <2>3. CASE Tears
    BY <2>1, <2>3 DEF Tears, Spend
  <2>4. CASE Throws([c EXCEPT !.pc = "catch"])
    BY <2>1, <2>4 DEF Throws, ToState, Spend
  <2>5. CASE call' = Goto("go") /\ UNCHANGED <<saved, torn, spent>>
    BY <2>1, <2>5 DEF Goto
  <2> QED BY <1>11, <2>2, <2>3, <2>4, <2>5, SaveOutcomes DEF CommandFails, SaveAndGo
<1>12. CASE HandlerFails
  BY <1>12 DEF HandlerFails, Goto, Spend
<1>13. CASE Suspends
  BY <1>13 DEF Suspends, Spend, Report
<1>14. CASE Crash
  BY <1>14 DEF Crash, Spend
<1>15. CASE UNCHANGED vars
  BY <1>15 DEF vars
<1> QED BY <1>1, <1>2, <1>3, <1>4, <1>5, <1>6, <1>7, <1>8, <1>9, <1>10, <1>11, <1>12, <1>13,
           <1>14, <1>15 DEF Next, Proceed, Answer

InOrder == TypeOK /\ OrderInv

LEMMA InOrderKept == Init /\ [][Next]_vars => []InOrder
BY TypeInit, TypeStep, OrderInit, OrderStep, PTL DEF InOrder

LEMMA InOrderInvariant == Spec => []InOrder
BY InOrderKept, PTL DEF Spec

(* Whatever the plan, the retries and the faults: handoff runs only on     *)
(* verified work, no phase after a rollback unless a checkpoint was torn,  *)
(* and what was reported PASSED is COMPLETED on disk.                      *)
THEOREM PhasesInOrderAlways == Spec => []PhasesInOrder
<1>1. InOrder => PhasesInOrder
  <2> SUFFICES ASSUME InOrder PROVE HandoffIsVerified /\ RollbackEndsWork /\ PassedIsKept
    BY DEF PhasesInOrder, InOrder
  <2> USE DEF InOrder, OrderInv
  <2>1. HandoffIsVerified
    BY DEF HandoffIsVerified, CallAgrees, Verified, Handlers, Phases
  <2>2. RollbackEndsWork
    BY DEF RollbackEndsWork, RollbackHolds, CallAgrees, FileBounds, RolledBack, Handlers, Phases,
       TypeOK, Faults
  <2>3. PassedIsKept
    BY DEF PassedIsKept, SuccessHolds, TypeOK, Faults
  <2> QED BY <2>1, <2>2, <2>3
<1> QED BY <1>1, InOrderInvariant, PTL

(* A completed or cancelled runbook does nothing more, and a failed one    *)
(* can only be rolled back, however often it is called.                    *)
Final ==
    /\ saved.state \in {"COMPLETED", "CANCELLED"} => UNCHANGED <<saved, runs>>
    /\ saved.state = "FAILED" => \A p \in Phases : runs'[p] = runs[p]

LEMMA FinalStep == InOrder /\ [Next]_vars => Final
<1> SUFFICES ASSUME InOrder, [Next]_vars PROVE Final
  OBVIOUS
<1> USE DEF InOrder, OrderInv, CallAgrees, FileBounds, RolledBack, Final, TypeOK, Handlers, Phases,
        States, Terminal
<1>1. ASSUME NEW cancel \in BOOLEAN, Call(cancel) PROVE Final
  BY <1>1 DEF Call
<1>2. ASSUME NEW h \in Handlers, Announce(h) PROVE Final
  BY <1>2 DEF Announce, Begins
<1>3. CASE BeginExecute
  BY <1>3 DEF BeginExecute
<1>4. CASE BeginVerify
  BY <1>4 DEF BeginVerify
<1>5. CASE BarrierFails \/ Return \/ HandlerFails \/ Suspends \/ Crash \/ UNCHANGED vars
  BY <1>5 DEF BarrierFails, Return, HandlerFails, Suspends, Crash, vars
<1>6. CASE BeginHandoff
  BY <1>6 DEF BeginHandoff
<1>7. CASE Catch
  BY <1>7 DEF Catch
<1>8. ASSUME NEW h \in Handlers, Succeeds(h) PROVE Final
  BY <1>8 DEF Succeeds
<1>9. CASE CommandPasses \/ CommandFails
  BY <1>9 DEF CommandPasses, CommandFails
<1> QED BY <1>1, <1>2, <1>3, <1>4, <1>5, <1>6, <1>7, <1>8, <1>9 DEF Next, Proceed, Answer

THEOREM EndsAreFinalAlways == Spec => EndsAreFinal
<1>1. InOrder /\ [Next]_vars => [Final]_vars
  BY FinalStep
<1>2. [][Final]_vars => EndsAreFinal
  BY PTL DEF EndsAreFinal, Final
<1> QED BY <1>1, <1>2, InOrderInvariant, PTL DEF Spec

-----------------------------------------------------------------------------
(* Repeats cost faults                                                     *)

(* How often phase h may still begin without a fault, going on from state s*)
(* with a attempts made.                                                   *)
Rem(a)  == MaxRetries - a
Less(n) == IF n > 0 THEN n - 1 ELSE 0
Left(h, s, a) ==
    CASE h = "plan"    -> IF s = "plan" THEN 1 ELSE 0
      [] h = "execute" -> IF s \in {"plan", "execute"} THEN Rem(a)
                          ELSE IF s = "verify" THEN Less(Rem(a)) ELSE 0
      [] h = "verify"  -> IF s \in {"plan", "execute", "verify"} THEN Rem(a) ELSE 0
      [] h = "handoff" -> IF s \in Phases THEN 1 ELSE 0

(* What a call that is cut short leaves to do, and what the call itself    *)
(* has to do: in a handler, what will be left in the state it leads to,    *)
(* for verify in the worse one.  A torn line costs a checkpoint, so it may *)
(* cost one more beginning; and so may the checkpoint of a verification.   *)
OnFile(h) == Left(h, saved.state, saved.attempts)
Torn == IF torn THEN 1 ELSE 0
AtPhase(p) == call.pc = p \/ (call.pc = "go" /\ call.state = p)
Follows(p) == CASE p = "plan" -> "execute" [] p = "execute" -> "verify" [] p = "verify" -> "execute"
Working == {"plan", "execute", "verify"}
Ahead(h) ==
    IF call.pc \in Working THEN Left(h, Follows(call.pc), call.attempts)
    ELSE IF call.pc = "go" /\ call.state \in Working THEN Left(h, call.state, call.attempts)
    ELSE IF AtPhase("handoff") /\ ~(h = "handoff" /\ call.pc = "go") THEN Less(OnFile(h))
    ELSE OnFile(h)
Pending(h) == IF call.pc = "catch" THEN Less(OnFile(h) + Torn) ELSE Ahead(h) + Torn
PendingRollback ==
    IF call.pc = "rollback" \/ saved.state \in {"COMPLETED", "CANCELLED"} THEN 0 ELSE 1

Cuts     == spent["crash"] + spent["suspend"] + spent["disk"] + 2 * spent["tear"]
Limit(h) == IF h \in {"plan", "handoff"} THEN 1 ELSE MaxRetries

(* The file lags behind the call by one checkpoint at most, and only after *)
(* the torn line has been used up.                                         *)
Same     == call.attempts = saved.attempts
OneMore  == call.attempts = saved.attempts + 1
GluedTo(s) == saved.state = s /\ ~torn
Lag ==
    /\ call.pc \in {"plan", "rollback"} => ~torn
    /\ AtPhase("plan") => saved.state = "plan" /\ Same
    /\ AtPhase("execute") => (saved.state = "execute" /\ Same) \/ (GluedTo("verify") /\ OneMore)
    /\ call.pc = "go" /\ call.state = "verify" =>
           /\ saved.state = "verify" \/ GluedTo("execute")
           /\ Same \/ (OneMore /\ ~Retries)
    /\ call.pc = "verify" => (saved.state = "verify" \/ GluedTo("execute")) /\ OneMore
    /\ AtPhase("handoff") => saved.state = "handoff" \/ GluedTo("verify")

LEMMA LagInit == Init => Lag
BY DEF Init, Lag, NoCall, Fresh, AtPhase

LEMMA LagStep == InOrder /\ Lag /\ [Next]_vars => Lag'
<1> SUFFICES ASSUME InOrder, Lag, [Next]_vars PROVE Lag'
  OBVIOUS
<1> USE DEF InOrder, OrderInv, CallAgrees, FileBounds, RolledBack, TypeOK, Handlers, Phases, States, Terminal,
        Lag, Same, OneMore, GluedTo, AtPhase, Retries, NoCall
<1>1. ASSUME NEW cancel \in BOOLEAN, Call(cancel) PROVE Lag'
  BY <1>1 DEF Call
<1>2. ASSUME NEW h \in Handlers, Announce(h) PROVE Lag'
  <2>1. CASE Lands(call, Goto(h))
    BY <1>2, <2>1 DEF Announce, Lands, Goto, Checkpoint
  <2>2. CASE Tears
    BY <1>2, <2>2 DEF Announce, Tears
  <2>3. CASE Throws(Goto("catch"))
    BY <1>2, <2>3 DEF Announce, Throws, Goto
  <2> QED BY <1>2, <2>1, <2>2, <2>3, SaveOutcomes DEF Announce
<1>3. CASE BeginExecute
  BY <1>3 DEF BeginExecute, Goto
<1>4. CASE BeginVerify
  BY <1>4 DEF BeginVerify, Goto
<1>5. CASE BarrierFails
  BY <1>5 DEF BarrierFails, Goto
<1>6. CASE BeginHandoff
  BY <1>6 DEF BeginHandoff, Goto
<1>7. CASE Return \/ Suspends \/ Crash
  BY <1>7 DEF Return, Suspends, Crash
<1>8. CASE Catch
  <2>1. CASE Lands(ToState("FAILED", "go"), ToState("FAILED", "go"))
    BY <1>8, <2>1 DEF Catch, Lands, ToState, Checkpoint
  <2>2. CASE Tears
    BY <1>8, <2>2 DEF Catch, Tears
  <2>3. CASE Throws(NoCall)
    BY <1>8, <2>3 DEF Catch, Throws
  <2> QED BY <1>8, <2>1, <2>2, <2>3, SaveOutcomes DEF Catch
<1>9. ASSUME NEW h \in Handlers, Succeeds(h) PROVE Lag'
  <2> DEFINE c == After(h)
  <2>1. CASE Lands(c, [c EXCEPT !.pc = "go"])
    BY <1>9, <2>1 DEF Succeeds, After, Lands, ToState, Checkpoint
  <2>2. CASE Tears
    BY <1>9, <2>2 DEF Succeeds, Tears
  <2>3. CASE Throws([c EXCEPT !.pc = "catch"])
    BY <1>9, <2>3 DEF Succeeds, After, ToState, Throws
  <2> QED BY <1>9, <2>1, <2>2, <2>3, SaveOutcomes DEF Succeeds, SaveAndGo
<1>10. CASE CommandPasses
  <2> DEFINE c == [ToState("handoff", "go") EXCEPT !.passed = TRUE]
  <2>1. CASE Lands(c, [c EXCEPT !.pc = "go"])
    BY <1>10, <2>1 DEF CommandPasses, Lands, ToState, Checkpoint
  <2>2. CASE Tears
    BY <1>10, <2>2 DEF Tears
  <2>3. CASE Throws([c EXCEPT !.pc = "catch"])
    BY <1>10, <2>3 DEF CommandPasses, Throws, ToState
  <2>4. CASE call' = [call EXCEPT !.cmd = @ + 1] /\ UNCHANGED <<saved, torn, spent>>
    BY <1>10, <2>4 DEF CommandPasses
  <2> QED BY <1>10, <2>1, <2>2, <2>3, <2>4, SaveOutcomes DEF CommandPasses, SaveAndGo
<1>11. CASE CommandFails
  <2> DEFINE c == ToState("execute", "go")
  <2>1. CASE Lands(c, [c EXCEPT !.pc = "go"])
    BY <1>11, <2>1 DEF CommandFails, Lands, ToState, Checkpoint
  <2>2. CASE Tears
    BY <1>11, <2>2 DEF Tears
  <2>3. CASE Throws([c EXCEPT !.pc = "catch"])
    BY <1>11, <2>3 DEF CommandFails, Throws, ToState
  <2>4. CASE ~Retries /\ call' = Goto("go") /\ UNCHANGED <<saved, torn, spent>>
    BY <1>11, <2>4 DEF CommandFails, Goto
  <2> QED BY <1>11, <2>1, <2>2, <2>3, <2>4, SaveOutcomes DEF CommandFails, SaveAndGo
<1>12. CASE HandlerFails
  BY <1>12 DEF HandlerFails, Goto
<1>13. CASE UNCHANGED vars
  BY <1>13 DEF vars
<1> QED BY <1>1, <1>2, <1>3, <1>4, <1>5, <1>6, <1>7, <1>8, <1>9, <1>10, <1>11, <1>12, <1>13
        DEF Next, Proceed, Answer

LEMMA LeftTyped ==
    ASSUME NEW h \in Phases, NEW s, NEW a \in 0 .. MaxRetries
    PROVE  Left(h, s, a) \in Nat
BY RunbookAssumption DEF Left, Rem, Less, Phases

(* What is left on file is at most one beginning more than the call has    *)
(* ahead of it, and when the process dies now it is that one's fault.      *)
LEMMA PendingBounds ==
    ASSUME InOrder, Lag, NEW h \in Phases
    PROVE  /\ OnFile(h) \in Nat /\ Torn \in 0 .. 1 /\ Pending(h) \in Nat
           /\ OnFile(h) + Torn - 1 <= Pending(h)
<1>1. saved.attempts \in 0 .. MaxRetries /\ call.attempts \in 0 .. MaxRetries /\ torn \in BOOLEAN
  BY DEF InOrder, TypeOK
<1>2. OnFile(h) \in Nat /\ Ahead(h) \in Nat
  BY <1>1, LeftTyped DEF OnFile, Ahead, Less
<1>3. Torn \in 0 .. 1
  BY DEF Torn
<1>4. OnFile(h) <= Ahead(h) + 1
  <2> USE DEF AtPhase, GluedTo, Same, OneMore, Retries, Phases
  <2>1. CASE call.pc = "plan"
    BY <1>1, <2>1, RunbookAssumption DEF OnFile, Ahead, Left, Rem, Less, Follows, Lag, Working
  <2>2. CASE call.pc = "execute"
    BY <1>1, <2>2, RunbookAssumption DEF OnFile, Ahead, Left, Rem, Less, Follows, Lag, Working
  <2>3. CASE call.pc = "verify"
    <3>1. Ahead(h) = Left(h, "execute", call.attempts)
      BY <2>3 DEF Ahead, Follows, Working
    <3> QED BY <1>1, <2>3, <3>1, RunbookAssumption DEF OnFile, Left, Rem, Less, Lag
  <2>4. CASE call.pc = "go" /\ call.state \in Working
    <3>1. Ahead(h) = Left(h, call.state, call.attempts)
      BY <2>4 DEF Ahead, Working
    <3>2. CASE call.state = "plan"
      BY <1>1, <2>4, <3>1, <3>2, RunbookAssumption DEF OnFile, Left, Rem, Less, Lag
    <3>3. CASE call.state = "execute"
      BY <1>1, <2>4, <3>1, <3>3, RunbookAssumption DEF OnFile, Left, Rem, Less, Lag
    <3>4. CASE call.state = "verify"
      BY <1>1, <2>4, <3>1, <3>4, RunbookAssumption DEF OnFile, Left, Rem, Less, Lag
    <3> QED BY <2>4, <3>2, <3>3, <3>4 DEF Working
  <2>5. CASE call.pc \notin Working /\ ~(call.pc = "go" /\ call.state \in Working)
    BY <1>2, <2>5 DEF Ahead, Less
  <2> QED BY <2>1, <2>2, <2>3, <2>4, <2>5 DEF Working
<1> QED BY <1>2, <1>3, <1>4 DEF Pending, Less

(* What is pending after a step that ends the call is what is on file.     *)
LEMMA PendingCut ==
    ASSUME InOrder, Lag, NEW h \in Phases, call' = NoCall, UNCHANGED saved
    PROVE  Pending(h)' = OnFile(h) + Torn'
BY DEF Pending, Ahead, OnFile, NoCall, Working, AtPhase

LEMMA CutsTyped == TypeOK => Cuts \in Nat
BY DEF TypeOK, Cuts, Faults

LEMMA SpendCuts ==
    ASSUME TypeOK, NEW f \in Faults, Spend(f)
    PROVE  /\ Cuts' = Cuts + (IF f = "fail" THEN 0 ELSE IF f = "tear" THEN 2 ELSE 1)
           /\ spent'["fail"] = spent["fail"] + (IF f = "fail" THEN 1 ELSE 0)
BY DEF TypeOK, Spend, Cuts, Faults

(* Phase h has begun as often as is paid for: what it may have cost since  *)
(* is what the step spent.                                                 *)
Paid(h) == (runs'[h] + Pending(h)') - Cuts' <= (runs[h] + Pending(h)) - Cuts

LEMMA PaidTears ==
    ASSUME InOrder, Lag, NEW h \in Phases, Tears, UNCHANGED runs
    PROVE  Paid(h)
<1>1. Pending(h)' = OnFile(h) + Torn' /\ Torn' = 1
  BY PendingCut DEF Tears, Torn
<1>2. Cuts' = Cuts + 2
  BY SpendCuts DEF Tears, InOrder, Faults
<1> QED BY <1>1, <1>2, PendingBounds, CutsTyped DEF Paid, InOrder, TypeOK, Handlers

LEMMA PaidThrows ==
    ASSUME InOrder, Lag, NEW h \in Phases, NEW c, Throws(c), c = NoCall \/ c.pc = "catch", UNCHANGED runs
    PROVE  Paid(h)
<1>1. Cuts' = Cuts + 1
  BY SpendCuts DEF Throws, InOrder, Faults
<1>2. CASE c = NoCall
  <2>1. Pending(h)' = OnFile(h) + Torn
    BY <1>2, PendingCut DEF Throws, Torn
  <2> QED BY <1>1, <2>1, PendingBounds, CutsTyped DEF Paid, InOrder, TypeOK, Handlers
<1>3. CASE c.pc = "catch"
  <2>1. Pending(h)' <= Pending(h) /\ Pending(h)' \in Nat
    <3>1. Pending(h)' = Less(OnFile(h) + Torn)
      BY <1>3 DEF Pending, OnFile, Torn, Throws
    <3> QED BY <3>1, PendingBounds DEF Less
  <2> QED BY <1>1, <2>1, PendingBounds, CutsTyped DEF Paid, InOrder, TypeOK, Handlers
<1> QED BY <1>2, <1>3

(* A save that lands: what was torn is used up.                            *)
LEMMA PaidLands ==
    ASSUME InOrder, Lag, NEW h \in Phases, UNCHANGED <<spent, runs>>,
           Pending(h)' \in Nat, Pending(h)' <= Pending(h)
    PROVE  Paid(h)
<1>1. Cuts' = Cuts
  BY DEF Cuts
<1> QED BY <1>1, PendingBounds, CutsTyped DEF Paid, InOrder, TypeOK, Handlers

LEMMA LandsOn ==
    ASSUME InOrder, NEW h \in Phases, NEW c \in CallType, c.state \in Phases, Lands(c, [c EXCEPT !.pc = "go"])
    PROVE  /\ c.state # "handoff" => Pending(h)' = Left(h, c.state, c.attempts)
           /\ c.state = "handoff" => Pending(h)' = IF h = "handoff" THEN OnFile(h)' ELSE Less(OnFile(h)')
           /\ torn => OnFile(h)' = OnFile(h)
           /\ ~torn => OnFile(h)' = Left(h, c.state, c.attempts)
<1>1. call' = [c EXCEPT !.pc = "go"] /\ Torn' = 0
  BY DEF Lands, Torn
<1>2. call'.pc = "go" /\ call'.state = c.state /\ call'.attempts = c.attempts
  BY <1>1 DEF CallType
<1>3. OnFile(h)' \in Nat
  <2>1. saved'.attempts \in 0 .. MaxRetries
    BY DEF Lands, InOrder, TypeOK, Checkpoint, CallType
  <2> QED BY <2>1, LeftTyped DEF OnFile
<1>4. c.state # "handoff" => Left(h, c.state, c.attempts) \in Nat
  BY LeftTyped DEF CallType
<1>5. c.state # "handoff" => Pending(h)' = Left(h, c.state, c.attempts)
  BY <1>1, <1>2, <1>4 DEF Pending, Ahead, Working, Phases
<1>6. c.state = "handoff" => Pending(h)' = IF h = "handoff" THEN OnFile(h)' ELSE Less(OnFile(h)')
  BY <1>1, <1>2, <1>3 DEF Pending, Ahead, Working, AtPhase, Less
<1>7. torn => OnFile(h)' = OnFile(h)
  BY DEF OnFile, Lands
<1>8. ~torn => OnFile(h)' = Left(h, c.state, c.attempts)
  BY DEF OnFile, Lands, Checkpoint
<1> QED BY <1>5, <1>6, <1>7, <1>8

LEMMA LandsTerminal ==
    ASSUME InOrder, NEW h \in Phases, NEW c \in CallType, c.state \in Terminal, Lands(c, [c EXCEPT !.pc = "go"])
    PROVE  Pending(h)' = IF torn THEN OnFile(h) ELSE 0
<1>1. call' = [c EXCEPT !.pc = "go"] /\ Torn' = 0
  BY DEF Lands, Torn
<1>2. call'.pc = "go" /\ call'.state = c.state
  BY <1>1 DEF CallType
<1>3. Pending(h)' = OnFile(h)'
  <2>1. saved'.attempts \in 0 .. MaxRetries
    BY DEF Lands, InOrder, TypeOK, Checkpoint, CallType
  <2>2. OnFile(h)' \in Nat
    BY <2>1, LeftTyped DEF OnFile
  <2> QED BY <1>1, <1>2, <2>2 DEF Pending, Ahead, Working, AtPhase, Terminal
<1>4. ~torn => OnFile(h)' = 0
  BY DEF OnFile, Left, Lands, Checkpoint, Terminal, Phases
<1>5. torn => OnFile(h)' = OnFile(h)
  BY DEF OnFile, Lands
<1> QED BY <1>3, <1>4, <1>5

(* What each save of the runbook leaves, if it lands.                      *)
LEMMA PaidSucceeds ==
    ASSUME InOrder, Lag, NEW h \in Phases, NEW p \in Handlers, Succeeds(p)
    PROVE  Paid(h)
<1> DEFINE c == After(p)
<1>1. c \in CallType /\ call.pc = p /\ p # "verify" /\ UNCHANGED runs
  BY CallsTyped DEF Succeeds, InOrder, TypeOK, CallType, After, ToState, Handlers, Phases, States, Terminal
<1>2. CASE Lands(c, [c EXCEPT !.pc = "go"])
  <2>1. Pending(h)' \in Nat /\ Pending(h)' <= Pending(h)
    <3>1. CASE p = "plan"
      <4>0. Left(h, "execute", call.attempts) \in Nat
        BY LeftTyped DEF InOrder, TypeOK
      <4>1. Pending(h) = Left(h, "execute", call.attempts)
        BY <1>1, <3>1, <4>0 DEF Lag, Pending, Ahead, Torn, Follows, Working
      <4>2. c.state = "execute" /\ c.attempts = call.attempts
        BY <3>1 DEF After, ToState, InOrder, TypeOK, CallType
      <4> HIDE DEF c
      <4> QED BY <1>1, <1>2, <4>1, <4>2, LandsOn, PendingBounds DEF Phases
    <3>2. CASE p = "execute"
      <4>1. Pending(h) = Left(h, "verify", call.attempts) + Torn
        BY <1>1, <3>2 DEF Pending, Ahead, Follows, Working
      <4>2. c.state = "verify" /\ c.attempts = call.attempts
        BY <3>2 DEF After, ToState, InOrder, TypeOK, CallType
      <4>3. Left(h, "verify", call.attempts) \in Nat
        BY LeftTyped DEF InOrder, TypeOK
      <4> HIDE DEF c
      <4> QED BY <1>1, <1>2, <4>1, <4>2, <4>3, LandsOn, PendingBounds DEF Phases
    <3>3. CASE p = "handoff"
      <4>1. Pending(h) = Less(OnFile(h)) + Torn
        BY <1>1, <3>3 DEF Pending, Ahead, Working, AtPhase
      <4>2. c.state = "COMPLETED"
        BY <3>3 DEF After, ToState, InOrder, TypeOK, CallType
      <4> HIDE DEF c
      <4> QED BY <1>1, <1>2, <4>1, <4>2, LandsTerminal, PendingBounds DEF Terminal, Less, Torn
    <3>4. CASE p = "rollback"
      <4>1. ~torn
        BY <1>1, <3>4 DEF Lag
      <4>2. c.state = "CANCELLED"
        BY <3>4 DEF After, ToState, InOrder, TypeOK, CallType
      <4> HIDE DEF c
      <4> QED BY <1>1, <1>2, <4>1, <4>2, LandsTerminal, PendingBounds DEF Terminal
    <3> QED BY <1>1, <3>1, <3>2, <3>3, <3>4 DEF Handlers, Phases
  <2>2. UNCHANGED spent
    BY <1>2 DEF Lands
  <2> QED BY <1>1, <2>1, <2>2, PaidLands
<1>3. CASE Tears
  BY <1>1, <1>3, PaidTears
<1>4. CASE Throws([c EXCEPT !.pc = "catch"])
  <2>1. [c EXCEPT !.pc = "catch"].pc = "catch"
    BY <1>1 DEF CallType
  <2> HIDE DEF c
  <2> QED BY <1>1, <1>4, <2>1, PaidThrows
<1> QED BY <1>2, <1>3, <1>4, SaveOutcomes DEF Succeeds, SaveAndGo

LEMMA PaidPasses ==
    ASSUME InOrder, Lag, NEW h \in Phases, CommandPasses
    PROVE  Paid(h)
<1> DEFINE c == [ToState("handoff", "go") EXCEPT !.passed = TRUE]
<1>1. c \in CallType /\ c.state = "handoff" /\ call.pc = "verify" /\ UNCHANGED runs
  BY CallsTyped DEF CommandPasses, InOrder, TypeOK, CallType, ToState, Handlers, Phases, States, Terminal
<1>2. CASE Lands(c, [c EXCEPT !.pc = "go"])
  <2>1. Pending(h) = Left(h, "execute", call.attempts) + Torn
    BY <1>1 DEF Pending, Ahead, Follows, Working
  <2>2. Left(h, "execute", call.attempts) \in Nat
    BY LeftTyped DEF InOrder, TypeOK
  <2> HIDE DEF c
  <2>3. ASSUME h = "handoff" PROVE Pending(h)' \in Nat /\ Pending(h)' <= Pending(h)
    <3>1. Left(h, "execute", call.attempts) = 1 /\ OnFile(h) = 1 /\ Left(h, c.state, c.attempts) = 1
      BY <1>1, <2>3 DEF Left, OnFile, Lag, GluedTo, Phases
    <3>2. Pending(h)' = 1
      BY <1>1, <1>2, <2>3, <3>1, LandsOn DEF Phases, InOrder, TypeOK
    <3> QED BY <2>1, <3>1, <3>2, PendingBounds
  <2>4. ASSUME h # "handoff" PROVE Pending(h)' \in Nat /\ Pending(h)' <= Pending(h)
    <3>1. Left(h, c.state, c.attempts) = 0
      BY <1>1, <2>4 DEF Left, Phases
    <3>2. Pending(h)' = Less(IF torn THEN OnFile(h) ELSE 0)
      BY <1>1, <1>2, <2>4, <3>1, LandsOn DEF Phases, InOrder, TypeOK
    <3> QED BY <2>1, <2>2, <3>2, PendingBounds DEF Less, Torn
  <2>5. UNCHANGED spent
    BY <1>2 DEF Lands
  <2> QED BY <1>1, <2>3, <2>4, <2>5, PaidLands
<1>3. CASE Tears
  BY <1>1, <1>3, PaidTears
<1>4. CASE Throws([c EXCEPT !.pc = "catch"])
  <2>1. [c EXCEPT !.pc = "catch"].pc = "catch"
    BY <1>1 DEF CallType
  <2> HIDE DEF c
  <2> QED BY <1>1, <1>4, <2>1, PaidThrows
<1>5. CASE call' = [call EXCEPT !.cmd = @ + 1] /\ UNCHANGED <<saved, torn, spent>>
  <2>1. Pending(h)' = Pending(h)
    BY <1>1, <1>5 DEF Pending, Ahead, OnFile, Torn, AtPhase, InOrder, TypeOK
  <2> HIDE DEF c
  <2> QED BY <1>1, <1>5, <2>1, PendingBounds, PaidLands
<1> QED BY <1>2, <1>3, <1>4, <1>5, SaveOutcomes DEF CommandPasses, SaveAndGo

LEMMA PaidFails ==
    ASSUME InOrder, Lag, NEW h \in Phases, CommandFails
    PROVE  Paid(h)
<1> DEFINE c == ToState("execute", "go")
<1>1. c \in CallType /\ c.state = "execute" /\ c.attempts = call.attempts /\ call.pc = "verify" /\ UNCHANGED runs
  BY CallsTyped DEF CommandFails, InOrder, TypeOK, CallType, ToState, Handlers, Phases, States, Terminal
<1>2. Pending(h) = Left(h, "execute", call.attempts) + Torn
  BY <1>1 DEF Pending, Ahead, Follows, Working
<1>3. Left(h, "execute", call.attempts) \in Nat
  BY LeftTyped DEF InOrder, TypeOK
<1>4. CASE Lands(c, [c EXCEPT !.pc = "go"])
  <2>1. UNCHANGED spent
    BY <1>4 DEF Lands
  <2> HIDE DEF c
  <2>2. Pending(h)' = Left(h, "execute", call.attempts)
    BY <1>1, <1>4, LandsOn DEF Phases
  <2> QED BY <1>1, <1>2, <1>3, <2>1, <2>2, PendingBounds, PaidLands
<1>5. CASE Tears
  BY <1>1, <1>5, PaidTears
<1>6. CASE Throws([c EXCEPT !.pc = "catch"])
  <2>1. [c EXCEPT !.pc = "catch"].pc = "catch"
    BY <1>1 DEF CallType
  <2> HIDE DEF c
  <2> QED BY <1>1, <1>6, <2>1, PaidThrows
<1>7. CASE ~Retries /\ call' = Goto("go") /\ UNCHANGED <<saved, torn, spent>>
  <2>1. call'.pc = "go" /\ call'.state = "verify" /\ call'.attempts = call.attempts
    BY <1>1, <1>7 DEF Goto, InOrder, OrderInv, CallAgrees, TypeOK, Handlers, Phases
  <2>2. Pending(h)' = Left(h, "verify", call.attempts) + Torn
    BY <1>7, <2>1 DEF Pending, Ahead, Working, Torn
  <2>3. Left(h, "verify", call.attempts) = Left(h, "execute", call.attempts)
    BY <1>1, <1>7, RunbookAssumption DEF Left, Rem, Less, Retries, InOrder, TypeOK, Phases
  <2> HIDE DEF c
  <2> QED BY <1>1, <1>2, <1>3, <1>7, <2>2, <2>3, PendingBounds, PaidLands
<1> QED BY <1>1, <1>4, <1>5, <1>6, <1>7, SaveOutcomes DEF CommandFails, SaveAndGo

LEMMA PaidCatch ==
    ASSUME InOrder, Lag, NEW h \in Phases, Catch
    PROVE  Paid(h)
<1> DEFINE c == ToState("FAILED", "go")
<1>1. c \in CallType /\ c.state = "FAILED" /\ call.pc = "catch" /\ UNCHANGED runs
  BY CallsTyped DEF Catch, InOrder, TypeOK, CallType, ToState, Handlers, Phases, States, Terminal
<1>2. c = [c EXCEPT !.pc = "go"]
  BY DEF ToState, InOrder, TypeOK
<1>3. CASE Lands(c, c)
  <2>1. UNCHANGED spent
    BY <1>3 DEF Lands
  <2>2. Pending(h) = Less(OnFile(h) + Torn)
    BY <1>1 DEF Pending
  <2> HIDE DEF c
  <2>3. Pending(h)' = IF torn THEN OnFile(h) ELSE 0
    BY <1>1, <1>2, <1>3, LandsTerminal DEF Terminal
  <2> QED BY <1>1, <2>1, <2>2, <2>3, PendingBounds, PaidLands DEF Less, Torn
<1>4. CASE Tears
  BY <1>1, <1>4, PaidTears
<1>5. CASE Throws(NoCall)
  BY <1>1, <1>5, PaidThrows
<1> QED BY <1>1, <1>3, <1>4, <1>5, SaveOutcomes DEF Catch

LEMMA PaidAnnounce ==
    ASSUME InOrder, Lag, NEW h \in Phases, NEW p \in Handlers, Announce(p)
    PROVE  Paid(h)
<1>1. /\ call.pc = "go" /\ call.state = p /\ p \in {"rollback", "plan"}
      /\ Goto(p).pc = p /\ Goto("catch").pc = "catch" /\ NoCall.pc = "idle"
  BY DEF Announce, Goto, InOrder, TypeOK, NoCall
<1>2. CASE Lands(call, Goto(p))
  <2>1. UNCHANGED spent /\ call' = Goto(p) /\ Torn' = 0 /\ runs' = [runs EXCEPT ![p] = @ + 1]
    BY <1>1, <1>2 DEF Lands, Torn, Announce, Begins
  <2>2. call'.pc = p /\ call'.attempts = call.attempts
    BY <2>1 DEF Goto, InOrder, TypeOK
  <2>3. Cuts' = Cuts
    BY <2>1 DEF Cuts
  <2>4. CASE p = "plan"
    <3>1. Left(h, "execute", call.attempts) \in Nat /\ Left(h, "plan", call.attempts) \in Nat
      BY LeftTyped DEF InOrder, TypeOK
    <3>2. Pending(h) = Left(h, "plan", call.attempts) + Torn
      BY <1>1, <2>4 DEF Pending, Ahead, Working
    <3>3. Pending(h)' = Left(h, "execute", call.attempts)
      BY <2>1, <2>2, <2>4, <3>1 DEF Pending, Ahead, Working, Follows
    <3>4. Left(h, "plan", call.attempts) = Left(h, "execute", call.attempts) + (IF h = "plan" THEN 1 ELSE 0)
      BY <3>1 DEF Left, Phases
    <3>5. runs'[h] = runs[h] + (IF h = "plan" THEN 1 ELSE 0) /\ runs[h] \in Nat
      BY <2>1, <2>4 DEF InOrder, TypeOK, Handlers, Phases
    <3> QED BY <2>3, <3>1, <3>2, <3>3, <3>4, <3>5, PendingBounds, CutsTyped DEF Paid, InOrder
  <2>5. CASE p = "rollback"
    <3>1. runs'[h] = runs[h] /\ runs[h] \in Nat
      BY <2>1, <2>5 DEF InOrder, TypeOK, Handlers, Phases
    <3>2. Pending(h) = OnFile(h) + Torn
      BY <1>1, <2>5 DEF Pending, Ahead, Working, AtPhase
    <3>3. OnFile(h)' = IF torn THEN OnFile(h) ELSE 0
      BY <1>1, <1>2, <2>5 DEF OnFile, Lands, Checkpoint, Left, Phases
    <3>4. Pending(h)' = OnFile(h)'
      BY <2>1, <2>2, <2>5, <3>3, PendingBounds DEF Pending, Ahead, Working, AtPhase
    <3> QED BY <2>3, <3>1, <3>2, <3>3, <3>4, PendingBounds, CutsTyped DEF Paid, InOrder
  <2> QED BY <1>1, <2>4, <2>5
<1>3. CASE Tears
  BY <1>1, <1>3, PaidTears DEF Announce, Tears, Handlers, Phases
<1>4. CASE Throws(Goto("catch"))
  BY <1>1, <1>4, PaidThrows DEF Announce, Throws, Handlers, Phases
<1> QED BY <1>2, <1>3, <1>4, SaveOutcomes DEF Announce

LEMMA PaidStep ==
    ASSUME InOrder, Lag, [Next]_vars, NEW h \in Phases
    PROVE  Paid(h)
<1>0. /\ Pending(h) \in Nat /\ OnFile(h) \in Nat /\ Torn \in 0 .. 1 /\ Cuts \in Nat
      /\ runs[h] \in Nat /\ call.attempts \in 0 .. MaxRetries
  BY PendingBounds, CutsTyped DEF InOrder, TypeOK, Handlers
<1>1. ASSUME NEW cancel \in BOOLEAN, Call(cancel) PROVE Paid(h)
  <2>1. Pending(h) = OnFile(h) + Torn
    BY <1>1 DEF Call, Pending, Ahead, Working, AtPhase
  <2>2. Pending(h)' \in Nat /\ Pending(h)' <= Pending(h)
    <3>1. call'.pc = "go" /\ call'.attempts = saved.attempts /\ UNCHANGED <<saved, torn>>
          /\ call'.state \in {saved.state, "rollback"}
      BY <1>1 DEF Call, NoCall
    <3>2. OnFile(h)' = OnFile(h) /\ Torn' = Torn
      BY <3>1 DEF OnFile, Torn
    <3>3. CASE call'.state \in Working
      BY <1>0, <2>1, <3>1, <3>2, <3>3 DEF Pending, Ahead, OnFile, Working
    <3>4. CASE call'.state \notin Working
      BY <1>0, <2>1, <3>1, <3>2, <3>4 DEF Pending, Ahead, Less, Working
    <3> QED BY <3>3, <3>4
  <2> QED BY <1>1, <2>2, PaidLands DEF Call
<1>2. CASE BeginExecute
  <2>1. /\ call'.pc = "execute" /\ call'.attempts = call.attempts /\ UNCHANGED <<saved, torn, spent>>
        /\ runs' = [runs EXCEPT !["execute"] = @ + 1] /\ call.pc = "go" /\ call.state = "execute"
    BY <1>2 DEF BeginExecute, Goto, Begins, InOrder, TypeOK
  <2>2. Pending(h) = Left(h, "execute", call.attempts) + Torn
    BY <2>1 DEF Pending, Ahead, Working
  <2>3. Pending(h)' = Left(h, "verify", call.attempts) + Torn
    BY <2>1 DEF Pending, Ahead, Working, Follows, Torn
  <2>4. Left(h, "execute", call.attempts) = Left(h, "verify", call.attempts) + (IF h = "execute" THEN 1 ELSE 0)
    BY <1>0, <1>2, RunbookAssumption DEF Left, Rem, Less, Phases, BeginExecute, Retries
  <2>5. Left(h, "verify", call.attempts) \in Nat
    BY <1>0, LeftTyped
  <2>6. runs'[h] = runs[h] + (IF h = "execute" THEN 1 ELSE 0)
    BY <2>1 DEF InOrder, TypeOK, Handlers
  <2>7. Cuts' = Cuts
    BY <2>1 DEF Cuts
  <2> QED BY <1>0, <2>2, <2>3, <2>4, <2>5, <2>6, <2>7 DEF Paid
<1>3. CASE BeginVerify
  <2>1. /\ call'.pc = "verify" /\ call'.attempts = call.attempts + 1 /\ UNCHANGED <<saved, torn, spent>>
        /\ runs' = [runs EXCEPT !["verify"] = @ + 1] /\ call.pc = "go" /\ call.state = "verify"
    BY <1>3 DEF BeginVerify, Goto, Begins, InOrder, TypeOK
  <2>2. Pending(h) = Left(h, "verify", call.attempts) + Torn
    BY <2>1 DEF Pending, Ahead, Working
  <2>3. Pending(h)' = Left(h, "execute", call.attempts + 1) + Torn
    BY <2>1 DEF Pending, Ahead, Working, Follows, Torn
  <2>4. Left(h, "verify", call.attempts) = Left(h, "execute", call.attempts + 1) + (IF h = "verify" THEN 1 ELSE 0)
    BY <1>0, <1>3, RunbookAssumption DEF Left, Rem, Less, Phases, BeginVerify, Retries
  <2>5. Left(h, "execute", call.attempts + 1) \in Nat
    BY <1>0, <1>3, LeftTyped, RunbookAssumption DEF BeginVerify, Retries
  <2>6. runs'[h] = runs[h] + (IF h = "verify" THEN 1 ELSE 0)
    BY <2>1 DEF InOrder, TypeOK, Handlers
  <2>7. Cuts' = Cuts
    BY <2>1 DEF Cuts
  <2> QED BY <1>0, <2>2, <2>3, <2>4, <2>5, <2>6, <2>7 DEF Paid
<1>4. CASE BeginHandoff
  <2>1. /\ call'.pc = "handoff" /\ UNCHANGED <<saved, torn, spent>>
        /\ runs' = [runs EXCEPT !["handoff"] = @ + 1] /\ call.pc = "go" /\ call.state = "handoff"
    BY <1>4 DEF BeginHandoff, Goto, Begins, InOrder, TypeOK
  <2>2. Pending(h) = (IF h = "handoff" THEN OnFile(h) ELSE Less(OnFile(h))) + Torn
    BY <2>1 DEF Pending, Ahead, Working, AtPhase
  <2>3. Pending(h)' = Less(OnFile(h)) + Torn
    BY <2>1 DEF Pending, Ahead, Working, AtPhase, OnFile, Torn
  <2>4. h = "handoff" => OnFile(h) = 1
    BY <2>1 DEF Lag, AtPhase, GluedTo, OnFile, Left, Phases
  <2>6. runs'[h] = runs[h] + (IF h = "handoff" THEN 1 ELSE 0)
    BY <2>1 DEF InOrder, TypeOK, Handlers
  <2>7. Cuts' = Cuts
    BY <2>1 DEF Cuts
  <2> QED BY <1>0, <2>2, <2>3, <2>4, <2>6, <2>7 DEF Paid, Less
<1>5. CASE BarrierFails \/ HandlerFails
  <2>1. call'.pc = "catch" /\ UNCHANGED <<saved, torn, runs>>
    BY <1>5 DEF BarrierFails, HandlerFails, Goto, InOrder, TypeOK
  <2>2. Cuts' = Cuts
    <3>1. CASE BarrierFails
      BY <3>1 DEF BarrierFails, Cuts
    <3>2. CASE HandlerFails
      BY <1>0, <3>2, SpendCuts DEF HandlerFails, InOrder, Faults
    <3> QED BY <1>5, <3>1, <3>2
  <2>3. Pending(h)' = Less(OnFile(h) + Torn)
    BY <2>1 DEF Pending, OnFile, Torn
  <2> QED BY <1>0, <2>1, <2>2, <2>3, PendingBounds DEF Paid, Less
<1>6. CASE Suspends \/ Crash
  <2>1. Pending(h)' = OnFile(h) + Torn /\ UNCHANGED runs
    BY <1>6, PendingCut DEF Suspends, Crash, Torn
  <2>2. Cuts' = Cuts + 1
    BY <1>6, SpendCuts DEF Suspends, Crash, InOrder, Faults
  <2> QED BY <1>0, <2>1, <2>2, PendingBounds DEF Paid
<1>7. CASE Return
  <2>1. Pending(h)' = OnFile(h) + Torn /\ UNCHANGED <<runs, spent>>
    BY <1>7, PendingCut DEF Return, Torn
  <2>2. Pending(h) = OnFile(h) + Torn
    BY <1>7 DEF Return, Pending, Ahead, Working, AtPhase, Terminal
  <2> QED BY <1>0, <2>1, <2>2, PaidLands
<1>8. CASE UNCHANGED vars
  BY <1>0, <1>8, PaidLands DEF vars, Pending, Ahead, OnFile, Torn, AtPhase
<1>9. ASSUME NEW p \in Handlers, Announce(p) \/ Succeeds(p) PROVE Paid(h)
  BY <1>9, PaidAnnounce, PaidSucceeds
<1>10. CASE Catch \/ CommandPasses \/ CommandFails
  BY <1>10, PaidCatch, PaidPasses, PaidFails
<1> QED BY <1>1, <1>2, <1>3, <1>4, <1>5, <1>6, <1>7, <1>8, <1>9, <1>10 DEF Next, Proceed, Answer

(* The rollback: it begins once more only when it failed or was cut short. *)
RollbackPaid ==
    (runs'["rollback"] + PendingRollback') - (Cuts' + spent'["fail"])
        <= (runs["rollback"] + PendingRollback) - (Cuts + spent["fail"])

LEMMA RollbackKept ==
    ASSUME InOrder, UNCHANGED <<runs, spent>>, PendingRollback' <= PendingRollback
    PROVE  RollbackPaid
<1>1. Cuts' = Cuts
  BY DEF Cuts
<1> QED BY <1>1, CutsTyped DEF RollbackPaid, PendingRollback, InOrder, TypeOK, Handlers, Faults

LEMMA RollbackSpends ==
    ASSUME InOrder, NEW f \in Faults, Spend(f), UNCHANGED runs
    PROVE  RollbackPaid
<1>1. Cuts' + spent'["fail"] >= Cuts + spent["fail"] + 1
  BY SpendCuts, CutsTyped DEF InOrder, TypeOK, Faults
<1>2. Cuts' \in Nat /\ spent'["fail"] \in Nat
  BY SpendTyped DEF Cuts, InOrder, Faults
<1>3. PendingRollback \in 0 .. 1 /\ PendingRollback' \in 0 .. 1
  BY DEF PendingRollback
<1> QED BY <1>1, <1>2, <1>3, CutsTyped DEF RollbackPaid, InOrder, TypeOK, Handlers, Faults

LEMMA RollbackStep == InOrder /\ Lag /\ [Next]_vars => RollbackPaid
<1> SUFFICES ASSUME InOrder, Lag, [Next]_vars PROVE RollbackPaid
  OBVIOUS
<1>0. saved.state \in {"COMPLETED", "CANCELLED"} => UNCHANGED saved
  BY FinalStep DEF Final
<1> USE DEF Faults
<1>1. ASSUME NEW cancel \in BOOLEAN, Call(cancel) PROVE RollbackPaid
  BY <1>1, RollbackKept DEF Call, PendingRollback, NoCall
<1>2. ASSUME NEW p \in Handlers, Announce(p) PROVE RollbackPaid
  <2>1. CASE Lands(call, Goto(p)) /\ p = "rollback"
    <3>1. runs' = [runs EXCEPT !["rollback"] = @ + 1] /\ UNCHANGED spent /\ call'.pc = "rollback"
      BY <1>2, <2>1 DEF Announce, Lands, Begins, Goto, InOrder, TypeOK
    <3>2. PendingRollback = 1 /\ PendingRollback' = 0
      BY <1>2, <3>1 DEF PendingRollback, Announce, InOrder, OrderInv, FileBounds
    <3>3. Cuts' = Cuts
      BY <3>1 DEF Cuts
    <3> QED BY <3>1, <3>2, <3>3, CutsTyped DEF RollbackPaid, InOrder, TypeOK, Handlers
  <2>2. CASE Lands(call, Goto(p)) /\ p = "plan"
    <3>1. runs'["rollback"] = runs["rollback"] /\ UNCHANGED spent
      BY <1>2, <2>2 DEF Announce, Lands, Begins, InOrder, TypeOK, Handlers, Phases
    <3>2. PendingRollback' <= PendingRollback
      BY <1>0, <1>2, <2>2 DEF PendingRollback, Announce
    <3>3. Cuts' = Cuts
      BY <3>1 DEF Cuts
    <3> QED BY <3>1, <3>2, <3>3, CutsTyped DEF RollbackPaid, PendingRollback, InOrder, TypeOK, Handlers
  <2>3. CASE Tears \/ Throws(Goto("catch"))
    <3>1. UNCHANGED runs
      BY <1>2, <2>3 DEF Announce, Tears, Throws, Goto, NoCall, InOrder, TypeOK
    <3> QED BY <2>3, <3>1, RollbackSpends DEF Tears, Throws
  <2> QED BY <1>2, <2>1, <2>2, <2>3, SaveOutcomes DEF Announce
<1>3. CASE BeginExecute \/ BeginVerify \/ BeginHandoff
  <2>1. runs'["rollback"] = runs["rollback"] /\ UNCHANGED <<saved, spent>> /\ call.pc = "go"
    BY <1>3 DEF BeginExecute, BeginVerify, BeginHandoff, Begins, InOrder, TypeOK, Handlers, Phases
  <2>2. PendingRollback' <= PendingRollback
    BY <2>1 DEF PendingRollback
  <2>3. Cuts' = Cuts
    BY <2>1 DEF Cuts
  <2> QED BY <2>1, <2>2, <2>3, CutsTyped DEF RollbackPaid, PendingRollback, InOrder, TypeOK, Handlers
<1>4. CASE BarrierFails \/ Return
  BY <1>4, RollbackKept DEF BarrierFails, Return, PendingRollback, Terminal
<1>5. CASE HandlerFails \/ Suspends \/ Crash
  BY <1>5, RollbackSpends DEF HandlerFails, Suspends, Crash
<1>6. ASSUME NEW c, NEW next, NEW thrown, Save(c, next, thrown), UNCHANGED runs,
             Lands(c, next) => PendingRollback' <= PendingRollback
      PROVE  RollbackPaid
  <2>1. CASE Lands(c, next)
    BY <1>6, <2>1, RollbackKept DEF Lands
  <2>2. CASE Tears \/ Throws(thrown)
    BY <1>6, <2>2, RollbackSpends DEF Tears, Throws
  <2> QED BY <1>6, <2>1, <2>2, SaveOutcomes
<1>7. CASE Catch
  <2>1. PendingRollback' <= PendingRollback
    BY <1>0, <1>7 DEF PendingRollback, Catch
  <2> QED BY <1>6, <1>7, <2>1 DEF Catch
<1>8. ASSUME NEW p \in Handlers, Succeeds(p) PROVE RollbackPaid
  <2>1. CASE p # "rollback"
    <3>1. PendingRollback' <= PendingRollback
      BY <1>0, <1>8, <2>1 DEF PendingRollback, Succeeds
    <3> QED BY <1>6, <1>8, <3>1 DEF Succeeds, SaveAndGo
  <2>2. CASE p = "rollback"
    <3> DEFINE c == After(p)
    <3>1. ~torn /\ c.state = "CANCELLED"
      BY <1>8, <2>2 DEF Lag, Succeeds, After, ToState, InOrder, TypeOK
    <3>2. ASSUME Lands(c, [c EXCEPT !.pc = "go"]) PROVE PendingRollback' <= PendingRollback
      BY <3>1, <3>2 DEF PendingRollback, Lands, Checkpoint
    <3> HIDE DEF c
    <3> QED BY <1>6, <1>8, <3>2 DEF Succeeds, SaveAndGo, c
  <2> QED BY <2>1, <2>2
<1>9. CASE CommandPasses \/ CommandFails
  <2>1. PendingRollback' <= PendingRollback
    BY <1>0, <1>9 DEF PendingRollback, CommandPasses, CommandFails
  <2>2. CASE CommandPasses
    BY <1>6, <2>1, <2>2, RollbackKept DEF CommandPasses, SaveAndGo
  <2>3. CASE CommandFails
    BY <1>6, <2>1, <2>3, RollbackKept DEF CommandFails, SaveAndGo
  <2> QED BY <1>9, <2>2, <2>3
<1>10. CASE UNCHANGED vars
  BY <1>10, RollbackKept DEF vars, PendingRollback
<1> QED BY <1>1, <1>2, <1>3, <1>4, <1>5, <1>7, <1>8, <1>9, <1>10 DEF Next, Proceed, Answer

-----------------------------------------------------------------------------
PhasesCounted   == \A h \in Phases : runs[h] + Pending(h) <= Limit(h) + Cuts
RollbackCounted == runs["rollback"] + PendingRollback <= 1 + Cuts + spent["fail"]

(* The bound on repeats is inductive once what is pending counts as begun. *)
Counted == Lag /\ PhasesCounted /\ RollbackCounted

LEMMA CountedInit == Init => Counted
<1> SUFFICES ASSUME Init PROVE Counted
  OBVIOUS
<1>1. Cuts = 0 /\ spent["fail"] = 0
  BY DEF Init, Cuts, Faults
<1>2. ASSUME NEW h \in Phases PROVE runs[h] + Pending(h) <= Limit(h) + Cuts
  <2>1. runs[h] = 0 /\ Pending(h) = Left(h, "plan", 0)
    BY RunbookAssumption DEF Init, Handlers, Pending, Ahead, OnFile, Torn, NoCall, Fresh, AtPhase, Working, Left, Rem, Phases
  <2>2. Left(h, "plan", 0) = Limit(h)
    BY RunbookAssumption DEF Left, Rem, Limit, Phases
  <2>3. Limit(h) \in Nat
    BY RunbookAssumption DEF Limit
  <2> QED BY <1>1, <2>1, <2>2, <2>3
<1>3. RollbackCounted
  BY <1>1 DEF Init, RollbackCounted, PendingRollback, Handlers
<1> QED BY <1>2, <1>3, LagInit DEF Counted, PhasesCounted

LEMMA CountedStep == InOrder /\ Counted /\ InOrder' /\ [Next]_vars => Counted'
<1> SUFFICES ASSUME InOrder, Counted, InOrder', [Next]_vars PROVE Counted'
  OBVIOUS
<1>1. Lag /\ Lag'
  BY LagStep DEF Counted
<1>2. Cuts \in Nat /\ Cuts' \in Nat
  BY DEF Cuts, InOrder, TypeOK, Faults
<1>3. ASSUME NEW h \in Phases PROVE (runs[h] + Pending(h) <= Limit(h) + Cuts)'
  <2>1. Paid(h) /\ runs[h] + Pending(h) <= Limit(h) + Cuts
    BY <1>1, PaidStep DEF Counted, PhasesCounted
  <2>2. Pending(h) \in Nat /\ runs[h] \in Nat /\ runs'[h] \in Nat /\ Limit(h) \in Nat
    BY <1>1, PendingBounds, RunbookAssumption DEF InOrder, TypeOK, Handlers, Limit
  <2>3. Pending(h)' \in Nat
    <3>1. saved'.attempts \in 0 .. MaxRetries /\ call'.attempts \in 0 .. MaxRetries
      BY DEF InOrder, TypeOK
    <3>2. OnFile(h)' \in Nat /\ Torn' \in Nat /\ Ahead(h)' \in Nat
      BY <3>1, LeftTyped DEF OnFile, Ahead, Torn, Less
    <3> QED BY <3>2 DEF Pending, Less
  <2> QED BY <1>2, <2>1, <2>2, <2>3 DEF Paid, Limit
<1>4. RollbackCounted'
  <2>1. RollbackPaid /\ RollbackCounted
    BY <1>1, RollbackStep DEF Counted
  <2>2. runs["rollback"] \in Nat /\ runs'["rollback"] \in Nat /\ spent["fail"] \in Nat /\ spent'["fail"] \in Nat
    BY DEF InOrder, TypeOK, Handlers, Faults
  <2>3. PendingRollback \in Nat /\ PendingRollback' \in Nat
    BY DEF PendingRollback
  <2> QED BY <1>2, <2>1, <2>2, <2>3 DEF RollbackPaid, RollbackCounted
<1> QED BY <1>1, <1>3, <1>4 DEF Counted, PhasesCounted

(* Whatever the plan, the retries and the faults: plan and handoff begin   *)
(* once, execute and verify maxVerificationRetries times, and once more    *)
(* for every call that was cut short, twice for a torn checkpoint.         *)
THEOREM RepeatsNeedFaultsAlways == Spec => []RepeatsNeedFaults
<1>1. InOrder /\ Counted => RepeatsNeedFaults
  <2> SUFFICES ASSUME InOrder, Counted PROVE RepeatsNeedFaults
    OBVIOUS
  <2>1. ASSUME NEW h \in Phases PROVE runs[h] <= Limit(h) + Cuts
    BY PendingBounds, CutsTyped, RunbookAssumption DEF Counted, PhasesCounted, InOrder, TypeOK, Handlers, Limit
  <2>2. runs["rollback"] <= 1 + Cuts + spent["fail"]
    BY CutsTyped DEF Counted, RollbackCounted, PendingRollback, InOrder, TypeOK, Handlers, Faults
  <2> QED BY <2>1, <2>2 DEF RepeatsNeedFaults, Cuts, Limit, Phases
<1> QED BY <1>1, InOrderInvariant, CountedInit, CountedStep, PTL DEF Spec
-----------------------------------------------------------------------------
(* The records of the SQLite operational store, each the module that       *)
(* describes it, for all values of its constants.                          *)

-----------------------------------------------------------------------------
(* The replay leases: an owner that acquired a lease and has yet to have   *)
(* its effect holds a licence, and so does a lease that is held or done.   *)
Licensed(k)  == {o \in Owners : holder[o].stage = "acquired" /\ holder[o].req.key = k}
Licence(k)   == IF row[k].status = "completed" \/ L!Held(k) THEN 1 ELSE 0
Budgeted(k)  == Cardinality(Licensed(k)) + effects[k] <= breaks[k] + Licence(k)

(* A request that was let through agrees with the row of its lease.        *)
Agrees(r)    == /\ row[r.key].status # "none" /\ row[r.key].print = r.print
                /\ r.idem # None => row[r.key].idem = r.idem
LeaseInv ==
    /\ L!TypeOK
    /\ \A k \in Keys : row[k].status = "none" => row[k].idem = None
    /\ \A k \in Keys : Budgeted(k)
    /\ \A o \in Owners : holder[o] # L!Idle => Agrees(holder[o].req)
    /\ \A r \in done : Agrees(r)
    /\ \A k, j \in Keys : row[k].idem = row[j].idem /\ row[k].idem # None => k = j

Asked == /\ Requests \subseteq [key : Keys, idem : Idems \cup {None}, print : Fingerprints]
         /\ None \notin Owners \cup Idems \cup Fingerprints /\ MaxBreakdowns \in Nat /\ IsFiniteSet(Owners)
RowType    == [status : {"none", "leased", "completed", "failed"}, owner : Owners \cup {None},
               idem : Idems \cup {None}, print : Fingerprints \cup {None}, valid : BOOLEAN]
HolderType == {L!Idle} \cup [stage : {"acquired", "done"}, req : Requests]

LEMMA LicensedFinite ==
    ASSUME Asked, NEW k
    PROVE  IsFiniteSet(Licensed(k)) /\ Cardinality(Licensed(k)) \in Nat
<1>1. Licensed(k) \subseteq Owners /\ IsFiniteSet(Owners)
  BY DEF Licensed, Asked
<1> QED BY <1>1, FS_Subset, FS_CardinalityType

LEMMA LicensedFiniteNext ==
    ASSUME Asked, NEW k
    PROVE  IsFiniteSet(Licensed(k)') /\ Cardinality(Licensed(k)') \in Nat
<1>1. PICK A : A = Licensed(k)'
  OBVIOUS
<1>2. A \subseteq Owners /\ IsFiniteSet(Owners)
  BY <1>1 DEF Licensed, Asked
<1> QED BY <1>1, <1>2, FS_Subset, FS_CardinalityType

(* What a step does to the licences of one lease.                          *)
LEMMA LicencesMove ==
    ASSUME Asked, NEW k, NEW o \in Owners
    PROVE  /\ Licensed(k)' = Licensed(k) => Cardinality(Licensed(k)') = Cardinality(Licensed(k))
           /\ Licensed(k)' = Licensed(k) \cup {o} => Cardinality(Licensed(k)') <= Cardinality(Licensed(k)) + 1
           /\ Licensed(k)' = Licensed(k) \ {o} =>
                 /\ Cardinality(Licensed(k)') <= Cardinality(Licensed(k))
                 /\ o \in Licensed(k) => Cardinality(Licensed(k)') = Cardinality(Licensed(k)) - 1
<1>1. PICK A, B : A = Licensed(k) /\ B = Licensed(k)'
  OBVIOUS
<1>2. IsFiniteSet(A) /\ Cardinality(A) \in Nat
  BY <1>1, LicensedFinite
<1>3. B = A \cup {o} => Cardinality(B) <= Cardinality(A) + 1
  <2>1. Cardinality(A \cup {o}) = IF o \in A THEN Cardinality(A) ELSE Cardinality(A) + 1
    BY <1>2, FS_AddElement
  <2> QED BY <1>2, <2>1
<1>4. B = A \ {o} => Cardinality(B) = IF o \in A THEN Cardinality(A) - 1 ELSE Cardinality(A)
  BY <1>2, FS_RemoveElement
<1> QED BY <1>1, <1>2, <1>3, <1>4

LEMMA LeaseBegins == Asked /\ L!Init => LeaseInv
<1> SUFFICES ASSUME Asked, L!Init PROVE LeaseInv
  OBVIOUS
<1>1. /\ row = [k \in Keys |-> L!NoRow] /\ holder = [o \in Owners |-> L!Idle] /\ breakdowns = 0
      /\ effects = [k \in Keys |-> 0] /\ breaks = [k \in Keys |-> 0] /\ done = {}
  BY DEF L!Init
<1>2. L!NoRow \in RowType /\ L!NoRow.status = "none" /\ L!NoRow.idem = None
  BY DEF L!NoRow, RowType
<1>3. L!TypeOK
  BY <1>1, <1>2 DEF L!TypeOK, RowType, Asked
<1>4. ASSUME NEW k \in Keys PROVE Budgeted(k)
  <2>1. Licensed(k) = {}
    BY <1>1 DEF Licensed, L!Idle
  <2>2. Cardinality(Licensed(k)) = 0
    BY <2>1, FS_EmptySet
  <2>3. Licence(k) \in {0, 1}
    BY DEF Licence
  <2> QED BY <1>1, <2>2, <2>3 DEF Budgeted
<1>5. \A k \in Keys : row[k].status = "none" /\ row[k].idem = None
  BY <1>1, <1>2
<1> QED BY <1>1, <1>3, <1>4, <1>5 DEF LeaseInv

(* A step that leaves the leases k' row and history alone.                 *)
LEMMA BudgetKept ==
    ASSUME Asked, LeaseInv, NEW o \in Owners, NEW k \in Keys, row'[k] = row[k],
           breaks'[k] = breaks[k], effects'[k] = effects[k],
           Licensed(k)' = Licensed(k) \/ Licensed(k)' = Licensed(k) \ {o}
    PROVE  Budgeted(k)'
<1>1. Cardinality(Licensed(k)') <= Cardinality(Licensed(k)) /\ Cardinality(Licensed(k)) \in Nat
      /\ Cardinality(Licensed(k)') \in Nat
  BY LicensedFinite, LicensedFiniteNext, LicencesMove
<1>2. Licence(k)' = Licence(k) /\ Licence(k) \in {0, 1}
  BY DEF Licence, L!Held
<1>3. effects[k] \in Nat /\ breaks[k] \in Nat /\ Cardinality(Licensed(k)) + effects[k] <= breaks[k] + Licence(k)
  BY DEF LeaseInv, L!TypeOK, Budgeted
<1> QED BY <1>1, <1>2, <1>3 DEF Budgeted

LEMMA AcquireKeeps ==
    ASSUME Asked, LeaseInv, NEW o \in Owners, NEW r \in Requests, L!Acquire(o, r)
    PROVE  LeaseInv'
<1>1. /\ holder[o] = L!Idle /\ ~L!Conflicts(r) /\ row[r.key].status # "completed" /\ ~L!Held(r.key)
      /\ row' = [row EXCEPT ![r.key] = L!Leased(o, r, @)]
      /\ holder' = [holder EXCEPT ![o] = [stage |-> "acquired", req |-> r]]
      /\ breakdowns' = breakdowns /\ effects' = effects /\ breaks' = breaks /\ done' = done
  BY DEF L!Acquire
<1>2. /\ row \in [Keys -> RowType] /\ holder \in [Owners -> HolderType]
      /\ effects \in [Keys -> Nat] /\ breaks \in [Keys -> Nat] /\ done \subseteq Requests
      /\ breakdowns \in 0 .. MaxBreakdowns
  BY DEF LeaseInv, L!TypeOK, RowType, HolderType
<1>3. PICK q : q = r.key
  OBVIOUS
<1>4. q \in Keys /\ r.idem \in Idems \cup {None} /\ r.print \in Fingerprints
        /\ None \notin Owners \cup Fingerprints
  BY <1>3 DEF Asked
<1>5. PICK old : old = row[q]
  OBVIOUS
<1>6. PICK new : new = L!Leased(o, r, old)
  OBVIOUS
<1>7. /\ old \in RowType /\ row' = [row EXCEPT ![q] = new] /\ row'[q] = new
      /\ \A k \in Keys \ {q} : row'[k] = row[k]
  BY <1>1, <1>2, <1>3, <1>4, <1>5, <1>6
<1>8. /\ new.status = "leased" /\ new.owner = o /\ new.print = r.print /\ new.valid = TRUE
      /\ new.idem = (IF old.idem = None THEN r.idem ELSE old.idem)
  BY <1>6 DEF L!Leased
<1>9. new \in RowType
  <2>1. new = [status |-> "leased", owner |-> o, print |-> r.print, valid |-> TRUE,
               idem |-> IF old.idem = None THEN r.idem ELSE old.idem]
    BY <1>6 DEF L!Leased
  <2>2. old.idem \in Idems \cup {None}
    BY <1>7 DEF RowType
  <2> QED BY <1>4, <2>1, <2>2 DEF RowType
<1>10. old.status # "none" => old.print = r.print /\ (r.idem # None => old.idem \in {None, r.idem})
  BY <1>1, <1>3, <1>5 DEF L!Conflicts
<1>11. r.idem # None => \A k \in Keys \ {q} : row[k].idem # r.idem
  BY <1>1, <1>3 DEF L!Conflicts
<1>12. old.status = "none" => old.idem = None
  BY <1>4, <1>5 DEF LeaseInv
<1>13. r.idem # None => new.idem = r.idem
  BY <1>8, <1>10, <1>12
<1>14. L!TypeOK'
  <2>1. row' \in [Keys -> RowType]
    BY <1>2, <1>4, <1>7, <1>9
  <2>2. [stage |-> "acquired", req |-> r] \in HolderType
    BY DEF HolderType
  <2>3. holder' \in [Owners -> HolderType]
    BY <1>1, <1>2, <2>2
  <2>4. \A k \in Keys : row'[k] # L!NoRow => row'[k].owner # None /\ row'[k].print # None
    <3>1. new.owner # None
      BY <1>4, <1>8
    <3>2. new.print # None
      BY <1>4, <1>8
    <3> QED BY <1>7, <3>1, <3>2 DEF LeaseInv, L!TypeOK
  <2> QED BY <1>1, <1>2, <2>1, <2>3, <2>4 DEF L!TypeOK, RowType, HolderType
<1>15. ASSUME NEW k \in Keys PROVE Budgeted(k)'
  <2>1. CASE k # q
    <3>1. Licensed(k)' = Licensed(k)
      BY <1>1, <1>2, <1>3, <2>1 DEF Licensed, L!Idle
    <3> QED BY <1>1, <1>7, <2>1, <3>1, BudgetKept
  <2>2. CASE k = q
    <3>1. Licensed(k)' = Licensed(k) \cup {o}
      BY <1>1, <1>2, <1>3, <2>2 DEF Licensed, L!Idle
    <3>2. Cardinality(Licensed(k)') <= Cardinality(Licensed(k)) + 1 /\ Cardinality(Licensed(k)) \in Nat
          /\ Cardinality(Licensed(k)') \in Nat
      BY <3>1, LicensedFinite, LicensedFiniteNext, LicencesMove
    <3>3. Licence(k) = 0 /\ Licence(k)' = 1
      BY <1>1, <1>3, <1>7, <1>8, <2>2 DEF Licence, L!Held
    <3>4. Cardinality(Licensed(k)) + effects[k] <= breaks[k] + Licence(k) /\ effects[k] \in Nat /\ breaks[k] \in Nat
      BY <1>2 DEF LeaseInv, Budgeted
    <3> QED BY <1>1, <3>2, <3>3, <3>4 DEF Budgeted
  <2> QED BY <2>1, <2>2
<1>16. ASSUME NEW s \in Requests, Agrees(s) PROVE Agrees(s)'
  <2>1. CASE s.key = q
    <3>1. old.status # "none" /\ old.print = s.print /\ (s.idem # None => old.idem = s.idem)
      BY <1>5, <1>16, <2>1 DEF Agrees
    <3>2. new.print = s.print /\ (s.idem # None => new.idem = s.idem)
      BY <1>8, <1>10, <3>1
    <3> QED BY <1>7, <1>8, <2>1, <3>2 DEF Agrees
  <2>2. CASE s.key # q
    <3>1. s.key \in Keys
      BY DEF Asked
    <3> QED BY <1>7, <1>16, <2>2, <3>1 DEF Agrees
  <2> QED BY <2>1, <2>2
<1>17. Agrees(r)'
  BY <1>3, <1>7, <1>8, <1>13 DEF Agrees
<1>18. ASSUME NEW p \in Owners, holder'[p] # L!Idle PROVE Agrees(holder[p].req)'
  <2>1. CASE p = o
    <3>1. holder'[p].req = r
      BY <1>1, <1>2, <2>1
    <3> QED BY <1>17, <3>1 DEF Agrees
  <2>2. CASE p # o
    <3>1. holder'[p] = holder[p] /\ holder[p] \in HolderType
      BY <1>1, <1>2, <2>2
    <3>2. PICK s \in Requests : s = holder[p].req
      BY <1>18, <3>1 DEF HolderType
    <3>3. Agrees(s)
      BY <1>18, <3>1, <3>2 DEF LeaseInv
    <3>4. Agrees(s)'
      BY <1>16, <3>3
    <3> QED BY <3>1, <3>2, <3>4 DEF Agrees
  <2> QED BY <2>1, <2>2
<1>19. \A s \in done' : Agrees(s)'
  BY <1>1, <1>2, <1>16 DEF LeaseInv
<1>20. ASSUME NEW k \in Keys, NEW j \in Keys, row'[k].idem = row'[j].idem, row'[k].idem # None
       PROVE  k = j
  <2>1. \A i \in Keys \ {q} : row[i].idem = new.idem /\ new.idem # None => FALSE
    BY <1>4, <1>5, <1>8, <1>11 DEF LeaseInv
  <2>2. CASE k = q \/ j = q
    BY <1>7, <1>20, <2>1, <2>2
  <2>3. CASE k # q /\ j # q
    BY <1>7, <1>20, <2>3 DEF LeaseInv
  <2> QED BY <2>2, <2>3
<1>21. \A k \in Keys : row'[k].status = "none" => row'[k].idem = None
  BY <1>7, <1>8 DEF LeaseInv
<1> QED BY <1>14, <1>15, <1>18, <1>19, <1>20, <1>21 DEF LeaseInv

(* Every other step changes no row but in status and validity, and no      *)
(* owner but to go on or to let go, so requests go on agreeing with rows.  *)
RowsStay ==
    \A k \in Keys : /\ row'[k].idem = row[k].idem /\ row'[k].print = row[k].print
                    /\ row'[k].status = "none" <=> row[k].status = "none"
OwnersStay ==
    \A o \in Owners : holder'[o] # L!Idle => holder[o] # L!Idle /\ holder'[o].req = holder[o].req

LEMMA AgreementKept ==
    ASSUME Asked, LeaseInv, RowsStay, OwnersStay, L!TypeOK', \A k \in Keys : Budgeted(k)',
           \A r \in done' \ done : \E o \in Owners : holder[o] # L!Idle /\ r = holder[o].req
    PROVE  LeaseInv'
<1>1. ASSUME NEW r \in Requests, Agrees(r) PROVE Agrees(r)'
  BY <1>1 DEF Agrees, RowsStay, Asked
<1>2. ASSUME NEW o \in Owners, holder[o] # L!Idle PROVE holder[o].req \in Requests /\ Agrees(holder[o].req)
  BY <1>2 DEF LeaseInv, L!TypeOK
<1>3. ASSUME NEW o \in Owners, holder'[o] # L!Idle PROVE Agrees(holder[o].req)'
  <2>1. PICK r \in Requests : r = holder[o].req /\ r = holder'[o].req /\ Agrees(r)
    BY <1>2, <1>3 DEF OwnersStay
  <2>2. Agrees(r)'
    BY <1>1, <2>1
  <2> QED BY <2>1, <2>2 DEF Agrees
<1>4. ASSUME NEW r \in done' PROVE Agrees(r)'
  <2>1. r \in Requests /\ Agrees(r)
    BY <1>2 DEF LeaseInv, L!TypeOK
  <2> QED BY <1>1, <2>1
<1>5. \A k \in Keys : row'[k].status = "none" => row'[k].idem = None
  BY DEF LeaseInv, RowsStay
<1>6. \A k, j \in Keys : row'[k].idem = row'[j].idem /\ row'[k].idem # None => k = j
  BY DEF LeaseInv, RowsStay
<1> QED BY <1>3, <1>4, <1>5, <1>6 DEF LeaseInv

LEMMA EffectKeeps == ASSUME Asked, LeaseInv, NEW o \in Owners, L!Effect(o) PROVE LeaseInv'
<1>1. PICK r : r = holder[o].req
  OBVIOUS
<1>2. PICK q : q = r.key
  OBVIOUS
<1>3. /\ holder[o].stage = "acquired" /\ effects' = [effects EXCEPT ![q] = @ + 1] /\ done' = done \cup {r}
      /\ holder' = [holder EXCEPT ![o].stage = "done"] /\ row' = row /\ breakdowns' = breakdowns /\ breaks' = breaks
  BY <1>1, <1>2 DEF L!Effect
<1>4. /\ row \in [Keys -> RowType] /\ holder \in [Owners -> HolderType]
      /\ effects \in [Keys -> Nat] /\ breaks \in [Keys -> Nat] /\ done \subseteq Requests
      /\ breakdowns \in 0 .. MaxBreakdowns
  BY DEF LeaseInv, L!TypeOK, RowType, HolderType
<1>5. holder[o] # L!Idle /\ r \in Requests /\ q \in Keys
  <2>1. holder[o] # L!Idle
    BY <1>3 DEF L!Idle
  <2>2. holder[o] \in [stage : {"acquired", "done"}, req : Requests]
    BY <1>4, <2>1 DEF HolderType
  <2> QED BY <1>1, <1>2, <2>1, <2>2 DEF Asked
<1>6. holder'[o] = [stage |-> "done", req |-> r] /\ \A p \in Owners \ {o} : holder'[p] = holder[p]
  BY <1>1, <1>3, <1>4, <1>5 DEF HolderType
<1>7. L!TypeOK'
  <2>1. holder' \in [Owners -> HolderType]
    <3>1. [stage |-> "done", req |-> r] \in HolderType
      BY <1>5 DEF HolderType
    <3>2. \A p \in Owners : holder'[p] \in HolderType
      BY <1>4, <1>6, <3>1
    <3>3. DOMAIN holder' = Owners /\ holder' = [p \in DOMAIN holder' |-> holder'[p]]
      BY <1>3, <1>4
    <3> QED BY <3>2, <3>3
  <2>2. effects' \in [Keys -> Nat] /\ done' \subseteq Requests
    BY <1>3, <1>4, <1>5
  <2>3. \A k \in Keys : row'[k] # L!NoRow => row'[k].owner # None /\ row'[k].print # None
    BY <1>3 DEF LeaseInv, L!TypeOK
  <2> QED BY <1>3, <1>4, <2>1, <2>2, <2>3 DEF L!TypeOK, RowType, HolderType
<1>8. ASSUME NEW k \in Keys PROVE Budgeted(k)'
  <2>1. Licensed(k)' = Licensed(k) \ {o}
    BY <1>6 DEF Licensed
  <2>2. CASE k # q
    <3>1. effects'[k] = effects[k]
      BY <1>3, <1>4, <2>2
    <3> QED BY <1>3, <2>1, <3>1, BudgetKept
  <2>3. CASE k = q
    <3>1. o \in Licensed(k)
      BY <1>1, <1>2, <1>3, <2>3 DEF Licensed
    <3>2. Cardinality(Licensed(k)') = Cardinality(Licensed(k)) - 1 /\ Cardinality(Licensed(k)) \in Nat
      BY <2>1, <3>1, LicensedFinite, LicencesMove
    <3>3. effects'[k] = effects[k] + 1
      BY <1>3, <1>4, <2>3
    <3>4. Licence(k)' = Licence(k) /\ Licence(k) \in {0, 1}
      BY <1>3 DEF Licence, L!Held
    <3>5. Cardinality(Licensed(k)) + effects[k] <= breaks[k] + Licence(k) /\ effects[k] \in Nat /\ breaks[k] \in Nat
      BY <1>4 DEF LeaseInv, Budgeted
    <3> QED BY <1>3, <3>2, <3>3, <3>4, <3>5 DEF Budgeted
  <2> QED BY <2>2, <2>3
<1>9. RowsStay
  BY <1>3 DEF RowsStay
<1>10. OwnersStay
  BY <1>1, <1>5, <1>6 DEF OwnersStay
<1>11. \A s \in done' \ done : \E p \in Owners : holder[p] # L!Idle /\ s = holder[p].req
  BY <1>1, <1>3, <1>5
<1> QED BY <1>7, <1>8, <1>9, <1>10, <1>11, AgreementKept

(* A row closed by its owner, and the owner that lets go.                  *)
LEMMA LetsGo ==
    ASSUME Asked, LeaseInv, NEW o \in Owners, holder[o].stage \in {"acquired", "done"},
           holder' = [holder EXCEPT ![o] = L!Idle], done' = done, effects' = effects,
           breakdowns' \in 0 .. MaxBreakdowns, NEW q \in Keys, NEW status \in {"completed", "failed"},
           \/ row' = row /\ breaks' = breaks
           \/ /\ row[q].status = "leased" /\ row' = [row EXCEPT ![q].status = status]
              /\ breaks' = IF status = "failed" THEN [breaks EXCEPT ![q] = @ + 1] ELSE breaks
    PROVE  LeaseInv'
<1>1. /\ row \in [Keys -> RowType] /\ holder \in [Owners -> HolderType]
      /\ effects \in [Keys -> Nat] /\ breaks \in [Keys -> Nat] /\ done \subseteq Requests
  BY DEF LeaseInv, L!TypeOK, RowType, HolderType
<1>2. holder'[o] = L!Idle /\ \A p \in Owners \ {o} : holder'[p] = holder[p]
  BY <1>1
<1>3. /\ \A k \in Keys \ {q} : row'[k] = row[k] /\ breaks'[k] = breaks[k]
      /\ \/ row'[q] = row[q] /\ breaks'[q] = breaks[q]
         \/ /\ row[q].status = "leased" /\ row'[q] = [row[q] EXCEPT !.status = status]
            /\ breaks'[q] = IF status = "failed" THEN breaks[q] + 1 ELSE breaks[q]
  BY <1>1
<1>4. /\ row'[q].idem = row[q].idem /\ row'[q].print = row[q].print /\ row'[q].owner = row[q].owner
      /\ row'[q].valid = row[q].valid /\ row'[q] \in RowType
      /\ \/ row'[q].status = row[q].status /\ row'[q] = row[q] /\ breaks'[q] = breaks[q]
         \/ /\ row[q].status = "leased" /\ row'[q].status = status
            /\ breaks'[q] = IF status = "failed" THEN breaks[q] + 1 ELSE breaks[q]
  BY <1>1, <1>3 DEF RowType
<1>5. L!TypeOK'
  <2>1. row' \in [Keys -> RowType]
    <3>1. \A k \in Keys : row'[k] \in RowType
      BY <1>1, <1>3, <1>4
    <3>2. DOMAIN row' = Keys /\ row' = [k \in DOMAIN row' |-> row'[k]]
      BY <1>1
    <3> QED BY <3>1, <3>2
  <2>2. holder' \in [Owners -> HolderType]
    BY <1>1 DEF HolderType
  <2>3. breaks' \in [Keys -> Nat]
    BY <1>1
  <2>4. \A k \in Keys : row'[k] # L!NoRow => row'[k].owner # None /\ row'[k].print # None
    <3>1. \A k \in Keys : row'[k].status # "none" => row[k].status # "none"
      BY <1>3, <1>4
    <3>2. \A k \in Keys : row[k] # L!NoRow => row[k].owner # None /\ row[k].print # None
      BY DEF LeaseInv, L!TypeOK
    <3>3. \A k \in Keys : row'[k].owner = row[k].owner /\ row'[k].print = row[k].print
      BY <1>3, <1>4
    <3>4. ASSUME NEW k \in Keys, row'[k] # L!NoRow PROVE row[k] # L!NoRow
      <4>1. CASE k = q /\ row'[q].status # row[q].status
        BY <1>4, <4>1 DEF L!NoRow
      <4>2. CASE k # q \/ row'[q].status = row[q].status
        BY <1>3, <1>4, <3>4, <4>2
      <4> QED BY <4>1, <4>2
    <3> QED BY <3>2, <3>3, <3>4
  <2> QED BY <1>1, <2>1, <2>2, <2>3, <2>4 DEF L!TypeOK, RowType, HolderType
<1>6. ASSUME NEW k \in Keys PROVE Budgeted(k)'
  <2>1. Licensed(k)' = Licensed(k) \ {o}
    BY <1>2 DEF Licensed, L!Idle
  <2>2. CASE k # q \/ (row'[q] = row[q] /\ breaks'[q] = breaks[q])
    BY <1>3, <2>1, <2>2, BudgetKept
  <2>3. CASE k = q /\ row[q].status = "leased" /\ row'[q].status = status
             /\ breaks'[q] = IF status = "failed" THEN breaks[q] + 1 ELSE breaks[q]
    <3>1. /\ Cardinality(Licensed(k)') <= Cardinality(Licensed(k)) /\ Cardinality(Licensed(k)) \in Nat
          /\ Cardinality(Licensed(k)') \in Nat
      BY <2>1, LicensedFinite, LicensedFiniteNext, LicencesMove
    <3>2. Licence(k) \in {0, 1} /\ Licence(k)' \in {0, 1} /\ (status = "completed" => Licence(k)' = 1)
      BY <2>3 DEF Licence
    <3>3. Cardinality(Licensed(k)) + effects[k] <= breaks[k] + Licence(k) /\ effects[k] \in Nat /\ breaks[k] \in Nat
      BY <1>1 DEF LeaseInv, Budgeted
    <3> QED BY <2>3, <3>1, <3>2, <3>3 DEF Budgeted
  <2> QED BY <1>4, <2>2, <2>3
<1>7. RowsStay
  BY <1>3, <1>4 DEF RowsStay
<1>8. OwnersStay
  BY <1>2 DEF OwnersStay
<1> QED BY <1>5, <1>6, <1>7, <1>8, AgreementKept

LEMMA LapseKeeps == ASSUME Asked, LeaseInv, NEW q \in Keys, L!Lapse(q) PROVE LeaseInv'
<1>1. /\ row[q].status = "leased" /\ row[q].valid /\ row' = [row EXCEPT ![q].valid = FALSE]
      /\ breaks' = [breaks EXCEPT ![q] = @ + 1]
      /\ holder' = holder /\ effects' = effects /\ done' = done
  BY DEF L!Lapse
<1>2. /\ row \in [Keys -> RowType] /\ holder \in [Owners -> HolderType]
      /\ effects \in [Keys -> Nat] /\ breaks \in [Keys -> Nat] /\ done \subseteq Requests
      /\ breakdowns \in 0 .. MaxBreakdowns
  BY DEF LeaseInv, L!TypeOK, RowType, HolderType
<1>3. breakdowns' \in 0 .. MaxBreakdowns
  BY <1>2 DEF L!Lapse, L!Fault, Asked
<1>4. /\ row'[q] = [row[q] EXCEPT !.valid = FALSE] /\ breaks'[q] = breaks[q] + 1
      /\ \A k \in Keys \ {q} : row'[k] = row[k] /\ breaks'[k] = breaks[k]
  BY <1>1, <1>2
<1>5. /\ row'[q].idem = row[q].idem /\ row'[q].print = row[q].print /\ row'[q].owner = row[q].owner
      /\ row'[q].status = "leased" /\ row'[q] \in RowType
  BY <1>1, <1>2, <1>4 DEF RowType
<1>6. L!TypeOK'
  <2>1. row' \in [Keys -> RowType]
    <3>1. \A k \in Keys : row'[k] \in RowType
      BY <1>2, <1>4, <1>5
    <3>2. DOMAIN row' = Keys /\ row' = [k \in DOMAIN row' |-> row'[k]]
      BY <1>1, <1>2
    <3> QED BY <3>1, <3>2
  <2>2. breaks' \in [Keys -> Nat]
    BY <1>1, <1>2
  <2>3. \A k \in Keys : row'[k] # L!NoRow => row'[k].owner # None /\ row'[k].print # None
    <3>1. row[q] # L!NoRow
      BY <1>1 DEF L!NoRow
    <3> QED BY <1>4, <1>5, <3>1 DEF LeaseInv, L!TypeOK
  <2> QED BY <1>1, <1>2, <1>3, <2>1, <2>2, <2>3 DEF L!TypeOK, RowType, HolderType
<1>7. ASSUME NEW k \in Keys PROVE Budgeted(k)'
  <2>1. Licensed(k)' = Licensed(k)
    BY <1>1 DEF Licensed
  <2>2. Cardinality(Licensed(k)') = Cardinality(Licensed(k)) /\ Cardinality(Licensed(k)) \in Nat
    BY <2>1, LicensedFinite
  <2>3. Cardinality(Licensed(k)) + effects[k] <= breaks[k] + Licence(k) /\ effects[k] \in Nat /\ breaks[k] \in Nat
    BY <1>2 DEF LeaseInv, Budgeted
  <2>4. CASE k = q
    <3>1. Licence(k) \in {0, 1} /\ Licence(k)' \in {0, 1} /\ breaks'[k] = breaks[k] + 1
      BY <1>4, <2>4 DEF Licence
    <3> QED BY <1>1, <2>2, <2>3, <3>1 DEF Budgeted
  <2>5. CASE k # q
    <3>1. Licence(k)' = Licence(k) /\ breaks'[k] = breaks[k]
      BY <1>4, <2>5 DEF Licence, L!Held
    <3> QED BY <1>1, <2>2, <2>3, <3>1 DEF Budgeted
  <2> QED BY <2>4, <2>5
<1>8. RowsStay
  BY <1>1, <1>4, <1>5 DEF RowsStay
<1>9. OwnersStay
  BY <1>1 DEF OwnersStay
<1> QED BY <1>1, <1>6, <1>7, <1>8, <1>9, AgreementKept

LEMMA LeaseStep == ASSUME Asked, LeaseInv, [L!Next]_(L!vars) PROVE LeaseInv'
<1>0. /\ holder \in [Owners -> HolderType] /\ breakdowns \in 0 .. MaxBreakdowns /\ MaxBreakdowns \in Nat
      /\ \A o \in Owners : holder[o].stage \in {"acquired", "done"} => holder[o].req.key \in Keys
  <2>1. holder \in [Owners -> HolderType] /\ breakdowns \in 0 .. MaxBreakdowns /\ MaxBreakdowns \in Nat
    BY DEF LeaseInv, L!TypeOK, HolderType, Asked
  <2>2. ASSUME NEW o \in Owners, holder[o].stage \in {"acquired", "done"} PROVE holder[o].req.key \in Keys
    <3>1. holder[o] # L!Idle
      BY <2>2 DEF L!Idle
    <3>2. holder[o] \in [stage : {"acquired", "done"}, req : Requests]
      BY <2>1, <3>1 DEF HolderType
    <3> QED BY <3>2 DEF Asked
  <2> QED BY <2>1, <2>2
<1>1. ASSUME NEW o \in Owners, L!CompleteReplayLease(o) PROVE LeaseInv'
  <2>1. PICK q \in Keys : q = holder[o].req.key
    BY <1>0, <1>1 DEF L!CompleteReplayLease
  <2>2. /\ holder[o].stage \in {"acquired", "done"} /\ holder' = [holder EXCEPT ![o] = L!Idle] /\ done' = done
        /\ effects' = effects /\ breakdowns' \in 0 .. MaxBreakdowns
    BY <1>0, <1>1 DEF L!CompleteReplayLease
  <2>3. /\ breaks' = breaks
        /\ row' = row \/ (row[q].status = "leased" /\ row' = [row EXCEPT ![q].status = "completed"])
    BY <1>1, <2>1 DEF L!CompleteReplayLease, L!MayClose
  <2> QED BY <2>2, <2>3, LetsGo
<1>2. ASSUME NEW o \in Owners, L!FailReplayLease(o) PROVE LeaseInv'
  <2>1. PICK q \in Keys : q = holder[o].req.key
    BY <1>0, <1>2 DEF L!FailReplayLease
  <2>2. /\ holder[o].stage \in {"acquired", "done"} /\ holder' = [holder EXCEPT ![o] = L!Idle] /\ done' = done
        /\ effects' = effects /\ breakdowns' \in 0 .. MaxBreakdowns
    BY <1>0, <1>2 DEF L!FailReplayLease
  <2>3. \/ row' = row /\ breaks' = breaks
        \/ /\ row[q].status = "leased" /\ row' = [row EXCEPT ![q].status = "failed"]
           /\ breaks' = [breaks EXCEPT ![q] = @ + 1]
    BY <1>2, <2>1 DEF L!FailReplayLease, L!MayClose
  <2> QED BY <2>2, <2>3, LetsGo
<1>3. ASSUME NEW o \in Owners, L!Crash(o) PROVE LeaseInv'
  <2>1. /\ holder[o].stage \in {"acquired", "done"} /\ holder' = [holder EXCEPT ![o] = L!Idle] /\ done' = done
        /\ effects' = effects /\ breakdowns' \in 0 .. MaxBreakdowns /\ row' = row /\ breaks' = breaks
    BY <1>0, <1>3 DEF L!Crash, L!Fault, HolderType
  <2>2. PICK q \in Keys : q = holder[o].req.key
    BY <1>0, <2>1
  <2> QED BY <2>1, LetsGo
<1>4. CASE UNCHANGED L!vars
  <2>1. /\ row' = row /\ holder' = holder /\ breakdowns' = breakdowns
        /\ effects' = effects /\ breaks' = breaks /\ done' = done
    BY <1>4 DEF L!vars
  <2>2. L!TypeOK'
    BY <2>1 DEF LeaseInv, L!TypeOK
  <2>3. \A k \in Keys : Budgeted(k)' <=> Budgeted(k)
    BY <2>1 DEF Budgeted, Licence, Licensed, L!Held
  <2>4. RowsStay /\ OwnersStay
    BY <2>1 DEF RowsStay, OwnersStay
  <2>5. \A k \in Keys : Budgeted(k)'
    BY <2>3 DEF LeaseInv
  <2> QED BY <2>1, <2>2, <2>4, <2>5, AgreementKept
<1> QED BY <1>1, <1>2, <1>3, <1>4, AcquireKeeps, EffectKeeps, LapseKeeps DEF L!Next

(* Leases: accounted.                                                      *)
LEMMA LeaseShown == ASSUME Asked, LeaseInv PROVE L!EffectsAreAccounted
<1>1. L!EffectsNeedBreaks
  <2> SUFFICES ASSUME NEW k \in Keys PROVE effects[k] <= 1 + breaks[k]
    BY DEF L!EffectsNeedBreaks
  <2>1. Cardinality(Licensed(k)) \in Nat
    BY LicensedFinite
  <2>2. Licence(k) \in {0, 1}
    BY DEF Licence
  <2>3. Cardinality(Licensed(k)) + effects[k] <= breaks[k] + Licence(k) /\ effects[k] \in Nat /\ breaks[k] \in Nat
    BY DEF LeaseInv, L!TypeOK, Budgeted
  <2> QED BY <2>1, <2>2, <2>3
<1>2. L!OneOperation
  <2> SUFFICES ASSUME NEW r \in done, NEW s \in done
               PROVE  /\ r.key = s.key => r.print = s.print
                      /\ r.idem = s.idem /\ r.idem # None => r.key = s.key
    BY DEF L!OneOperation
  <2>1. Agrees(r) /\ Agrees(s) /\ r.key \in Keys /\ s.key \in Keys
    BY DEF LeaseInv, L!TypeOK, Asked
  <2> QED BY <2>1 DEF Agrees, LeaseInv
<1> QED BY <1>1, <1>2 DEF L!EffectsAreAccounted, LeaseInv

LEMMA ResultsStay ==
    ASSUME Asked, LeaseInv, [L!Next]_(L!vars), NEW k \in Keys
    PROVE  IF row[k].status = "completed" THEN row'[k] = row[k]
           ELSE row'[k].status = "completed" =>
                   LET o == row[k].owner
                   IN  holder[o].stage = "done" /\ holder[o].req.key = k /\ holder'[o] = L!Idle
<1>0. row \in [Keys -> RowType] /\ holder \in [Owners -> HolderType]
  BY DEF LeaseInv, L!TypeOK, RowType, HolderType
<1>1. ASSUME NEW o \in Owners, NEW r \in Requests, L!Acquire(o, r)
      PROVE  /\ row[k].status = "completed" => row'[k] = row[k]
             /\ row[k].status # "completed" => row'[k].status # "completed"
  <2>1. /\ row[r.key].status # "completed" /\ row' = [row EXCEPT ![r.key] = L!Leased(o, r, @)]
    BY <1>1 DEF L!Acquire
  <2>2. CASE k = r.key
    <3>1. row'[k].status = "leased"
      BY <1>0, <2>1, <2>2 DEF L!Leased
    <3> QED BY <2>1, <2>2, <3>1
  <2>3. CASE k # r.key
    BY <1>0, <2>1, <2>3
  <2> QED BY <2>2, <2>3
<1>2. ASSUME NEW o \in Owners, L!CompleteReplayLease(o)
      PROVE  /\ row[k].status = "completed" => row'[k] = row[k]
             /\ row[k].status # "completed" /\ row'[k].status = "completed" =>
                   o = row[k].owner /\ holder[o].stage = "done" /\ holder[o].req.key = k /\ holder'[o] = L!Idle
  BY <1>0, <1>2 DEF L!CompleteReplayLease, L!MayClose
<1>3. ASSUME NEW o \in Owners, L!FailReplayLease(o)
      PROVE  /\ row[k].status = "completed" => row'[k] = row[k]
             /\ row[k].status # "completed" => row'[k].status # "completed"
  <2>1. PICK q : q = holder[o].req.key
    OBVIOUS
  <2>2. row' = row \/ (row[q].status = "leased" /\ row' = [row EXCEPT ![q].status = "failed"])
    BY <1>3, <2>1 DEF L!FailReplayLease, L!MayClose
  <2> QED BY <1>0, <2>2 DEF RowType
<1>4. ASSUME NEW q \in Keys, L!Lapse(q)
      PROVE  /\ row[k].status = "completed" => row'[k] = row[k]
             /\ row[k].status # "completed" => row'[k].status # "completed"
  <2>1. row[q].status = "leased" /\ row' = [row EXCEPT ![q].valid = FALSE]
    BY <1>4 DEF L!Lapse
  <2> QED BY <1>0, <2>1 DEF RowType
<1>5. ASSUME row' = row
      PROVE  /\ row[k].status = "completed" => row'[k] = row[k]
             /\ row[k].status # "completed" => row'[k].status # "completed"
  BY <1>5
<1>6. CASE UNCHANGED L!vars
  BY <1>5, <1>6 DEF L!vars
<1>7. ASSUME NEW o \in Owners, L!Effect(o) \/ L!Crash(o) PROVE row' = row
  BY <1>7 DEF L!Effect, L!Crash
<1> QED BY <1>1, <1>2, <1>3, <1>4, <1>5, <1>6, <1>7 DEF L!Next

LEMMA LeasesSafe ==
    ASSUME L!ReplayAssumption, IsFiniteSet(Owners)
    PROVE  L!Init /\ [][L!Next]_(L!vars) => []L!EffectsAreAccounted /\ L!ResultsAreFinal
<1>0. Asked
  BY DEF L!ReplayAssumption, Asked
<1>1. L!Init => LeaseInv
  BY <1>0, LeaseBegins
<1>2. LeaseInv /\ [L!Next]_(L!vars) => LeaseInv'
  BY <1>0, LeaseStep
<1>3. LeaseInv => L!EffectsAreAccounted
  BY <1>0, LeaseShown
<1>4. LeaseInv /\ [L!Next]_(L!vars) =>
         [\A k \in Keys :
             IF row[k].status = "completed" THEN row'[k] = row[k]
             ELSE row'[k].status = "completed" =>
                     LET o == row[k].owner
                     IN  holder[o].stage = "done" /\ holder[o].req.key = k /\ holder'[o] = L!Idle]_(L!vars)
  BY <1>0, ResultsStay
<1> QED BY <1>1, <1>2, <1>3, <1>4, PTL DEF L!ResultsAreFinal

(* For any owners, keys and requests: an operation takes effect under a    *)
(* lease once more only for a lease that lapsed or was reported failed, a  *)
(* key never guards two operations, and a completed lease stays as the     *)
(* owner that acquired it last completed it.                               *)
THEOREM LeasesAreKept ==
    ASSUME L!ReplayAssumption, IsFiniteSet(Owners)
    PROVE  L!Spec => []L!EffectsAreAccounted /\ L!ResultsAreFinal
BY LeasesSafe, PTL DEF L!Spec

-----------------------------------------------------------------------------
-----------------------------------------------------------------------------
(* The jobs of the SQLite store.                                           *)
JobType     == [status : S!Statuses, owner : Workers \cup {None}, claim : {"none", "future", "past"}]
FrameType   == {S!Idle} \cup [job : Jobs, run : Nat, claimed : BOOLEAN]
RequestType == {r \in [job : Jobs, run : Nat, from : S!Statuses, to : S!Statuses] :
                   \/ r.from \in {"queued", "retry_scheduled"} /\ r.to \in {"running", "dead"}
                   \/ r.from = "running" /\ r.to \in {"retry_scheduled", "succeeded", "dead"}}
GiveUps     == [job : Jobs, run : Nat, from : S!Statuses, to : {"dead"}]

StoreTypes ==
    /\ job \in [Jobs -> JobType] /\ frame \in [Workers -> FrameType]
    /\ sent \subseteq RequestType /\ applied \subseteq RequestType /\ applied \subseteq sent \cup GiveUps
    /\ troubles \in 0 .. MaxTroubles /\ stale \subseteq Jobs /\ thief \subseteq Jobs
    /\ starts \in [Jobs -> Nat] /\ retries \in [Jobs -> Nat] /\ lapses \in [Jobs -> Nat]

(* Nothing was done about a job that never ran.                            *)
Untouched(j) ==
    job[j].status \in {"absent", "queued"} =>
       /\ job[j].claim = "none" /\ \A w \in Workers : ~S!Works(w, j)
       /\ \A r \in sent \cup applied : r.job # j

(* A job that waits may start, and a READ job whose claim has lapsed may   *)
(* once more: each start to come is paid for already.                      *)
Waiting(j)  == IF job[j].status \in {"absent", "queued", "retry_scheduled"} THEN 1 ELSE 0
Lapsed(j)   == IF j \in Reads /\ job[j].claim = "past" THEN 1 ELSE 0
PaidFor(j)     == starts[j] + Waiting(j) + Lapsed(j) <= 1 + retries[j] + (IF j \in Reads THEN lapses[j] ELSE 0)

Witnessed(j) ==
    /\ job[j].claim = "past" => lapses[j] > 0
    /\ job[j].status = "retry_scheduled" => retries[j] > 0
    /\ retries[j] = 0 /\ job[j].claim # "none" => \A w \in Workers : S!Works(w, j) => frame[w].claimed
    /\ j \in thief => lapses[j] > 0 /\ retries[j] > 0

(* While no claim on a job with keys has lapsed, one worker at most runs   *)
(* it, the run is the latest, and no request that was sent waits to be     *)
(* applied.                                                                *)
InTurn(j) ==
    j \in Keyed /\ lapses[j] = 0 =>
       /\ \A w \in Workers : S!Works(w, j) => frame[w].run = starts[j] /\ job[j].status = "running"
       /\ \A w, v \in Workers : S!Works(w, j) /\ S!Works(v, j) => w = v
       /\ \A r \in sent : r.job = j => r \in applied
       /\ \A r \in applied : r.job = j =>
             /\ r.run <= starts[j] /\ (r.to = "running" => r.run < starts[j])
             /\ r.from = "running" /\ r.run = starts[j] => job[j].status # "running"
       /\ j \notin stale

JobInv(j) == Untouched(j) /\ PaidFor(j) /\ Witnessed(j) /\ InTurn(j)
StoreInv  == StoreTypes /\ \A j \in Jobs : JobInv(j)

Sound == /\ Jobs \subseteq Nat \ {0} /\ Reads \subseteq Jobs /\ Keyed \subseteq Jobs
         /\ MaxTroubles \in Nat /\ None \notin Workers \cup Jobs

LEMMA StoreBegins == Sound /\ S!Init => StoreInv
<1> SUFFICES ASSUME Sound, S!Init PROVE StoreInv
  OBVIOUS
<1>1. /\ job = [j \in Jobs |-> [status |-> "absent", owner |-> None, claim |-> "none"]]
      /\ frame = [w \in Workers |-> S!Idle] /\ applied = {} /\ sent = {} /\ stale = {} /\ thief = {}
      /\ troubles = 0 /\ starts = [j \in Jobs |-> 0] /\ retries = starts /\ lapses = starts
  BY DEF S!Init, S!NoJob
<1>2. StoreTypes
  <2>1. [status |-> "absent", owner |-> None, claim |-> "none"] \in JobType
    BY DEF JobType, S!Statuses
  <2> QED BY <1>1, <2>1 DEF StoreTypes, FrameType, Sound
<1>3. \A w \in Workers, j \in Jobs : ~S!Works(w, j)
  BY <1>1 DEF S!Works, S!Idle, Sound
<1>4. ASSUME NEW j \in Jobs PROVE JobInv(j)
  <2>1. /\ job[j].status = "absent" /\ job[j].claim = "none" /\ starts[j] = 0 /\ retries[j] = 0 /\ lapses[j] = 0
    BY <1>1
  <2> QED BY <1>1, <1>3, <2>1 DEF JobInv, Untouched, PaidFor, Waiting, Lapsed, Witnessed, InTurn
<1> QED BY <1>2, <1>4 DEF StoreInv

(* A step that does nothing to a job keeps what holds of it.               *)
Aside(j) ==
    /\ job'[j] = job[j] /\ starts'[j] = starts[j] /\ retries'[j] = retries[j] /\ lapses'[j] = lapses[j]
    /\ \A w \in Workers : S!Works(w, j)' => S!Works(w, j) /\ frame'[w] = frame[w]
    /\ \A r \in sent' : r.job = j => r \in sent
    /\ \A r \in applied \cup applied' : r.job = j => (r \in applied <=> r \in applied')
    /\ (j \in stale' => j \in stale) /\ (j \in thief' => j \in thief)

LEMMA AsideKeeps ==
    ASSUME NEW j \in Jobs, JobInv(j), Aside(j)
    PROVE  JobInv(j)'
<1>1. Untouched(j)'
  BY DEF JobInv, Untouched, Aside
<1>2. PaidFor(j)'
  BY DEF JobInv, PaidFor, Waiting, Lapsed, Aside
<1>3. Witnessed(j)'
  BY DEF JobInv, Witnessed, Aside
<1>4. InTurn(j)'
  <2> SUFFICES ASSUME j \in Keyed, lapses'[j] = 0 PROVE InTurn(j)'
    BY DEF InTurn
  <2>1. /\ \A w \in Workers : S!Works(w, j) => frame[w].run = starts[j] /\ job[j].status = "running"
        /\ \A w, v \in Workers : S!Works(w, j) /\ S!Works(v, j) => w = v
        /\ \A r \in sent : r.job = j => r \in applied
        /\ \A r \in applied : r.job = j =>
              /\ r.run <= starts[j] /\ (r.to = "running" => r.run < starts[j])
              /\ r.from = "running" /\ r.run = starts[j] => job[j].status # "running"
        /\ j \notin stale
    BY DEF JobInv, InTurn, Aside
  <2>2. \A w \in Workers : S!Works(w, j)' => frame'[w].run = starts'[j] /\ job'[j].status = "running"
    BY <2>1 DEF Aside
  <2>3. \A w, v \in Workers : S!Works(w, j)' /\ S!Works(v, j)' => w = v
    BY <2>1 DEF Aside
  <2>4. \A r \in sent' : r.job = j => r \in applied'
    BY <2>1 DEF Aside
  <2>5. \A r \in applied' : r.job = j =>
              /\ r.run <= starts'[j] /\ (r.to = "running" => r.run < starts'[j])
              /\ r.from = "running" /\ r.run = starts'[j] => job'[j].status # "running"
    BY <2>1 DEF Aside
  <2> QED BY <2>1, <2>2, <2>3, <2>4, <2>5 DEF InTurn, Aside
<1> QED BY <1>1, <1>2, <1>3, <1>4 DEF JobInv

(* What a transition does: it is refused, or it moves the request's job.   *)
Refused(r) ==
    /\ job[r.job].status # r.from \/ (r.job \in Keyed /\ r \in applied)
    /\ job' = job /\ applied' = applied /\ stale' = stale /\ retries' = retries /\ starts' = starts
Moves(r) ==
    LET q == r.job
    IN  /\ job[q].status = r.from /\ (q \in Keyed => r \notin applied)
        /\ job'[q].status = r.to /\ job'[q].claim = job[q].claim
        /\ applied' = IF q \in Keyed THEN applied \cup {r} ELSE applied
        /\ stale' = IF r.run # starts[q] THEN stale \cup {q} ELSE stale
        /\ retries'[q] = IF r.to = "retry_scheduled" THEN retries[q] + 1 ELSE retries[q]
        /\ starts'[q] = IF r.to = "running" THEN starts[q] + 1 ELSE starts[q]
        /\ \A k \in Jobs \ {q} : job'[k] = job[k] /\ retries'[k] = retries[k] /\ starts'[k] = starts[k]

LEMMA TransitionMoves ==
    ASSUME StoreTypes, NEW r \in RequestType, S!Transition(r)
    PROVE  /\ Refused(r) \/ Moves(r)
           /\ job' \in [Jobs -> JobType] /\ applied' \subseteq applied \cup {r} /\ stale' \subseteq Jobs
           /\ starts' \in [Jobs -> Nat] /\ retries' \in [Jobs -> Nat]
<1>0. /\ job \in [Jobs -> JobType] /\ stale \subseteq Jobs /\ starts \in [Jobs -> Nat] /\ retries \in [Jobs -> Nat]
  BY DEF StoreTypes
<1>1. CASE job[r.job].status = r.from /\ (r.job \in Keyed => r \notin applied)
  <2>1. PICK q \in Jobs : q = r.job
    BY DEF RequestType
  <2>2. PICK t \in S!Statuses : t = r.to
    BY DEF RequestType, S!Statuses
  <2>3. /\ job' = [job EXCEPT ![q].status = t]
        /\ applied' = IF q \in Keyed THEN applied \cup {r} ELSE applied
        /\ stale' = IF r.run # starts[q] THEN stale \cup {q} ELSE stale
        /\ retries' = IF t = "retry_scheduled" THEN [retries EXCEPT ![q] = @ + 1] ELSE retries
        /\ starts' = IF t = "running" THEN [starts EXCEPT ![q] = @ + 1] ELSE starts
    BY <1>1, <2>1, <2>2 DEF S!Transition
  <2>4. /\ job'[q] = [job[q] EXCEPT !.status = t] /\ \A k \in Jobs \ {q} : job'[k] = job[k]
    BY <1>0, <2>3
  <2>5. job'[q] \in JobType /\ job'[q].status = t /\ job'[q].claim = job[q].claim
    BY <1>0, <2>4 DEF JobType
  <2>6. job' \in [Jobs -> JobType]
    <3>1. \A k \in Jobs : job'[k] \in JobType
      BY <1>0, <2>4, <2>5
    <3>2. DOMAIN job' = Jobs /\ job' = [k \in DOMAIN job' |-> job'[k]]
      BY <1>0, <2>3
    <3> QED BY <3>1, <3>2
  <2>7. starts' \in [Jobs -> Nat] /\ retries' \in [Jobs -> Nat]
    BY <1>0, <2>3
  <2>8. Moves(r)
    BY <1>0, <1>1, <2>1, <2>2, <2>3, <2>4, <2>5 DEF Moves
  <2> QED BY <1>0, <2>1, <2>3, <2>6, <2>7, <2>8
<1>2. CASE ~(job[r.job].status = r.from /\ (r.job \in Keyed => r \notin applied))
  <2>1. job' = job /\ applied' = applied /\ stale' = stale /\ retries' = retries /\ starts' = starts
    BY <1>2 DEF S!Transition
  <2> QED BY <1>0, <1>2, <2>1 DEF Refused
<1> QED BY <1>1, <1>2

(* The jobs other than the request's.                                      *)
LEMMA OthersAside ==
    ASSUME Sound, StoreTypes, NEW r \in RequestType, Refused(r) \/ Moves(r), lapses' = lapses, thief' = thief,
           sent' \subseteq sent \cup {r}, NEW k \in Jobs, k # r.job,
           \A w \in Workers : S!Works(w, k)' => S!Works(w, k) /\ frame'[w] = frame[w]
    PROVE  Aside(k)
<1>1. /\ job'[k] = job[k] /\ starts'[k] = starts[k] /\ retries'[k] = retries[k]
      /\ (k \in stale' => k \in stale)
  BY DEF Refused, Moves
<1>2. \A s \in applied \cup applied' : s.job = k => (s \in applied <=> s \in applied')
  BY DEF Refused, Moves
<1> QED BY <1>1, <1>2 DEF Aside

LEMMA StartKeeps ==
    ASSUME Sound, StoreInv, NEW w \in Workers, NEW q \in Jobs, S!StartByTransition(w, q)
    PROVE  StoreInv'
<1>1. PICK r : r = S!Request(q, starts[q], "running")
  OBVIOUS
<1>2. r = [job |-> q, run |-> starts[q], from |-> job[q].status, to |-> "running"]
  BY <1>1 DEF S!Request
<1>3. /\ frame[w] = S!Idle /\ job[q].status \in {"queued", "retry_scheduled"} /\ S!Transition(r)
      /\ sent' = sent \cup {r}
      /\ frame' = [frame EXCEPT ![w] = [job |-> q, run |-> starts[q] + 1, claimed |-> FALSE]]
      /\ troubles' = troubles /\ lapses' = lapses /\ thief' = thief
  BY <1>1 DEF S!StartByTransition, S!OnJob
<1>4. StoreTypes /\ frame \in [Workers -> FrameType] /\ starts \in [Jobs -> Nat] /\ JobInv(q)
      /\ retries \in [Jobs -> Nat] /\ lapses \in [Jobs -> Nat]
  BY DEF StoreInv, StoreTypes
<1>5. r \in RequestType /\ r.job = q /\ r.run = starts[q] /\ r.from = job[q].status /\ r.to = "running"
  BY <1>2, <1>3, <1>4 DEF RequestType, S!Statuses
<1>6. /\ Refused(r) \/ Moves(r)
      /\ job' \in [Jobs -> JobType] /\ applied' \subseteq applied \cup {r} /\ stale' \subseteq Jobs
      /\ starts' \in [Jobs -> Nat] /\ retries' \in [Jobs -> Nat]
  BY <1>3, <1>4, <1>5, TransitionMoves
<1>7. /\ frame'[w] = [job |-> q, run |-> starts[q] + 1, claimed |-> FALSE]
      /\ \A v \in Workers \ {w} : frame'[v] = frame[v]
      /\ frame' \in [Workers -> FrameType]
  <2>1. [job |-> q, run |-> starts[q] + 1, claimed |-> FALSE] \in FrameType
    BY <1>4 DEF FrameType
  <2> QED BY <1>3, <1>4, <2>1
<1>8. StoreTypes'
  <2>1. applied' \subseteq RequestType /\ applied' \subseteq sent' \cup GiveUps /\ sent' \subseteq RequestType
    BY <1>3, <1>4, <1>5, <1>6 DEF StoreTypes
  <2> QED BY <1>3, <1>4, <1>6, <1>7, <2>1 DEF StoreTypes
<1>9. ASSUME NEW k \in Jobs, k # q PROVE JobInv(k)'
  <2>1. \A v \in Workers : S!Works(v, k)' => S!Works(v, k) /\ frame'[v] = frame[v]
    BY <1>7, <1>9 DEF S!Works
  <2>2. Aside(k)
    BY <1>3, <1>4, <1>5, <1>6, <1>9, <2>1, OthersAside
  <2> QED BY <1>9, <2>2, AsideKeeps DEF StoreInv
<1>10. ASSUME Moves(r) PROVE JobInv(q)'
  <2>1. /\ job'[q].status = "running" /\ job'[q].claim = job[q].claim /\ starts'[q] = starts[q] + 1
        /\ retries'[q] = retries[q] /\ lapses'[q] = lapses[q] /\ (q \in stale' => q \in stale)
        /\ applied' = IF q \in Keyed THEN applied \cup {r} ELSE applied
    BY <1>3, <1>5, <1>10 DEF Moves
  <2>2. \A v \in Workers : S!Works(v, q)' => v = w \/ (S!Works(v, q) /\ frame'[v] = frame[v])
    BY <1>7 DEF S!Works
  <2>3. Untouched(q)'
    BY <2>1 DEF Untouched
  <2>4. PaidFor(q)'
    BY <1>3, <1>4, <2>1 DEF JobInv, PaidFor, Waiting, Lapsed
  <2>5. Witnessed(q)'
    <3>1. job[q].status = "queued" => job[q].claim = "none" /\ \A v \in Workers : ~S!Works(v, q)
      BY DEF JobInv, Untouched, StoreInv
    <3>2. job[q].status = "retry_scheduled" => retries[q] > 0
      BY <1>4 DEF JobInv, Witnessed
    <3>3. retries'[q] = 0 /\ job'[q].claim # "none" => FALSE
      BY <1>3, <1>4, <2>1, <3>1, <3>2
    <3> QED BY <1>3, <1>4, <2>1, <3>3 DEF JobInv, Witnessed
  <2>6. InTurn(q)'
    <3> SUFFICES ASSUME q \in Keyed, lapses[q] = 0 PROVE InTurn(q)'
      BY <2>1 DEF InTurn
    <3>1. \A v \in Workers : ~S!Works(v, q)
      BY <1>3, <1>4 DEF JobInv, InTurn
    <3>2. \A v \in Workers : S!Works(v, q)' => v = w /\ frame'[v].run = starts'[q]
      BY <1>7, <2>1, <2>2, <3>1
    <3>3. \A s \in sent' : s.job = q => s \in applied'
      BY <1>3, <1>4, <2>1 DEF JobInv, InTurn
    <3>4. \A s \in applied' : s.job = q => s.run \in Nat /\ s.run < starts'[q]
      <4>1. \A s \in applied : s.job = q => s.run \in Nat /\ s.run <= starts[q]
        BY <1>4 DEF JobInv, InTurn, StoreTypes, RequestType
      <4> QED BY <1>4, <1>5, <2>1, <4>1
    <3>5. q \notin stale'
      BY <1>4, <2>1 DEF JobInv, InTurn
    <3> QED BY <1>4, <2>1, <3>2, <3>3, <3>4, <3>5 DEF InTurn
  <2> QED BY <2>3, <2>4, <2>5, <2>6 DEF JobInv
<1>11. ASSUME Refused(r) PROVE JobInv(q)'
  <2>1. q \in Keyed /\ r \in applied
    BY <1>5, <1>11 DEF Refused
  <2>2. job' = job /\ applied' = applied /\ stale' = stale /\ retries' = retries /\ starts' = starts
    BY <1>11 DEF Refused
  <2>3. lapses[q] # 0
    BY <1>4, <1>5, <2>1 DEF JobInv, InTurn
  <2>4. job[q].status = "retry_scheduled" /\ retries[q] > 0
    BY <1>3, <1>4, <1>5, <2>1 DEF JobInv, Untouched, Witnessed
  <2> QED BY <1>3, <1>4, <2>2, <2>3, <2>4 DEF JobInv, Untouched, PaidFor, Waiting, Lapsed, Witnessed, InTurn
<1> QED BY <1>6, <1>8, <1>9, <1>10, <1>11 DEF StoreInv

(* A request of a finished run, sent now or sent again.                    *)
LEMMA FinishKeeps ==
    ASSUME Sound, StoreInv, NEW w \in Workers, NEW to \in S!Statuses, S!Finish(w, to)
    PROVE  StoreInv'
<1>1. PICK f : f = frame[w]
  OBVIOUS
<1>2. PICK r : r = [job |-> f.job, run |-> f.run, from |-> "running", to |-> to]
  OBVIOUS
<1>3. /\ f # S!Idle /\ to \in {"retry_scheduled", "succeeded", "dead"} /\ S!Transition(r)
      /\ sent' = sent \cup {r} /\ frame' = [frame EXCEPT ![w] = S!Idle]
      /\ troubles' = troubles /\ lapses' = lapses /\ thief' = thief
  BY <1>1, <1>2 DEF S!Finish, S!Allowed
<1>4. StoreTypes /\ frame \in [Workers -> FrameType] /\ starts \in [Jobs -> Nat]
      /\ retries \in [Jobs -> Nat] /\ lapses \in [Jobs -> Nat]
  BY DEF StoreInv, StoreTypes
<1>5. f \in [job : Jobs, run : Nat, claimed : BOOLEAN]
  BY <1>1, <1>3, <1>4 DEF FrameType
<1>6. PICK q \in Jobs : q = f.job
  BY <1>5
<1>7. r \in RequestType /\ r.job = q /\ r.run = f.run /\ r.from = "running" /\ r.to = to
  BY <1>2, <1>3, <1>5, <1>6 DEF RequestType, S!Statuses
<1>8. /\ Refused(r) \/ Moves(r)
      /\ job' \in [Jobs -> JobType] /\ applied' \subseteq applied \cup {r} /\ stale' \subseteq Jobs
      /\ starts' \in [Jobs -> Nat] /\ retries' \in [Jobs -> Nat]
  BY <1>3, <1>4, <1>7, TransitionMoves
<1>9. JobInv(q) /\ S!Works(w, q)
  BY <1>1, <1>6 DEF StoreInv, S!Works
<1>10. /\ \A v \in Workers, k \in Jobs : S!Works(v, k)' => v # w /\ S!Works(v, k) /\ frame'[v] = frame[v]
       /\ frame' \in [Workers -> FrameType]
  <2>1. S!Idle \in FrameType /\ \A k \in Jobs : S!Idle.job # k
    BY DEF FrameType, S!Idle, Sound
  <2> QED BY <1>3, <1>4, <2>1 DEF S!Works
<1>11. StoreTypes'
  <2>1. applied' \subseteq RequestType /\ applied' \subseteq sent' \cup GiveUps /\ sent' \subseteq RequestType
    BY <1>3, <1>4, <1>7, <1>8 DEF StoreTypes
  <2> QED BY <1>3, <1>4, <1>8, <1>10, <2>1 DEF StoreTypes
<1>12. ASSUME NEW k \in Jobs, k # q PROVE JobInv(k)'
  <2>1. Aside(k)
    BY <1>3, <1>4, <1>7, <1>8, <1>10, <1>12, OthersAside
  <2> QED BY <1>12, <2>1, AsideKeeps DEF StoreInv
<1>13. job[q].status \notin {"absent", "queued"}
  BY <1>9 DEF JobInv, Untouched
<1>14. ASSUME Moves(r) PROVE JobInv(q)'
  <2>1. /\ job[q].status = "running" /\ job'[q].status = to /\ job'[q].claim = job[q].claim
        /\ starts'[q] = starts[q] /\ lapses'[q] = lapses[q]
        /\ retries'[q] = IF to = "retry_scheduled" THEN retries[q] + 1 ELSE retries[q]
        /\ applied' = IF q \in Keyed THEN applied \cup {r} ELSE applied
        /\ (f.run = starts[q] => stale' = stale)
    BY <1>3, <1>7, <1>14 DEF Moves
  <2>2. Untouched(q)'
    BY <1>3, <2>1 DEF Untouched
  <2>3. PaidFor(q)'
    <3>1. Waiting(q) = 0 /\ Waiting(q)' = (IF to = "retry_scheduled" THEN 1 ELSE 0)
      BY <1>3, <2>1 DEF Waiting
    <3>2. Lapsed(q)' = Lapsed(q) /\ Lapsed(q) \in {0, 1}
      BY <2>1 DEF Lapsed
    <3> QED BY <1>4, <1>9, <2>1, <3>1, <3>2 DEF JobInv, PaidFor
  <2>4. Witnessed(q)'
    <3>1. retries'[q] \in Nat /\ retries[q] \in Nat /\ (retries'[q] = 0 => retries[q] = 0)
          /\ (to = "retry_scheduled" => retries'[q] > 0) /\ (retries[q] > 0 => retries'[q] > 0)
      BY <1>4, <2>1
    <3> QED BY <1>3, <1>9, <1>10, <2>1, <3>1 DEF JobInv, Witnessed
  <2>5. InTurn(q)'
    <3> SUFFICES ASSUME q \in Keyed, lapses[q] = 0 PROVE InTurn(q)'
      BY <2>1 DEF InTurn
    <3>1. f.run = starts[q] /\ \A v \in Workers : S!Works(v, q) => v = w
      BY <1>1, <1>9 DEF JobInv, InTurn
    <3>2. \A v \in Workers : ~S!Works(v, q)'
      BY <1>10, <3>1
    <3>3. \A s \in sent' : s.job = q => s \in applied'
      BY <1>3, <1>9, <2>1 DEF JobInv, InTurn
    <3>4. \A s \in applied' : s.job = q =>
              s.run <= starts[q] /\ (s.to = "running" => s.run < starts[q])
      <4>1. r.run <= starts[q] /\ r.to # "running"
        BY <1>3, <1>4, <1>7, <3>1
      <4> QED BY <1>9, <2>1, <4>1 DEF JobInv, InTurn
    <3>5. job'[q].status # "running" /\ q \notin stale'
      BY <1>3, <1>9, <2>1, <3>1 DEF JobInv, InTurn
    <3> QED BY <2>1, <3>2, <3>3, <3>4, <3>5 DEF InTurn
  <2> QED BY <2>2, <2>3, <2>4, <2>5 DEF JobInv
<1>15. ASSUME Refused(r) PROVE JobInv(q)'
  <2>1. job' = job /\ applied' = applied /\ stale' = stale /\ retries' = retries /\ starts' = starts
    BY <1>15 DEF Refused
  <2>2. ~(q \in Keyed /\ lapses[q] = 0)
    <3> SUFFICES ASSUME q \in Keyed, lapses[q] = 0 PROVE FALSE
      OBVIOUS
    <3>1. f.run = starts[q] /\ job[q].status = "running"
      BY <1>1, <1>9 DEF JobInv, InTurn
    <3>2. r \in applied
      BY <1>7, <1>15, <3>1 DEF Refused
    <3> QED BY <1>7, <1>9, <3>1, <3>2 DEF JobInv, InTurn
  <2>3. Untouched(q)'
    BY <1>13, <2>1 DEF Untouched
  <2>4. PaidFor(q)' /\ InTurn(q)'
    BY <1>3, <1>9, <2>1, <2>2 DEF JobInv, PaidFor, Waiting, Lapsed, InTurn
  <2>5. Witnessed(q)'
    BY <1>3, <1>9, <1>10, <2>1 DEF JobInv, Witnessed
  <2> QED BY <2>3, <2>4, <2>5 DEF JobInv
<1> QED BY <1>8, <1>11, <1>12, <1>14, <1>15 DEF StoreInv

LEMMA RedeliverKeeps ==
    ASSUME Sound, StoreInv, NEW r \in sent, S!Redeliver(r)
    PROVE  StoreInv'
<1>1. /\ S!Transition(r) /\ frame' = frame /\ sent' = sent /\ lapses' = lapses /\ thief' = thief
      /\ troubles < MaxTroubles /\ troubles' = troubles + 1
  BY DEF S!Redeliver, S!Fault
<1>2. StoreTypes /\ r \in RequestType /\ starts \in [Jobs -> Nat]
      /\ retries \in [Jobs -> Nat] /\ lapses \in [Jobs -> Nat]
  BY DEF StoreInv, StoreTypes
<1>3. PICK q \in Jobs : q = r.job
  BY <1>2 DEF RequestType
<1>4. /\ Refused(r) \/ Moves(r)
      /\ job' \in [Jobs -> JobType] /\ applied' \subseteq applied \cup {r} /\ stale' \subseteq Jobs
      /\ starts' \in [Jobs -> Nat] /\ retries' \in [Jobs -> Nat]
  BY <1>1, <1>2, TransitionMoves
<1>5. StoreTypes'
  <2>1. troubles' \in 0 .. MaxTroubles
    BY <1>1, <1>2 DEF StoreTypes, Sound
  <2> QED BY <1>1, <1>2, <1>4, <2>1 DEF StoreTypes
<1>6. ASSUME NEW k \in Jobs, k # q PROVE JobInv(k)'
  <2>1. \A v \in Workers : S!Works(v, k)' => S!Works(v, k) /\ frame'[v] = frame[v]
    BY <1>1 DEF S!Works
  <2>2. Aside(k)
    BY <1>1, <1>2, <1>3, <1>4, <1>6, <2>1, OthersAside
  <2> QED BY <1>6, <2>2, AsideKeeps DEF StoreInv
<1>7. JobInv(q)
  BY DEF StoreInv
<1>8. job[q].status \notin {"absent", "queued"}
  BY <1>3, <1>7 DEF JobInv, Untouched
<1>9. ASSUME Refused(r) PROVE JobInv(q)'
  <2>1. \A v \in Workers : S!Works(v, q)' => S!Works(v, q) /\ frame'[v] = frame[v]
    BY <1>1 DEF S!Works
  <2>2. Aside(q)
    BY <1>1, <1>9, <2>1 DEF Aside, Refused
  <2> QED BY <1>7, <2>2, AsideKeeps
<1>10. ASSUME Moves(r) PROVE JobInv(q)'
  <2>1. /\ job[q].status = r.from /\ job'[q].status = r.to /\ job'[q].claim = job[q].claim
        /\ lapses'[q] = lapses[q] /\ (q \in Keyed => r \notin applied)
        /\ retries'[q] = IF r.to = "retry_scheduled" THEN retries[q] + 1 ELSE retries[q]
        /\ starts'[q] = IF r.to = "running" THEN starts[q] + 1 ELSE starts[q]
    BY <1>1, <1>3, <1>10 DEF Moves
  <2>2. r.to \in {"running", "retry_scheduled", "succeeded", "dead"} /\ r.from \in {"running", "retry_scheduled"}
    BY <1>2, <1>8, <2>1 DEF RequestType
  <2>3. Untouched(q)'
    BY <2>1, <2>2 DEF Untouched
  <2>4. ~(q \in Keyed /\ lapses[q] = 0)
    BY <1>3, <1>7, <2>1 DEF JobInv, InTurn
  <2>5. InTurn(q)'
    BY <2>1, <2>4 DEF InTurn
  <2>6. Witnessed(q)'
    <3>1. retries'[q] \in Nat /\ retries[q] \in Nat /\ (retries'[q] = 0 => retries[q] = 0)
          /\ (r.to = "retry_scheduled" => retries'[q] > 0) /\ (retries[q] > 0 => retries'[q] > 0)
      BY <1>2, <2>1
    <3>2. \A v \in Workers : S!Works(v, q)' <=> S!Works(v, q)
      BY <1>1 DEF S!Works
    <3> QED BY <1>1, <1>7, <2>1, <3>1, <3>2 DEF JobInv, Witnessed
  <2>7. PaidFor(q)'
    <3>1. Lapsed(q)' = Lapsed(q) /\ Lapsed(q) \in {0, 1}
      BY <2>1 DEF Lapsed
    <3>2. CASE r.to = "running" /\ r.from = "retry_scheduled"
      <4>1. Waiting(q) = 1 /\ Waiting(q)' = 0
        BY <2>1, <3>2 DEF Waiting
      <4> QED BY <1>2, <1>7, <2>1, <3>1, <3>2, <4>1 DEF JobInv, PaidFor
    <3>3. CASE r.to = "retry_scheduled"
      <4>1. Waiting(q)' = 1 /\ Waiting(q) \in {0, 1}
        BY <2>1, <3>3 DEF Waiting
      <4> QED BY <1>2, <1>7, <2>1, <3>1, <3>3, <4>1 DEF JobInv, PaidFor
    <3>4. CASE r.to \in {"succeeded", "dead"}
      <4>1. Waiting(q)' = 0 /\ Waiting(q) \in {0, 1}
        BY <2>1, <3>4 DEF Waiting
      <4> QED BY <1>2, <1>7, <2>1, <3>1, <3>4, <4>1 DEF JobInv, PaidFor
    <3>5. ~(r.to = "running" /\ r.from = "running")
      BY <1>2 DEF RequestType
    <3> QED BY <2>2, <3>2, <3>3, <3>4, <3>5
  <2> QED BY <2>3, <2>5, <2>6, <2>7 DEF JobInv
<1> QED BY <1>4, <1>5, <1>6, <1>9, <1>10 DEF StoreInv

LEMMA GiveUpKeeps == ASSUME Sound, StoreInv, NEW q \in Jobs, S!GiveUp(q) PROVE StoreInv'
<1>1. PICK r : r = S!Request(q, starts[q], "dead")
  OBVIOUS
<1>2. r = [job |-> q, run |-> starts[q], from |-> job[q].status, to |-> "dead"]
  BY <1>1 DEF S!Request
<1>3. /\ job[q].status \in {"queued", "retry_scheduled"} /\ S!Transition(r) /\ sent' = sent
      /\ frame' = frame /\ troubles' = troubles /\ lapses' = lapses /\ thief' = thief
  BY <1>1 DEF S!GiveUp
<1>4. StoreTypes /\ starts \in [Jobs -> Nat] /\ JobInv(q)
      /\ retries \in [Jobs -> Nat] /\ lapses \in [Jobs -> Nat]
  BY DEF StoreInv, StoreTypes
<1>5. r \in RequestType /\ r.job = q /\ r.run = starts[q] /\ r.from = job[q].status /\ r.to = "dead"
  BY <1>2, <1>3, <1>4 DEF RequestType, S!Statuses
<1>6. /\ Refused(r) \/ Moves(r)
      /\ job' \in [Jobs -> JobType] /\ applied' \subseteq applied \cup {r} /\ stale' \subseteq Jobs
      /\ starts' \in [Jobs -> Nat] /\ retries' \in [Jobs -> Nat]
  BY <1>3, <1>4, <1>5, TransitionMoves
<1>7. StoreTypes'
  <2>1. r \in GiveUps
    BY <1>2, <1>3, <1>4 DEF GiveUps, S!Statuses
  <2>2. applied' \subseteq RequestType /\ applied' \subseteq sent' \cup GiveUps
    BY <1>3, <1>4, <1>5, <1>6, <2>1 DEF StoreTypes
  <2> QED BY <1>3, <1>4, <1>6, <2>2 DEF StoreTypes
<1>8. \A k \in Jobs : \A v \in Workers : S!Works(v, k)' => S!Works(v, k) /\ frame'[v] = frame[v]
  BY <1>3 DEF S!Works
<1>9. ASSUME NEW k \in Jobs, k # q PROVE JobInv(k)'
  <2>1. Aside(k)
    BY <1>3, <1>4, <1>5, <1>6, <1>8, <1>9, OthersAside
  <2> QED BY <1>9, <2>1, AsideKeeps DEF StoreInv
<1>10. ASSUME Refused(r) PROVE JobInv(q)'
  <2>1. Aside(q)
    BY <1>3, <1>8, <1>10 DEF Aside, Refused
  <2> QED BY <1>4, <2>1, AsideKeeps
<1>11. ASSUME Moves(r) PROVE JobInv(q)'
  <2>1. /\ job'[q].status = "dead" /\ job'[q].claim = job[q].claim /\ starts'[q] = starts[q]
        /\ retries'[q] = retries[q] /\ lapses'[q] = lapses[q] /\ stale' = stale
        /\ applied' = IF q \in Keyed THEN applied \cup {r} ELSE applied
    BY <1>3, <1>5, <1>11 DEF Moves
  <2>2. Untouched(q)'
    BY <2>1 DEF Untouched
  <2>3. PaidFor(q)'
    <3>1. Waiting(q) = 1 /\ Waiting(q)' = 0 /\ Lapsed(q)' = Lapsed(q) /\ Lapsed(q) \in {0, 1}
      BY <1>3, <2>1 DEF Waiting, Lapsed
    <3> QED BY <1>4, <2>1, <3>1 DEF JobInv, PaidFor
  <2>4. Witnessed(q)'
    BY <1>3, <1>4, <1>8, <2>1 DEF JobInv, Witnessed
  <2>5. InTurn(q)'
    <3> SUFFICES ASSUME q \in Keyed, lapses[q] = 0 PROVE InTurn(q)'
      BY <2>1 DEF InTurn
    <3>1. \A v \in Workers : ~S!Works(v, q)'
      BY <1>3, <1>4, <1>8 DEF JobInv, InTurn
    <3>2. \A s \in sent' : s.job = q => s \in applied'
      BY <1>3, <1>4, <2>1 DEF JobInv, InTurn
    <3>3. \A s \in applied' : s.job = q => s.run <= starts[q] /\ (s.to = "running" => s.run < starts[q])
      <4>1. r.run <= starts[q] /\ r.to # "running"
        BY <1>4, <1>5
      <4> QED BY <1>4, <2>1, <4>1 DEF JobInv, InTurn
    <3>4. q \notin stale'
      BY <1>4, <2>1 DEF JobInv, InTurn
    <3> QED BY <2>1, <3>1, <3>2, <3>3, <3>4 DEF InTurn
  <2> QED BY <2>2, <2>3, <2>4, <2>5 DEF JobInv
<1> QED BY <1>6, <1>7, <1>9, <1>10, <1>11 DEF StoreInv

LEMMA CreateKeeps == ASSUME Sound, StoreInv, NEW q \in Jobs, S!CreateJob(q) PROVE StoreInv'
<1>1. /\ job[q].status = "absent" /\ job' = [job EXCEPT ![q].status = "queued"]
      /\ applied' = applied /\ frame' = frame /\ troubles' = troubles /\ sent' = sent /\ starts' = starts
      /\ retries' = retries /\ lapses' = lapses /\ stale' = stale /\ thief' = thief
  BY DEF S!CreateJob
<1>2. StoreTypes /\ job \in [Jobs -> JobType] /\ JobInv(q)
  BY DEF StoreInv, StoreTypes
<1>3. /\ job'[q].status = "queued" /\ job'[q].claim = job[q].claim /\ job'[q] \in JobType
      /\ \A k \in Jobs \ {q} : job'[k] = job[k]
  <2>1. job'[q] = [job[q] EXCEPT !.status = "queued"] /\ \A k \in Jobs \ {q} : job'[k] = job[k]
    BY <1>1, <1>2
  <2> QED BY <1>2, <2>1 DEF JobType, S!Statuses
<1>4. StoreTypes'
  <2>1. job' \in [Jobs -> JobType]
    <3>1. \A k \in Jobs : job'[k] \in JobType
      BY <1>2, <1>3
    <3>2. DOMAIN job' = Jobs /\ job' = [k \in DOMAIN job' |-> job'[k]]
      BY <1>1, <1>2
    <3> QED BY <3>1, <3>2
  <2> QED BY <1>1, <1>2, <2>1 DEF StoreTypes
<1>5. \A k \in Jobs : \A v \in Workers : S!Works(v, k)' <=> S!Works(v, k)
  BY <1>1 DEF S!Works
<1>6. ASSUME NEW k \in Jobs, k # q PROVE JobInv(k)'
  <2>1. Aside(k)
    BY <1>1, <1>3, <1>5, <1>6 DEF Aside
  <2> QED BY <1>6, <2>1, AsideKeeps DEF StoreInv
<1>7. JobInv(q)'
  <2>1. Untouched(q)' /\ Witnessed(q)'
    BY <1>1, <1>2, <1>3, <1>5 DEF JobInv, Untouched, Witnessed
  <2>2. PaidFor(q)'
    BY <1>1, <1>2, <1>3 DEF JobInv, PaidFor, Waiting, Lapsed
  <2>3. InTurn(q)'
    <3>1. \A v \in Workers : ~S!Works(v, q)'
      BY <1>1, <1>2, <1>5 DEF JobInv, Untouched
    <3>2. \A s \in sent' \cup applied' : s.job # q
      BY <1>1, <1>2 DEF JobInv, Untouched
    <3> QED BY <1>1, <1>2, <3>1, <3>2 DEF JobInv, InTurn
  <2> QED BY <2>1, <2>2, <2>3 DEF JobInv
<1> QED BY <1>4, <1>6, <1>7 DEF StoreInv

LEMMA LapsesKeep == ASSUME Sound, StoreInv, NEW q \in Jobs, S!ClaimLapses(q) PROVE StoreInv'
<1>1. /\ job[q].claim = "future" /\ job' = [job EXCEPT ![q].claim = "past"]
      /\ lapses' = [lapses EXCEPT ![q] = @ + 1]
      /\ applied' = applied /\ frame' = frame /\ sent' = sent /\ starts' = starts
      /\ retries' = retries /\ stale' = stale /\ thief' = thief
  BY DEF S!ClaimLapses
<1>2. /\ StoreTypes /\ job \in [Jobs -> JobType] /\ JobInv(q) /\ starts \in [Jobs -> Nat]
      /\ retries \in [Jobs -> Nat] /\ lapses \in [Jobs -> Nat] /\ troubles \in 0 .. MaxTroubles
  BY DEF StoreInv, StoreTypes
<1>3. /\ job'[q].status = job[q].status /\ job'[q].claim = "past" /\ job'[q] \in JobType
      /\ \A k \in Jobs \ {q} : job'[k] = job[k]
  <2>1. job'[q] = [job[q] EXCEPT !.claim = "past"] /\ \A k \in Jobs \ {q} : job'[k] = job[k]
    BY <1>1, <1>2
  <2> QED BY <1>2, <2>1 DEF JobType
<1>4. lapses'[q] = lapses[q] + 1 /\ \A k \in Jobs \ {q} : lapses'[k] = lapses[k]
  BY <1>1, <1>2
<1>5. StoreTypes'
  <2>1. job' \in [Jobs -> JobType]
    <3>1. \A k \in Jobs : job'[k] \in JobType
      BY <1>2, <1>3
    <3>2. DOMAIN job' = Jobs /\ job' = [k \in DOMAIN job' |-> job'[k]]
      BY <1>1, <1>2
    <3> QED BY <3>1, <3>2
  <2>2. troubles' \in 0 .. MaxTroubles
    BY <1>2 DEF S!ClaimLapses, S!Fault, Sound
  <2>3. lapses' \in [Jobs -> Nat]
    BY <1>1, <1>2
  <2> QED BY <1>1, <1>2, <2>1, <2>2, <2>3 DEF StoreTypes
<1>6. \A k \in Jobs : \A v \in Workers : S!Works(v, k)' <=> S!Works(v, k)
  BY <1>1 DEF S!Works
<1>7. ASSUME NEW k \in Jobs, k # q PROVE JobInv(k)'
  <2>1. Aside(k)
    BY <1>1, <1>3, <1>4, <1>6, <1>7 DEF Aside
  <2> QED BY <1>7, <2>1, AsideKeeps DEF StoreInv
<1>8. JobInv(q)'
  <2>1. job[q].status \notin {"absent", "queued"}
    BY <1>1, <1>2 DEF JobInv, Untouched
  <2>2. Untouched(q)'
    BY <1>3, <2>1 DEF Untouched
  <2>3. PaidFor(q)'
    <3>1. Waiting(q)' = Waiting(q) /\ Waiting(q) \in {0, 1} /\ Lapsed(q) = 0
          /\ Lapsed(q)' = (IF q \in Reads THEN 1 ELSE 0)
      BY <1>1, <1>3 DEF Waiting, Lapsed
    <3>2. q \in Reads \/ q \notin Reads
      OBVIOUS
    <3> QED BY <1>1, <1>2, <1>4, <3>1, <3>2 DEF JobInv, PaidFor
  <2>4. Witnessed(q)'
    <3>1. lapses'[q] > 0
      BY <1>2, <1>4
    <3> QED BY <1>1, <1>2, <1>3, <1>6, <3>1 DEF JobInv, Witnessed
  <2>5. InTurn(q)'
    BY <1>2, <1>4 DEF InTurn
  <2> QED BY <2>2, <2>3, <2>4, <2>5 DEF JobInv
<1> QED BY <1>5, <1>7, <1>8 DEF StoreInv

LEMMA CrashKeeps == ASSUME Sound, StoreInv, NEW w \in Workers, S!Crash(w) PROVE StoreInv'
<1>1. /\ frame' = [frame EXCEPT ![w] = S!Idle] /\ troubles < MaxTroubles /\ troubles' = troubles + 1
      /\ job' = job /\ applied' = applied /\ sent' = sent /\ starts' = starts
      /\ retries' = retries /\ lapses' = lapses /\ stale' = stale /\ thief' = thief
  BY DEF S!Crash, S!Fault
<1>2. StoreTypes /\ frame \in [Workers -> FrameType] /\ troubles \in 0 .. MaxTroubles
  BY DEF StoreInv, StoreTypes
<1>3. S!Idle \in FrameType /\ \A k \in Jobs : S!Idle.job # k
  BY DEF FrameType, S!Idle, Sound
<1>4. StoreTypes'
  <2>1. troubles' \in 0 .. MaxTroubles
    BY <1>1, <1>2 DEF Sound
  <2>2. frame' \in [Workers -> FrameType]
    BY <1>1, <1>2, <1>3
  <2> QED BY <1>1, <1>2, <2>1, <2>2 DEF StoreTypes
<1>5. ASSUME NEW k \in Jobs PROVE JobInv(k)'
  <2>1. \A v \in Workers : S!Works(v, k)' => S!Works(v, k) /\ frame'[v] = frame[v]
    BY <1>1, <1>2, <1>3 DEF S!Works
  <2>2. Aside(k)
    BY <1>1, <2>1 DEF Aside
  <2> QED BY <2>2, AsideKeeps DEF StoreInv
<1> QED BY <1>4, <1>5 DEF StoreInv

LEMMA ClaimKeeps == ASSUME Sound, StoreInv, NEW w \in Workers, S!ClaimNextJob(w) PROVE StoreInv'
<1>1. /\ frame[w] = S!Idle
      /\ job' = [j \in Jobs |->
           IF S!Doomed(j) THEN [job[j] EXCEPT !.status = "dead"]
           ELSE IF S!Oldest(j) THEN [status |-> "running", owner |-> w, claim |-> "future"]
           ELSE job[j]]
      /\ starts' = [j \in Jobs |-> IF S!Oldest(j) THEN starts[j] + 1 ELSE starts[j]]
      /\ thief' = thief \cup {j \in Jobs : /\ S!Doomed(j) \/ (S!Oldest(j) /\ S!Expired(j))
                                           /\ \E v \in Workers : S!Works(v, j) /\ ~frame[v].claimed}
      /\ applied' = applied /\ troubles' = troubles /\ sent' = sent
      /\ retries' = retries /\ lapses' = lapses /\ stale' = stale
  BY DEF S!ClaimNextJob
<1>2. /\ StoreTypes /\ job \in [Jobs -> JobType] /\ frame \in [Workers -> FrameType] /\ starts \in [Jobs -> Nat]
      /\ retries \in [Jobs -> Nat] /\ lapses \in [Jobs -> Nat] /\ thief \subseteq Jobs
      /\ \A k \in Jobs : JobInv(k)
  BY DEF StoreInv, StoreTypes
<1>3. \A i, j \in Jobs : S!Oldest(i) /\ S!Oldest(j) => i = j
  BY DEF S!Oldest, Sound
<1>4. \A j \in Jobs : ~(S!Doomed(j) /\ S!Oldest(j))
  BY DEF S!Oldest, S!Doomed, S!Fits, S!Expired
<1>5. /\ frame' \in [Workers -> FrameType]
      /\ \A v \in Workers \ {w} : frame'[v] = frame[v]
      /\ \A k \in Jobs : S!Oldest(k) => frame'[w] = [job |-> k, run |-> starts[k] + 1, claimed |-> TRUE]
      /\ \A k \in Jobs : ~S!Oldest(k) => ~S!Works(w, k)'
  <2>1. S!Idle \in FrameType /\ \A k \in Jobs : S!Idle.job # k
    BY DEF FrameType, S!Idle, Sound
  <2>2. CASE \E j \in Jobs : S!Oldest(j)
    <3>1. PICK q \in Jobs : q = CHOOSE j \in Jobs : S!Oldest(j)
      BY <2>2
    <3>2. S!Oldest(q)
      BY <2>2, <3>1
    <3>3. frame' = [frame EXCEPT ![w] = [job |-> q, run |-> starts[q] + 1, claimed |-> TRUE]]
      BY <2>2, <3>1 DEF S!ClaimNextJob, S!OnJob
    <3>4. [job |-> q, run |-> starts[q] + 1, claimed |-> TRUE] \in FrameType
      BY <1>2 DEF FrameType
    <3>5. frame' \in [Workers -> FrameType] /\ \A v \in Workers \ {w} : frame'[v] = frame[v]
      BY <1>2, <3>3, <3>4
    <3>6. frame'[w] = [job |-> q, run |-> starts[q] + 1, claimed |-> TRUE]
      BY <1>2, <3>3
    <3>7. \A k \in Jobs : S!Oldest(k) => k = q
      BY <1>3, <3>2
    <3>8. ASSUME NEW k \in Jobs, ~S!Oldest(k) PROVE ~S!Works(w, k)'
      <4>1. k # q /\ frame'[w].job = q
        BY <3>2, <3>6, <3>8
      <4> QED BY <4>1 DEF S!Works
    <3> QED BY <3>5, <3>6, <3>7, <3>8
  <2>3. CASE ~ \E j \in Jobs : S!Oldest(j)
    <3>1. frame' = frame
      BY <2>3 DEF S!ClaimNextJob
    <3> QED BY <1>1, <1>2, <2>1, <2>3, <3>1 DEF S!Works
  <2> QED BY <2>2, <2>3
<1>6. \A v \in Workers, k \in Jobs : ~S!Oldest(k) /\ S!Works(v, k)' => S!Works(v, k) /\ frame'[v] = frame[v]
  BY <1>5 DEF S!Works
<1>7. \A k \in Jobs : ~S!Works(w, k)
  BY <1>1 DEF S!Works, S!Idle, Sound
<1>8. StoreTypes'
  <2>1. job' \in [Jobs -> JobType]
    <3>1. ASSUME NEW j \in Jobs PROVE job'[j] \in JobType
      <4>1. [status |-> "running", owner |-> w, claim |-> "future"] \in JobType
        BY DEF JobType, S!Statuses
      <4>2. [job[j] EXCEPT !.status = "dead"] \in JobType
        BY <1>2 DEF JobType, S!Statuses
      <4> QED BY <1>1, <1>2, <4>1, <4>2
    <3> QED BY <1>1, <3>1
  <2>2. starts' \in [Jobs -> Nat]
    BY <1>1, <1>2
  <2>3. thief' \subseteq Jobs
    BY <1>1, <1>2
  <2> QED BY <1>1, <1>2, <1>5, <2>1, <2>2, <2>3 DEF StoreTypes
<1>9. ASSUME NEW j \in Jobs, ~S!Doomed(j), ~S!Oldest(j) PROVE JobInv(j)'
  <2>1. Aside(j)
    BY <1>1, <1>6, <1>9 DEF Aside
  <2> QED BY <1>2, <2>1, AsideKeeps
<1>10. \A j \in Jobs : JobInv(j) /\ job[j].claim = "past" => lapses[j] > 0
  BY DEF JobInv, Witnessed
<1>11. ASSUME NEW j \in Jobs, S!Doomed(j) \/ (S!Oldest(j) /\ S!Expired(j)),
              NEW v \in Workers, S!Works(v, j), ~frame[v].claimed
       PROVE  retries[j] > 0
  <2>1. job[j].claim = "past"
    BY <1>11 DEF S!Doomed, S!Expired
  <2>2. retries[j] # 0
    BY <1>2, <1>11, <2>1 DEF JobInv, Witnessed
  <2> QED BY <1>2, <2>2
<1>12. ASSUME NEW j \in Jobs, S!Doomed(j) PROVE JobInv(j)'
  <2>1. job[j].status = "running" /\ job[j].claim = "past" /\ j \notin Reads /\ ~S!Oldest(j)
    BY <1>4, <1>12 DEF S!Doomed, S!Expired
  <2>2. /\ job'[j].status = "dead" /\ job'[j].claim = "past" /\ starts'[j] = starts[j]
    BY <1>1, <1>2, <1>12, <2>1 DEF JobType
  <2>3. lapses[j] > 0
    BY <1>2, <1>10, <2>1
  <2>4. Untouched(j)'
    BY <2>2 DEF Untouched
  <2>5. PaidFor(j)'
    <3>1. Waiting(j) = 0 /\ Waiting(j)' = 0 /\ Lapsed(j)' = 0 /\ Lapsed(j) = 0
      BY <2>1, <2>2 DEF Waiting, Lapsed
    <3> QED BY <1>1, <1>2, <2>1, <2>2, <3>1 DEF JobInv, PaidFor
  <2>6. Witnessed(j)'
    <3>1. j \in thief' => lapses'[j] > 0 /\ retries'[j] > 0
      BY <1>1, <1>2, <1>11, <1>12, <2>3 DEF JobInv, Witnessed
    <3>2. retries'[j] = 0 /\ job'[j].claim # "none" => \A v \in Workers : S!Works(v, j)' => frame'[v].claimed
      BY <1>1, <1>2, <1>6, <2>1 DEF JobInv, Witnessed
    <3> QED BY <1>1, <2>2, <2>3, <3>1, <3>2 DEF Witnessed
  <2>7. InTurn(j)'
    BY <1>1, <1>2, <2>3 DEF InTurn
  <2> QED BY <2>4, <2>5, <2>6, <2>7 DEF JobInv
<1>13. ASSUME NEW j \in Jobs, S!Oldest(j) PROVE JobInv(j)'
  <2>1. S!Fits(j) /\ ~S!Doomed(j)
    BY <1>4, <1>13 DEF S!Oldest
  <2>2. /\ job'[j].status = "running" /\ job'[j].claim = "future" /\ starts'[j] = starts[j] + 1
        /\ frame'[w] = [job |-> j, run |-> starts[j] + 1, claimed |-> TRUE]
    BY <1>1, <1>5, <1>13, <2>1
  <2>3. job[j].status = "queued" \/ (job[j].status = "running" /\ job[j].claim = "past" /\ j \in Reads)
    BY <2>1 DEF S!Fits, S!Expired
  <2>4. \A v \in Workers \ {w} : frame'[v] = frame[v] /\ (S!Works(v, j)' <=> S!Works(v, j))
    BY <1>5 DEF S!Works
  <2>5. Untouched(j)'
    BY <2>2 DEF Untouched
  <2>6. PaidFor(j)'
    <3>1. Waiting(j)' = 0 /\ Lapsed(j)' = 0
      BY <2>2 DEF Waiting, Lapsed
    <3>2. Waiting(j) + Lapsed(j) = 1
      <4>1. CASE job[j].status = "queued"
        <5>1. job[j].claim = "none"
          BY <1>2, <4>1 DEF JobInv, Untouched
        <5> QED BY <4>1, <5>1 DEF Waiting, Lapsed
      <4>2. CASE job[j].status = "running" /\ job[j].claim = "past" /\ j \in Reads
        BY <4>2 DEF Waiting, Lapsed
      <4> QED BY <2>3, <4>1, <4>2
    <3>3. Waiting(j) \in {0, 1} /\ Lapsed(j) \in {0, 1}
      BY DEF Waiting, Lapsed
    <3> QED BY <1>1, <1>2, <2>2, <3>1, <3>2, <3>3 DEF JobInv, PaidFor
  <2>7. Witnessed(j)'
    <3>1. j \in thief' => lapses'[j] > 0 /\ retries'[j] > 0
      <4>1. j \in thief => lapses[j] > 0 /\ retries[j] > 0
        BY <1>2 DEF JobInv, Witnessed
      <4>2. S!Expired(j) => lapses[j] > 0
        BY <1>2, <1>10 DEF S!Expired
      <4>3. ASSUME j \in thief', j \notin thief PROVE lapses[j] > 0 /\ retries[j] > 0
        <5>1. S!Expired(j) /\ \E v \in Workers : S!Works(v, j) /\ ~frame[v].claimed
          BY <1>1, <2>1, <4>3
        <5> QED BY <1>11, <1>13, <4>2, <5>1
      <4> QED BY <1>1, <4>1, <4>3
    <3>2. retries'[j] = 0 => \A v \in Workers : S!Works(v, j)' => frame'[v].claimed
      <4> SUFFICES ASSUME retries[j] = 0, NEW v \in Workers, S!Works(v, j)' PROVE frame'[v].claimed
        BY <1>1
      <4>1. CASE v = w
        BY <2>2, <4>1
      <4>2. CASE v # w
        <5>1. S!Works(v, j) /\ frame'[v] = frame[v]
          BY <2>4, <4>2
        <5>2. job[j].status # "queued"
          BY <1>2, <5>1 DEF JobInv, Untouched
        <5>3. job[j].claim # "none"
          BY <2>3, <5>2
        <5> QED BY <1>2, <5>1, <5>3 DEF JobInv, Witnessed
      <4> QED BY <4>1, <4>2
    <3> QED BY <1>1, <2>2, <3>1, <3>2 DEF Witnessed
  <2>8. InTurn(j)'
    <3> SUFFICES ASSUME j \in Keyed, lapses[j] = 0 PROVE InTurn(j)'
      BY <1>1 DEF InTurn
    <3>1. job[j].status = "queued"
      BY <1>2, <1>10, <2>3
    <3>2. (\A v \in Workers : ~S!Works(v, j)) /\ \A r \in sent \cup applied : r.job # j
      BY <1>2, <3>1 DEF JobInv, Untouched
    <3>3. \A v \in Workers : S!Works(v, j)' => v = w
      BY <2>4, <3>2
    <3>4. frame'[w].run = starts'[j]
      BY <2>2
    <3>5. \A r \in sent' \cup applied' : r.job # j
      BY <1>1, <3>2
    <3>6. j \notin stale'
      BY <1>1, <1>2 DEF JobInv, InTurn
    <3> QED BY <2>2, <3>3, <3>4, <3>5, <3>6 DEF InTurn
  <2> QED BY <2>5, <2>6, <2>7, <2>8 DEF JobInv
<1> QED BY <1>8, <1>9, <1>12, <1>13 DEF StoreInv

LEMMA StoreStep == ASSUME Sound, StoreInv, [S!Next]_(S!vars) PROVE StoreInv'
<1>1. CASE UNCHANGED S!vars
  <2>1. /\ job' = job /\ applied' = applied /\ frame' = frame /\ troubles' = troubles /\ sent' = sent
        /\ starts' = starts /\ retries' = retries /\ lapses' = lapses /\ stale' = stale /\ thief' = thief
    BY <1>1 DEF S!vars
  <2>2. StoreTypes'
    BY <2>1 DEF StoreInv, StoreTypes
  <2>3. ASSUME NEW j \in Jobs PROVE JobInv(j)'
    <3>1. Aside(j)
      BY <2>1 DEF Aside, S!Works
    <3> QED BY <3>1, AsideKeeps DEF StoreInv
  <2> QED BY <2>2, <2>3 DEF StoreInv
<1> QED BY <1>1, StartKeeps, FinishKeeps, RedeliverKeeps, GiveUpKeeps, CreateKeeps, LapsesKeep, CrashKeeps,
           ClaimKeeps DEF S!Next, S!Claims, S!Finishes

(* What the invariant says of starts, moves and thefts.                    *)
LEMMA StoreShown == ASSUME Sound, StoreInv PROVE S!RunsAreAccounted
<1>1. /\ StoreTypes /\ starts \in [Jobs -> Nat] /\ retries \in [Jobs -> Nat] /\ lapses \in [Jobs -> Nat]
      /\ \A j \in Jobs : JobInv(j)
  BY DEF StoreInv, StoreTypes
<1>2. S!TypeOK
  <2>1. applied \subseteq sent \cup [job : Jobs, run : Nat, from : S!Statuses, to : {"dead"}]
    BY <1>1 DEF StoreTypes, GiveUps
  <2> QED BY <1>1, <2>1 DEF S!TypeOK, StoreTypes, JobType
<1>3. S!StartsAreAccounted
  <2> SUFFICES ASSUME NEW j \in Jobs
               PROVE  starts[j] <= 1 + retries[j] + (IF j \in Reads THEN lapses[j] ELSE 0)
    BY DEF S!StartsAreAccounted
  <2>1. Waiting(j) \in {0, 1} /\ Lapsed(j) \in {0, 1}
    BY DEF Waiting, Lapsed
  <2> QED BY <1>1, <2>1 DEF JobInv, PaidFor
<1>4. S!StaleMovesNeedLapse
  <2> SUFFICES ASSUME NEW j \in stale \cap Keyed PROVE lapses[j] > 0
    BY DEF S!StaleMovesNeedLapse
  <2>1. j \in Jobs /\ lapses[j] \in Nat /\ lapses[j] # 0
    BY <1>1 DEF Sound, JobInv, InTurn
  <2> QED BY <2>1
<1>5. S!TheftsNeedLeftovers
  BY <1>1 DEF S!TheftsNeedLeftovers, JobInv, Witnessed, StoreTypes
<1> QED BY <1>2, <1>3, <1>4, <1>5 DEF S!RunsAreAccounted

LEMMA EndsKept ==
    ASSUME Sound, StoreInv, [S!Next]_(S!vars), NEW j \in Jobs, job[j].status \in S!Terminal
    PROVE  job'[j].status = job[j].status
<1>0. StoreTypes /\ job \in [Jobs -> JobType] /\ job[j].status \in {"succeeded", "dead"}
  BY DEF StoreInv, StoreTypes, S!Terminal
<1>1. ASSUME NEW r \in RequestType, S!Transition(r) PROVE job'[j].status = job[j].status
  <2>1. r.from \notin {"succeeded", "dead"}
    BY DEF RequestType
  <2>2. CASE Refused(r)
    BY <2>2 DEF Refused
  <2>3. CASE Moves(r)
    <3>1. j # r.job
      BY <1>0, <2>1, <2>3 DEF Moves
    <3> QED BY <2>3, <3>1 DEF Moves
  <2> QED BY <1>0, <1>1, <2>2, <2>3, TransitionMoves
<1>2. ASSUME NEW w \in Workers, NEW q \in Jobs, S!StartByTransition(w, q) PROVE job'[j].status = job[j].status
  <2>1. S!Transition(S!Request(q, starts[q], "running")) /\ job[q].status \in {"queued", "retry_scheduled"}
    BY <1>2 DEF S!StartByTransition
  <2>2. S!Request(q, starts[q], "running") \in RequestType
    BY <1>0, <2>1 DEF S!Request, RequestType, S!Statuses, StoreTypes
  <2> QED BY <1>1, <2>1, <2>2
<1>3. ASSUME NEW q \in Jobs, S!GiveUp(q) PROVE job'[j].status = job[j].status
  <2>1. S!Transition(S!Request(q, starts[q], "dead")) /\ job[q].status \in {"queued", "retry_scheduled"}
    BY <1>3 DEF S!GiveUp
  <2>2. S!Request(q, starts[q], "dead") \in RequestType
    BY <1>0, <2>1 DEF S!Request, RequestType, S!Statuses, StoreTypes
  <2> QED BY <1>1, <2>1, <2>2
<1>4. ASSUME NEW w \in Workers, NEW to \in S!Statuses, S!Finish(w, to) PROVE job'[j].status = job[j].status
  <2>1. PICK f : f = frame[w]
    OBVIOUS
  <2>2. f \in [job : Jobs, run : Nat, claimed : BOOLEAN]
    BY <1>0, <1>4, <2>1 DEF S!Finish, StoreTypes, FrameType
  <2>3. PICK r : r = [job |-> f.job, run |-> f.run, from |-> "running", to |-> to]
    OBVIOUS
  <2>4. S!Transition(r) /\ to \in {"retry_scheduled", "succeeded", "dead"}
    BY <1>4, <2>1, <2>3 DEF S!Finish, S!Allowed
  <2>5. r \in RequestType
    BY <2>2, <2>3, <2>4 DEF RequestType, S!Statuses
  <2> QED BY <1>1, <2>4, <2>5
<1>5. ASSUME NEW r \in sent, S!Redeliver(r) PROVE job'[j].status = job[j].status
  BY <1>0, <1>1, <1>5 DEF S!Redeliver, StoreTypes
<1>6. ASSUME NEW w \in Workers, S!ClaimNextJob(w) PROVE job'[j].status = job[j].status
  <2>1. ~S!Doomed(j) /\ ~S!Oldest(j)
    BY <1>0 DEF S!Doomed, S!Oldest, S!Fits, S!Expired
  <2> QED BY <1>6, <2>1 DEF S!ClaimNextJob
<1>7. ASSUME NEW q \in Jobs, S!CreateJob(q) PROVE job'[j].status = job[j].status
  BY <1>0, <1>7 DEF S!CreateJob
<1>8. ASSUME NEW q \in Jobs, S!ClaimLapses(q) PROVE job'[j].status = job[j].status
  BY <1>0, <1>8 DEF S!ClaimLapses, JobType
<1>9. ASSUME NEW w \in Workers, S!Crash(w) PROVE job'[j].status = job[j].status
  BY <1>9 DEF S!Crash
<1>10. CASE UNCHANGED S!vars
  BY <1>10 DEF S!vars
<1> QED BY <1>2, <1>3, <1>4, <1>5, <1>6, <1>7, <1>8, <1>9, <1>10 DEF S!Next, S!Claims, S!Finishes

LEMMA RunsSafe ==
    ASSUME S!StoreAssumption
    PROVE  S!Init /\ [][S!Next]_(S!vars) => []S!RunsAreAccounted /\ S!EndsStay
<1>0. Sound
  BY DEF S!StoreAssumption, Sound
<1>1. S!Init => StoreInv
  BY <1>0, StoreBegins
<1>2. StoreInv /\ [S!Next]_(S!vars) => StoreInv'
  BY <1>0, StoreStep
<1>3. StoreInv => S!RunsAreAccounted
  BY <1>0, StoreShown
<1>4. StoreInv /\ [S!Next]_(S!vars) =>
         [\A j \in Jobs : job[j].status \in S!Terminal => job'[j].status = job[j].status]_(S!vars)
  BY <1>0, EndsKept
<1> QED BY <1>1, <1>2, <1>3, <1>4, PTL DEF S!EndsStay

(* For any workers and jobs, whatever requests are delivered again, late   *)
(* or out of turn: a job starts once more only for a retry it was given or, *)
(* if it only reads, a claim that expired; a late request moves a later run *)
(* and a run is taken from its worker only after an expired claim; and no  *)
(* job that succeeded or is dead becomes anything else.                    *)
THEOREM RunsAreAccountedAlways ==
    ASSUME S!StoreAssumption
    PROVE  S!Spec => []S!RunsAreAccounted /\ S!EndsStay
BY RunsSafe, PTL DEF S!Spec

-----------------------------------------------------------------------------
(* ReviewLoop: the runs of the review cycle and the history they share     *)

Outcomes   == {"passed", "failed"}
ReviewSets == UNION {[given -> Answers] : given \in SUBSET Roles}
TestSets   == UNION {[tested -> Outcomes] : tested \in SUBSET Harnesses}
Histories  == [cycles : Seq(Runs), cut : SUBSET Runs, reviewers : [Roles -> [V!Statuses -> Nat]],
               harnesses : [Harnesses -> [Outcomes -> Nat]]]
Verdicts   == {"none", "fixture-required", "quarantine", "reject", "split", "ready-for-push", "ready-for-review"}
ReviewRuns == [at : {"idle", "open", "asking", "testing", "judging", "judged", "copying"} \cup V!Ended,
               program : V!Programs \cup {"none"}, assigned : SUBSET Roles, reviews : ReviewSets,
               tests : TestSets, seen : Histories, blind : BOOLEAN, verdict : Verdicts, synthesis : Verdicts]

ReviewTypes ==
    /\ run \in [Runs -> ReviewRuns] /\ batch \in ReviewSets /\ cycles \in Histories
    /\ halved \in BOOLEAN /\ during \in [Runs -> SUBSET Runs]

(* A history, the file's or one that was read, says what its cycles found, *)
(* and those cycles are over; it has cut cycles only when its list is full.*)
Giving(h, f, r, s)  == {q \in V!Counted(h) : r \in DOMAIN f[q].reviews /\ f[q].reviews[r].status = s}
Ending(h, f, k, o)  == {q \in V!Counted(h) : k \in DOMAIN f[q].tests /\ f[q].tests[k] = o}
AddsUp(h, f) ==
    /\ \A q \in V!Counted(h) : f[q].at = "recorded"
    /\ h.cut # {} => Len(h.cycles) = MaxCycles
    /\ \A r \in Roles, s \in V!Statuses : h.reviewers[r][s] = Cardinality(Giving(h, f, r, s))
    /\ \A k \in Harnesses, o \in Outcomes : h.harnesses[k][o] = Cardinality(Ending(h, f, k, o))

(* A recorded cycle that is in no history was overlapped, or will be.      *)
OnRecord(p) == run[p].at = "recorded"
UnderWay(p) == run[p].at \notin {"idle"} \cup V!Ended
Overlapped(p) == \E q \in Runs : OnRecord(q) /\ (p \in during[q] \/ run[q].blind)
LossExplained(p) ==
    OnRecord(p) =>
       /\ p \in V!Counted(cycles) \/ Overlapped(p)
       /\ \A q \in Runs : UnderWay(q) =>
             p \in V!Counted(run[q].seen) \/ p \in during[q] \/ run[q].blind \/ Overlapped(p)

(* Reviews are answers that were given, and a verdict is of the reviews    *)
(* and harnesses the run still has.                                        *)
Given(reviews) == \A r \in DOMAIN reviews : <<r, reviews[r]>> \in answers
Judged(f) ==
    /\ f.at = "judging" => ~V!AllPassed(f.tests)
    /\ f.verdict # "none" => /\ f.at \in {"judged", "copying"}
                             /\ f.verdict = V!CycleVerdict(f.reviews, f.tests)
                             /\ DOMAIN f.tests = Harnesses \/ ~V!AllPassed(f.tests)
    /\ f.synthesis # "none" => f.verdict # "none" /\ f.synthesis = V!SynthesisVerdict(f.reviews, f.tests)

ReviewInv ==
    /\ ReviewTypes /\ AddsUp(cycles, run) /\ \A p \in Runs : AddsUp(run[p].seen, run)
    /\ \A p \in Runs : LossExplained(p) /\ Given(run[p].reviews) /\ Judged(run[p])
    /\ Given(batch)

LEMMA Enumerated == \A X : V!Cardinality(X) = Cardinality(X)
BY DEF V!Cardinality, Cardinality

LEMMA NoReviewsYet ==
    /\ V!NoReviews \in ReviewSets /\ DOMAIN V!NoReviews = {} /\ <<>> \in TestSets
    /\ V!NoHistory \in Histories /\ \A f : AddsUp(V!NoHistory, f)
    /\ V!Idle \in ReviewRuns /\ V!Idle.at = "idle" /\ V!Idle.verdict = "none" /\ V!Idle.synthesis = "none"
    /\ V!Idle.reviews = V!NoReviews /\ V!Idle.seen = V!NoHistory /\ Judged(V!Idle)
<1>1. V!NoReviews \in ReviewSets /\ DOMAIN V!NoReviews = {} /\ <<>> \in TestSets
  <2>1. <<>> \in [{} -> Answers] /\ <<>> \in [{} -> Outcomes] /\ DOMAIN <<>> = {}
    OBVIOUS
  <2>2. {} \in SUBSET Roles /\ {} \in SUBSET Harnesses
    OBVIOUS
  <2>3. [{} -> Answers] \in {[given -> Answers] : given \in SUBSET Roles}
    BY <2>2
  <2>4. [{} -> Outcomes] \in {[tested -> Outcomes] : tested \in SUBSET Harnesses}
    BY <2>2
  <2> QED BY <2>1, <2>3, <2>4 DEF V!NoReviews, ReviewSets, TestSets
<1>2. V!NoHistory \in Histories
  BY DEF V!NoHistory, Histories, V!Statuses, Outcomes
<1>3. ASSUME NEW f PROVE AddsUp(V!NoHistory, f)
  <2>1. V!Counted(V!NoHistory) = {} /\ V!NoHistory.cut = {}
    BY DEF V!NoHistory, V!Counted, V!Listed
  <2>2. \A r, s : Giving(V!NoHistory, f, r, s) = {}
    BY <2>1 DEF Giving
  <2>3. \A k, o : Ending(V!NoHistory, f, k, o) = {}
    BY <2>1 DEF Ending
  <2>4. \A r \in Roles, s \in V!Statuses : V!NoHistory.reviewers[r][s] = 0
    BY DEF V!NoHistory
  <2>5. \A k \in Harnesses, o \in Outcomes : V!NoHistory.harnesses[k][o] = 0
    BY DEF V!NoHistory, Outcomes
  <2> QED BY <2>1, <2>2, <2>3, <2>4, <2>5, FS_EmptySet DEF AddsUp
<1>4. V!Idle \in ReviewRuns /\ V!Idle.at = "idle" /\ V!Idle.verdict = "none" /\ V!Idle.synthesis = "none"
      /\ V!Idle.reviews = V!NoReviews /\ V!Idle.seen = V!NoHistory
  BY <1>1, <1>2 DEF V!Idle, ReviewRuns, Verdicts
<1>5. Judged(V!Idle)
  BY <1>4 DEF Judged
<1> QED BY <1>1, <1>2, <1>3, <1>4, <1>5

(* A history still adds up while the cycles on it stay as they are, and    *)
(* when one more is recorded on it.                                        *)
LEMMA StillAddsUp ==
    ASSUME NEW f, NEW g, NEW h, AddsUp(h, f), \A q \in V!Counted(h) : g[q] = f[q]
    PROVE  AddsUp(h, g)
<1>1. \A r, s : Giving(h, g, r, s) = Giving(h, f, r, s)
  BY DEF Giving
<1>2. \A k, o : Ending(h, g, k, o) = Ending(h, f, k, o)
  BY DEF Ending
<1> QED BY <1>1, <1>2 DEF AddsUp

(* What is listed no longer is counted still.                              *)
LEMMA ListIsCut ==
    ASSUME NEW h \in Histories, NEW p \in Runs, NEW reviews, NEW tests, MaxCycles \in Nat \ {0, 1},
           h.cut # {} => Len(h.cycles) = MaxCycles
    PROVE  LET n == V!Recorded(h, p, reviews, tests)
           IN  /\ n.cycles \in Seq(Runs) /\ n.cut \in SUBSET Runs
               /\ V!Counted(n) = V!Counted(h) \cup {p}
               /\ n.cut # {} => Len(n.cycles) = MaxCycles
<1> DEFINE n == V!Recorded(h, p, reviews, tests)
<1>1. PICK list \in Seq(Runs) : list = h.cycles
  BY DEF Histories
<1>2. PICK kept : kept = V!Kept(h)
  OBVIOUS
<1>3. n.cycles = Append(kept, p)
      /\ n.cut = h.cut \cup (IF Len(list) < MaxCycles THEN {}
                             ELSE {list[i] : i \in 1 .. (Len(list) - MaxCycles + 1)})
  BY <1>1, <1>2 DEF V!Recorded
<1> HIDE DEF n
<1>4. h.cut \in SUBSET Runs /\ V!Counted(h) = {list[i] : i \in 1 .. Len(list)} \cup h.cut
  <2>1. h.cut \in SUBSET Runs /\ DOMAIN list = 1 .. Len(list)
    BY <1>1 DEF Histories
  <2>2. V!Listed(h) = {list[i] : i \in 1 .. Len(list)}
    BY <1>1, <2>1 DEF V!Listed
  <2> QED BY <2>1, <2>2 DEF V!Counted
<1>5. CASE Len(list) < MaxCycles
  <2>1. kept = list /\ n.cut = h.cut /\ h.cut = {}
    BY <1>1, <1>2, <1>3, <1>5 DEF V!Kept
  <2>2. /\ n.cycles \in Seq(Runs) /\ Len(n.cycles) = Len(list) + 1 /\ n.cycles[Len(list) + 1] = p
        /\ \A i \in 1 .. Len(list) : n.cycles[i] = list[i]
    BY <1>3, <2>1
  <2>3. V!Listed(n) = {list[i] : i \in 1 .. Len(list)} \cup {p}
    BY <2>2 DEF V!Listed
  <2> QED BY <1>4, <2>1, <2>2, <2>3 DEF V!Counted, n
<1>6. CASE Len(list) >= MaxCycles
  <2>1. kept = SubSeq(list, Len(list) - MaxCycles + 2, Len(list))
    <3>1. ~(Len(h.cycles) < MaxCycles) /\ h.cycles = list
      BY <1>1, <1>6
    <3> QED BY <1>2, <3>1 DEF V!Kept
  <2> DEFINE before == Len(list) - MaxCycles + 1
  <2>2. /\ kept \in Seq(Runs) /\ Len(kept) = MaxCycles - 1
        /\ \A i \in 1 .. MaxCycles - 1 : kept[i] = list[before + i]
    BY <1>6, <2>1
  <2>3. /\ n.cycles \in Seq(Runs) /\ Len(n.cycles) = MaxCycles /\ n.cycles[MaxCycles] = p
        /\ \A i \in 1 .. MaxCycles - 1 : n.cycles[i] = list[before + i]
    BY <1>3, <2>2
  <2>4. n.cut = h.cut \cup {list[i] : i \in 1 .. before}
    BY <1>3, <1>6
  <2>5. n.cut \in SUBSET Runs
    BY <1>4, <1>6, <2>4
  <2>6. V!Listed(n) = {list[i] : i \in before + 1 .. Len(list)} \cup {p}
    <3>1. ASSUME NEW x \in V!Listed(n) PROVE x = p \/ x \in {list[i] : i \in before + 1 .. Len(list)}
      <4>1. PICK i \in 1 .. MaxCycles : x = n.cycles[i]
        BY <2>3, <3>1 DEF V!Listed
      <4>2. CASE i = MaxCycles
        BY <2>3, <4>1, <4>2
      <4>3. CASE i # MaxCycles
        <5>1. i \in 1 .. MaxCycles - 1 /\ before + i \in before + 1 .. Len(list)
          BY <1>6, <4>3
        <5>2. x = list[before + i]
          BY <2>3, <4>1, <5>1
        <5> QED BY <5>1, <5>2
      <4> QED BY <4>2, <4>3
    <3>2. p \in V!Listed(n)
      BY <2>3 DEF V!Listed
    <3>3. ASSUME NEW i \in before + 1 .. Len(list) PROVE list[i] \in V!Listed(n)
      <4>1. i - before \in 1 .. MaxCycles - 1 /\ before + (i - before) = i
        BY <1>6, <3>3
      <4>2. list[i] = n.cycles[i - before] /\ i - before \in DOMAIN n.cycles
        BY <2>3, <4>1
      <4> QED BY <4>2 DEF V!Listed
    <3> QED BY <3>1, <3>2, <3>3
  <2>7. 1 .. Len(list) = (1 .. before) \cup (before + 1 .. Len(list))
    BY <1>6
  <2>8. V!Counted(n) = V!Counted(h) \cup {p}
    BY <1>4, <2>4, <2>6, <2>7 DEF V!Counted
  <2> QED BY <2>3, <2>5, <2>8 DEF n
<1> QED BY <1>5, <1>6

LEMMA OneMoreAddsUp ==
    ASSUME IsFiniteSet(Runs), MaxCycles \in Nat \ {0, 1}, NEW f, NEW h \in Histories, AddsUp(h, f), NEW p \in Runs, p \notin V!Counted(h),
           f[p].at = "recorded"
    PROVE  /\ V!Recorded(h, p, f[p].reviews, f[p].tests) \in Histories
           /\ V!Counted(V!Recorded(h, p, f[p].reviews, f[p].tests)) = V!Counted(h) \cup {p}
           /\ AddsUp(V!Recorded(h, p, f[p].reviews, f[p].tests), f)
<1> DEFINE n == V!Recorded(h, p, f[p].reviews, f[p].tests)
<1>0. /\ n.cycles \in Seq(Runs) /\ n.cut \in SUBSET Runs /\ V!Counted(n) = V!Counted(h) \cup {p}
      /\ n.cut # {} => Len(n.cycles) = MaxCycles
  BY ListIsCut DEF AddsUp
<1>1. /\ V!Counted(n) = V!Counted(h) \cup {p}
      /\ \A r \in Roles, s \in V!Statuses : n.reviewers[r][s] = h.reviewers[r][s] +
            (IF r \in DOMAIN f[p].reviews /\ f[p].reviews[r].status = s THEN 1 ELSE 0)
      /\ \A k \in Harnesses, o \in Outcomes : n.harnesses[k][o] = h.harnesses[k][o] +
            (IF k \in DOMAIN f[p].tests /\ f[p].tests[k] = o THEN 1 ELSE 0)
  BY <1>0 DEF V!Recorded, Outcomes
<1>2. n \in Histories
  <2>1. n = [cycles |-> n.cycles, cut |-> n.cut, reviewers |-> n.reviewers, harnesses |-> n.harnesses]
    BY DEF V!Recorded
  <2>2. n.reviewers \in [Roles -> [V!Statuses -> Nat]] /\ n.harnesses \in [Harnesses -> [Outcomes -> Nat]]
    BY DEF V!Recorded, Histories, Outcomes
  <2> HIDE DEF n
  <2> QED BY <1>0, <2>1, <2>2 DEF Histories
<1>3. V!Counted(h) \subseteq Runs /\ IsFiniteSet(V!Counted(h))
  <2>1. V!Counted(h) \subseteq Runs
    BY DEF Histories, V!Counted, V!Listed
  <2> QED BY <2>1, FS_Subset
<1> HIDE DEF n
<1>4. ASSUME NEW r \in Roles, NEW s \in V!Statuses PROVE n.reviewers[r][s] = Cardinality(Giving(n, f, r, s))
  <2>1. Giving(h, f, r, s) \subseteq V!Counted(h)
    BY DEF Giving
  <2>2. IsFiniteSet(Giving(h, f, r, s)) /\ p \notin Giving(h, f, r, s)
        /\ h.reviewers[r][s] = Cardinality(Giving(h, f, r, s)) /\ h.reviewers[r][s] \in Nat
    BY <1>3, <2>1, FS_Subset DEF AddsUp, Histories
  <2>3. CASE r \in DOMAIN f[p].reviews /\ f[p].reviews[r].status = s
    <3>1. Giving(n, f, r, s) = Giving(h, f, r, s) \cup {p}
      BY <1>1, <2>3 DEF Giving
    <3>2. Cardinality(Giving(n, f, r, s)) = Cardinality(Giving(h, f, r, s)) + 1
      BY <2>2, <3>1, FS_AddElement
    <3> QED BY <1>1, <2>2, <2>3, <3>2
  <2>4. CASE ~(r \in DOMAIN f[p].reviews /\ f[p].reviews[r].status = s)
    <3>1. Giving(n, f, r, s) = Giving(h, f, r, s)
      BY <1>1, <2>4 DEF Giving
    <3> QED BY <1>1, <2>2, <2>4, <3>1
  <2> QED BY <2>3, <2>4
<1>5. ASSUME NEW k \in Harnesses, NEW o \in Outcomes PROVE n.harnesses[k][o] = Cardinality(Ending(n, f, k, o))
  <2>1. Ending(h, f, k, o) \subseteq V!Counted(h)
    BY DEF Ending
  <2>2. IsFiniteSet(Ending(h, f, k, o)) /\ p \notin Ending(h, f, k, o)
        /\ h.harnesses[k][o] = Cardinality(Ending(h, f, k, o)) /\ h.harnesses[k][o] \in Nat
    BY <1>3, <2>1, FS_Subset DEF AddsUp, Histories
  <2>3. CASE k \in DOMAIN f[p].tests /\ f[p].tests[k] = o
    <3>1. Ending(n, f, k, o) = Ending(h, f, k, o) \cup {p}
      BY <1>1, <2>3 DEF Ending
    <3>2. Cardinality(Ending(n, f, k, o)) = Cardinality(Ending(h, f, k, o)) + 1
      BY <2>2, <3>1, FS_AddElement
    <3> QED BY <1>1, <2>2, <2>3, <3>2
  <2>4. CASE ~(k \in DOMAIN f[p].tests /\ f[p].tests[k] = o)
    <3>1. Ending(n, f, k, o) = Ending(h, f, k, o)
      BY <1>1, <2>4 DEF Ending
    <3> QED BY <1>1, <2>2, <2>4, <3>1
  <2> QED BY <2>3, <2>4
<1>6. \A q \in V!Counted(n) : f[q].at = "recorded"
  BY <1>1 DEF AddsUp
<1>7. AddsUp(n, f)
  BY <1>0, <1>4, <1>5, <1>6 DEF AddsUp
<1> QED BY <1>1, <1>2, <1>7 DEF n

(* A run that moves on, or begins, and does not record yet.                *)
LEMMA ReviewMoves ==
    ASSUME ReviewInv, NEW p \in Runs, NEW t \in ReviewRuns, run' = [run EXCEPT ![p] = t],
           ~OnRecord(p), t.at # "recorded", AddsUp(t.seen, run), Judged(t),
           \A r \in DOMAIN t.reviews : <<r, t.reviews[r]>> \in answers',
           UNCHANGED cycles, during' \in [Runs -> SUBSET Runs], \A q \in Runs \ {p} : during'[q] = during[q],
           \A q \in Runs : OnRecord(q) /\ t.at \notin {"idle"} \cup V!Ended =>
              q \in V!Counted(t.seen) \/ q \in during'[p] \/ t.blind \/ Overlapped(q),
           answers \subseteq answers', batch' \in ReviewSets, halved' \in BOOLEAN,
           \A r \in DOMAIN batch' : <<r, batch'[r]>> \in answers'
    PROVE  ReviewInv'
<1>1. /\ run \in [Runs -> ReviewRuns] /\ run' \in [Runs -> ReviewRuns] /\ run'[p] = t
      /\ \A q \in Runs \ {p} : run'[q] = run[q]
  BY DEF ReviewInv, ReviewTypes
<1>2. \A q \in Runs : OnRecord(q) => run'[q] = run[q]
  BY <1>1
<1>3. \A h \in Histories : AddsUp(h, run) => AddsUp(h, run')
  <2> SUFFICES ASSUME NEW h \in Histories, AddsUp(h, run) PROVE AddsUp(h, run')
    OBVIOUS
  <2>1. \A q \in V!Counted(h) : run'[q] = run[q]
    BY <1>2 DEF AddsUp, Histories, V!Counted, V!Listed, OnRecord
  <2> QED BY <2>1, StillAddsUp
<1>4. AddsUp(cycles', run')
  BY <1>3 DEF ReviewInv, ReviewTypes
<1>5. ASSUME NEW q \in Runs PROVE AddsUp(run'[q].seen, run')
  <2>1. CASE q = p
    BY <1>1, <1>3, <2>1 DEF ReviewRuns
  <2>2. CASE q # p
    <3>1. run'[q].seen \in Histories /\ AddsUp(run'[q].seen, run)
      BY <1>1, <2>2 DEF ReviewRuns, ReviewInv
    <3> QED BY <1>3, <3>1
  <2> QED BY <2>1, <2>2
<1>6. \A q \in Runs : OnRecord(q)' <=> OnRecord(q)
  BY <1>1 DEF OnRecord
<1>7. \A q \in Runs : Overlapped(q) => Overlapped(q)'
  <2> SUFFICES ASSUME NEW q \in Runs, NEW w \in Runs, OnRecord(w), q \in during[w] \/ run[w].blind
               PROVE  Overlapped(q)'
    BY DEF Overlapped
  <2>1. OnRecord(w)' /\ (q \in during'[w] \/ run'[w].blind)
    BY <1>1, <1>6
  <2> QED BY <2>1 DEF Overlapped
<1>8. ASSUME NEW q \in Runs PROVE LossExplained(q)'
  <2> SUFFICES ASSUME OnRecord(q)'
               PROVE  /\ q \in V!Counted(cycles') \/ Overlapped(q)'
                      /\ \A w \in Runs : UnderWay(w)' =>
                            q \in V!Counted(run'[w].seen) \/ q \in during'[w] \/ run'[w].blind \/ Overlapped(q)'
    BY DEF LossExplained
  <2>1. OnRecord(q) /\ LossExplained(q)
    BY <1>6 DEF ReviewInv
  <2>2. q \in V!Counted(cycles') \/ Overlapped(q)'
    BY <1>7, <2>1 DEF LossExplained
  <2>3. ASSUME NEW w \in Runs, UnderWay(w)'
        PROVE  q \in V!Counted(run'[w].seen) \/ q \in during'[w] \/ run'[w].blind \/ Overlapped(q)'
    <3>1. CASE w = p
      BY <1>1, <1>7, <2>1, <2>3, <3>1 DEF UnderWay
    <3>2. CASE w # p
      BY <1>1, <1>7, <2>1, <2>3, <3>2 DEF UnderWay, LossExplained
    <3> QED BY <3>1, <3>2
  <2> QED BY <2>2, <2>3
<1>9. ASSUME NEW q \in Runs PROVE Given(run[q].reviews)' /\ Judged(run[q])'
  <2>1. CASE q = p
    BY <1>1, <2>1 DEF Given, Judged, V!CycleVerdict, V!SynthesisVerdict, V!AllPassed
  <2>2. CASE q # p
    BY <1>1, <2>2 DEF ReviewInv, Given, Judged, V!CycleVerdict, V!SynthesisVerdict, V!AllPassed
  <2> QED BY <2>1, <2>2
<1>10. Given(batch)'
  BY DEF Given
<1>11. ReviewTypes'
  BY <1>1 DEF ReviewInv, ReviewTypes
<1> QED BY <1>4, <1>5, <1>8, <1>9, <1>10, <1>11 DEF ReviewInv

(* What a run that is under way knows.                                     *)
LEMMA RunKnows ==
    ASSUME ReviewInv, NEW p \in Runs
    PROVE  /\ run[p] \in ReviewRuns /\ AddsUp(run[p].seen, run) /\ Judged(run[p])
           /\ \A r \in DOMAIN run[p].reviews : <<r, run[p].reviews[r]>> \in answers
           /\ batch \in ReviewSets /\ \A r \in DOMAIN batch : <<r, batch[r]>> \in answers
           /\ during \in [Runs -> SUBSET Runs] /\ halved \in BOOLEAN /\ cycles \in Histories
           /\ UnderWay(p) => /\ ~OnRecord(p)
                             /\ \A q \in Runs : OnRecord(q) =>
                                   q \in V!Counted(run[p].seen) \/ q \in during[p] \/ run[p].blind \/ Overlapped(q)
<1>1. UnderWay(p) => ~OnRecord(p)
  BY DEF UnderWay, OnRecord, V!Ended
<1> QED BY <1>1 DEF ReviewInv, ReviewTypes, Given, LossExplained

(* One function with a value more.                                         *)
LEMMA AnsweredOnce ==
    ASSUME NEW reviews \in ReviewSets, NEW r \in Roles, NEW answer \in Answers
    PROVE  LET more == [x \in DOMAIN reviews \cup {r} |-> IF x = r THEN answer ELSE reviews[x]]
           IN  more \in ReviewSets
<1>1. PICK given \in SUBSET Roles : reviews \in [given -> Answers]
  BY DEF ReviewSets
<1>2. given \cup {r} \in SUBSET Roles
  OBVIOUS
<1>3. [x \in DOMAIN reviews \cup {r} |-> IF x = r THEN answer ELSE reviews[x]] \in [given \cup {r} -> Answers]
  BY <1>1
<1> QED BY <1>2, <1>3 DEF ReviewSets

LEMMA TestedOnce ==
    ASSUME NEW tests \in TestSets, NEW k \in Harnesses, NEW outcome \in Outcomes
    PROVE  LET more == [x \in DOMAIN tests \cup {k} |-> IF x = k THEN outcome ELSE tests[x]]
           IN  more \in TestSets /\ (outcome = "failed" => ~V!AllPassed(more))
<1> DEFINE more == [x \in DOMAIN tests \cup {k} |-> IF x = k THEN outcome ELSE tests[x]]
<1>1. PICK tested \in SUBSET Harnesses : tests \in [tested -> Outcomes]
  BY DEF TestSets
<1>2. tested \cup {k} \in SUBSET Harnesses
  OBVIOUS
<1>3. more \in [tested \cup {k} -> Outcomes]
  BY <1>1
<1>4. more[k] = outcome /\ k \in DOMAIN more
  OBVIOUS
<1> HIDE DEF more
<1>5. more \in TestSets
  BY <1>2, <1>3 DEF TestSets
<1>6. outcome = "failed" => ~V!AllPassed(more)
  BY <1>4 DEF V!AllPassed
<1> QED BY <1>5, <1>6 DEF more

(* A run that ends without a record of it.                                 *)
LEMMA ReviewEnds ==
    ASSUME ReviewInv, NEW p \in Runs, UnderWay(p), NEW how \in {"done", "dead"},
           run' = [run EXCEPT ![p] = V!Over(how)], UNCHANGED <<cycles, during, answers>>,
           batch' \in {batch, run[p].reviews}, halved' \in BOOLEAN
    PROVE  ReviewInv'
<1> DEFINE idle == V!Idle
<1>1. idle \in ReviewRuns /\ idle.reviews = V!NoReviews /\ idle.verdict = "none" /\ idle.synthesis = "none"
      /\ idle.seen = V!NoHistory
  BY NoReviewsYet
<1>2. V!Over(how) = [idle EXCEPT !.at = how]
  BY DEF V!Over
<1> HIDE DEF idle
<1>3. PICK t \in ReviewRuns :
         /\ t = V!Over(how) /\ t.at = how /\ t.reviews = V!NoReviews /\ t.verdict = "none"
         /\ t.synthesis = "none" /\ t.seen = V!NoHistory
  BY <1>1, <1>2 DEF ReviewRuns, V!Ended
<1>4. Judged(t)
  BY <1>3 DEF Judged
<1>5. AddsUp(t.seen, run) /\ DOMAIN t.reviews = {}
  BY <1>3, NoReviewsYet
<1>6. run' = [run EXCEPT ![p] = t] /\ t.at \in V!Ended /\ t.at # "recorded"
  BY <1>3 DEF V!Ended
<1>7. /\ ~OnRecord(p) /\ run[p] \in ReviewRuns
      /\ \A r \in DOMAIN run[p].reviews : <<r, run[p].reviews[r]>> \in answers
      /\ batch \in ReviewSets /\ \A r \in DOMAIN batch : <<r, batch[r]>> \in answers
      /\ during \in [Runs -> SUBSET Runs]
  BY RunKnows
<1>8. batch' \in ReviewSets /\ \A r \in DOMAIN batch' : <<r, batch'[r]>> \in answers'
  BY <1>7 DEF ReviewRuns
<1>9. during' \in [Runs -> SUBSET Runs] /\ \A q \in Runs \ {p} : during'[q] = during[q]
  BY <1>7
<1>10. \A q \in Runs : OnRecord(q) /\ t.at \notin {"idle"} \cup V!Ended =>
          q \in V!Counted(t.seen) \/ q \in during'[p] \/ t.blind \/ Overlapped(q)
  BY <1>6
<1> QED BY <1>4, <1>5, <1>6, <1>7, <1>8, <1>9, <1>10, ReviewMoves

(* A run that goes on.                                                     *)
LEMMA ReviewGoesOn ==
    ASSUME ReviewInv, NEW p \in Runs, UnderWay(p), NEW t \in ReviewRuns, run' = [run EXCEPT ![p] = t],
           t.at \notin V!Ended, t.seen = run[p].seen, t.blind <=> run[p].blind, Judged(t),
           \A r \in DOMAIN t.reviews : <<r, t.reviews[r]>> \in answers', answers \subseteq answers',
           UNCHANGED <<cycles, during>>, halved' \in BOOLEAN, batch' \in {batch, run[p].reviews, t.reviews}
    PROVE  ReviewInv'
<1>1. /\ ~OnRecord(p) /\ run[p] \in ReviewRuns /\ AddsUp(run[p].seen, run)
      /\ \A r \in DOMAIN run[p].reviews : <<r, run[p].reviews[r]>> \in answers
      /\ batch \in ReviewSets /\ \A r \in DOMAIN batch : <<r, batch[r]>> \in answers
      /\ during \in [Runs -> SUBSET Runs]
      /\ \A q \in Runs : OnRecord(q) =>
            q \in V!Counted(run[p].seen) \/ q \in during[p] \/ run[p].blind \/ Overlapped(q)
  BY RunKnows
<1>2. batch' \in ReviewSets /\ \A r \in DOMAIN batch' : <<r, batch'[r]>> \in answers'
  BY <1>1 DEF ReviewRuns
<1>3. during' \in [Runs -> SUBSET Runs] /\ \A q \in Runs \ {p} : during'[q] = during[q]
  BY <1>1
<1>4. \A q \in Runs : OnRecord(q) /\ t.at \notin {"idle"} \cup V!Ended =>
          q \in V!Counted(t.seen) \/ q \in during'[p] \/ t.blind \/ Overlapped(q)
  BY <1>1
<1>5. AddsUp(t.seen, run) /\ t.at # "recorded"
  BY <1>1 DEF V!Ended
<1> QED BY <1>1, <1>2, <1>3, <1>4, <1>5, ReviewMoves

(* The actions of a run, one after another.                                *)
LEMMA ReviewOpens == ASSUME ReviewInv, NEW p \in Runs, V!Open(p) PROVE ReviewInv'
<1> PICK f \in ReviewRuns : f = run[p]
  BY RunKnows
<1> DEFINE t == [f EXCEPT !.at = "asking"]
<1>1. /\ f.at = "open" /\ batch' = f.reviews /\ UNCHANGED <<cycles, halved, answers, during>>
      /\ run' = [run EXCEPT ![p].at = "asking"]
  BY DEF V!Open, V!At
<1>2. run' = [run EXCEPT ![p] = t] /\ UnderWay(p)
  BY <1>1 DEF ReviewInv, ReviewTypes, UnderWay, V!Ended
<1>3. /\ t \in ReviewRuns /\ t.at = "asking" /\ t.seen = f.seen /\ t.reviews = f.reviews
      /\ t.verdict = f.verdict /\ t.synthesis = f.synthesis
  BY DEF ReviewRuns
<1>4. t.blind = f.blind
  BY DEF ReviewRuns
<1> HIDE DEF t
<1>5. /\ Judged(f) /\ halved \in BOOLEAN /\ \A r \in DOMAIN f.reviews : <<r, f.reviews[r]>> \in answers
  BY RunKnows
<1>6. Judged(t)
  BY <1>1, <1>3, <1>5 DEF Judged
<1>7. t.at \notin V!Ended /\ (t.blind <=> run[p].blind) /\ t.seen = run[p].seen
      /\ \A r \in DOMAIN t.reviews : <<r, t.reviews[r]>> \in answers'
  BY <1>1, <1>3, <1>4, <1>5 DEF V!Ended
<1> QED BY <1>1, <1>2, <1>3, <1>5, <1>6, <1>7, ReviewGoesOn

LEMMA ReviewAsks == ASSUME ReviewInv, NEW p \in Runs, V!Ask(p) PROVE ReviewInv'
<1> PICK f \in ReviewRuns : f = run[p]
  BY RunKnows
<1>1. PICK r \in Roles, answer \in Answers :
         LET reviews == [x \in DOMAIN f.reviews \cup {r} |-> IF x = r THEN answer ELSE f.reviews[x]]
         IN  /\ f.at = "asking" /\ run' = [run EXCEPT ![p].reviews = reviews]
             /\ answers' = answers \cup {<<r, answer>>}
             /\ batch' = IF f.program = "batch" THEN reviews ELSE batch
             /\ UNCHANGED <<cycles, halved, during>>
  BY DEF V!Ask, V!At
<1>2. PICK reviews \in ReviewSets :
         reviews = [x \in DOMAIN f.reviews \cup {r} |-> IF x = r THEN answer ELSE f.reviews[x]]
  <2>1. f.reviews \in ReviewSets
    BY DEF ReviewRuns
  <2> QED BY <2>1, AnsweredOnce
<1>3. /\ f.at = "asking" /\ run' = [run EXCEPT ![p].reviews = reviews] /\ answers' = answers \cup {<<r, answer>>}
      /\ batch' \in {batch, reviews} /\ UNCHANGED <<cycles, halved, during>>
  BY <1>1, <1>2
<1>4. Judged(f) /\ halved \in BOOLEAN /\ \A x \in DOMAIN f.reviews : <<x, f.reviews[x]>> \in answers
  BY RunKnows
<1>5. \A x \in DOMAIN reviews : <<x, reviews[x]>> \in answers'
  BY <1>2, <1>3, <1>4
<1> DEFINE t == [f EXCEPT !.reviews = reviews]
<1>6. run' = [run EXCEPT ![p] = t] /\ UnderWay(p)
  BY <1>3 DEF ReviewInv, ReviewTypes, UnderWay, V!Ended
<1>7. /\ t \in ReviewRuns /\ t.at = "asking" /\ t.seen = f.seen /\ t.reviews = reviews
      /\ t.verdict = f.verdict /\ t.synthesis = f.synthesis
  BY <1>3 DEF ReviewRuns
<1>8. t.blind = f.blind
  BY DEF ReviewRuns
<1> HIDE DEF t
<1>9. Judged(t)
  BY <1>3, <1>4, <1>7 DEF Judged
<1>10. /\ t.at \notin V!Ended /\ (t.blind <=> run[p].blind) /\ t.seen = run[p].seen /\ answers \subseteq answers'
       /\ \A x \in DOMAIN t.reviews : <<x, t.reviews[x]>> \in answers'
       /\ batch' \in {batch, run[p].reviews, t.reviews} /\ halved' \in BOOLEAN
  BY <1>3, <1>4, <1>5, <1>7, <1>8 DEF V!Ended
<1> QED BY <1>3, <1>6, <1>7, <1>9, <1>10, ReviewGoesOn

LEMMA ReviewHasAsked == ASSUME ReviewInv, NEW p \in Runs, V!AllAsked(p) PROVE ReviewInv'
<1> PICK f \in ReviewRuns : f = run[p]
  BY RunKnows
<1>1. /\ f.at = "asking" /\ UNCHANGED <<cycles, halved, answers, during>> /\ batch' \in {batch, f.reviews}
      /\ \/ run' = [run EXCEPT ![p] = V!Over("done")]
         \/ run' = [run EXCEPT ![p] = [f EXCEPT !.at = "testing"]]
  BY DEF V!AllAsked, V!At
<1>2. UnderWay(p) /\ halved' \in BOOLEAN
  BY <1>1, RunKnows DEF UnderWay, V!Ended
<1>3. CASE run' = [run EXCEPT ![p] = V!Over("done")]
  BY <1>1, <1>2, <1>3, ReviewEnds
<1>4. CASE run' = [run EXCEPT ![p] = [f EXCEPT !.at = "testing"]]
  <2> DEFINE t == [f EXCEPT !.at = "testing"]
  <2>1. run' = [run EXCEPT ![p] = t]
    BY <1>4
  <2>2. /\ t \in ReviewRuns /\ t.at = "testing" /\ t.seen = f.seen /\ t.reviews = f.reviews
        /\ t.verdict = f.verdict /\ t.synthesis = f.synthesis
    BY DEF ReviewRuns
  <2>3. t.blind = f.blind
    BY DEF ReviewRuns
  <2> HIDE DEF t
  <2>4. Judged(f) /\ \A r \in DOMAIN f.reviews : <<r, f.reviews[r]>> \in answers
    BY RunKnows
  <2>5. Judged(t)
    BY <1>1, <2>2, <2>4 DEF Judged
  <2>6. /\ t.at \notin V!Ended /\ (t.blind <=> run[p].blind) /\ t.seen = run[p].seen
        /\ \A r \in DOMAIN t.reviews : <<r, t.reviews[r]>> \in answers'
    BY <1>1, <2>2, <2>3, <2>4 DEF V!Ended
  <2> QED BY <1>1, <1>2, <2>1, <2>2, <2>5, <2>6, ReviewGoesOn
<1> QED BY <1>1, <1>3, <1>4

LEMMA ReviewTests == ASSUME ReviewInv, NEW p \in Runs, V!Test(p) PROVE ReviewInv'
<1> PICK f \in ReviewRuns : f = run[p]
  BY RunKnows
<1>1. PICK k \in Harnesses, outcome \in Outcomes :
         /\ f.at = "testing"
         /\ run' = [run EXCEPT ![p].tests = [x \in DOMAIN @ \cup {k} |-> IF x = k THEN outcome ELSE @[x]],
                               ![p].at = IF FailFast /\ outcome = "failed" THEN "judging" ELSE @]
         /\ UNCHANGED <<batch, cycles, halved, answers, during>>
  BY DEF V!Test, V!At, Outcomes
<1>2. PICK tests \in TestSets :
         /\ tests = [x \in DOMAIN f.tests \cup {k} |-> IF x = k THEN outcome ELSE f.tests[x]]
         /\ outcome = "failed" => ~V!AllPassed(tests)
  <2>1. f.tests \in TestSets
    BY DEF ReviewRuns
  <2> QED BY <2>1, TestedOnce
<1>3. PICK place \in {"testing", "judging"} :
         /\ place = IF FailFast /\ outcome = "failed" THEN "judging" ELSE "testing"
         /\ place = "judging" => outcome = "failed"
  OBVIOUS
<1> DEFINE t == [f EXCEPT !.tests = tests, !.at = place]
<1>4. run' = [run EXCEPT ![p] = t] /\ UnderWay(p)
  <2>1. run' = [run EXCEPT ![p] = [f EXCEPT !.tests = tests,
                                             !.at = IF FailFast /\ outcome = "failed" THEN "judging" ELSE f.at]]
    BY <1>1, <1>2 DEF ReviewInv, ReviewTypes, ReviewRuns
  <2> QED BY <1>1, <1>3, <2>1 DEF UnderWay, V!Ended
<1>5. /\ t \in ReviewRuns /\ t.at = place /\ t.seen = f.seen /\ t.reviews = f.reviews /\ t.tests = tests
      /\ t.verdict = f.verdict /\ t.synthesis = f.synthesis
  BY DEF ReviewRuns
<1>6. t.blind = f.blind
  BY DEF ReviewRuns
<1> HIDE DEF t
<1>7. /\ Judged(f) /\ halved \in BOOLEAN /\ \A r \in DOMAIN f.reviews : <<r, f.reviews[r]>> \in answers
  BY RunKnows
<1>8. Judged(t)
  BY <1>1, <1>2, <1>3, <1>5, <1>7 DEF Judged
<1>9. /\ t.at \notin V!Ended /\ (t.blind <=> run[p].blind) /\ t.seen = run[p].seen
      /\ \A r \in DOMAIN t.reviews : <<r, t.reviews[r]>> \in answers'
  BY <1>1, <1>5, <1>6, <1>7 DEF V!Ended
<1> QED BY <1>1, <1>4, <1>5, <1>7, <1>8, <1>9, ReviewGoesOn

(* A verdict is one of a few, and to be ready takes enough reviews that    *)
(* count, none that blocks and no harness that failed.                     *)
Gravest == {"security", "critical", "split", "fixture"}
LEMMA VerdictGiven ==
    ASSUME NEW reviews, NEW usable \in Nat, NEW tests, MinReviews \in Nat
    PROVE  LET verdict == V!Reconcile(reviews, usable, tests)
           IN  /\ verdict \in Verdicts \ {"none"}
               /\ verdict = "ready-for-push" =>
                     /\ usable >= MinReviews /\ V!AllPassed(tests)
                     /\ ~V!Reported(reviews, Gravest)
               /\ \A more \in Nat : usable <= more =>
                     \/ V!Reconcile(reviews, more, tests) = verdict
                     \/ verdict = "ready-for-review" /\ V!Reconcile(reviews, more, tests) = "ready-for-push"
<1> DEFINE blocks == {i \in DOMAIN V!Blocking : V!Reported(reviews, {V!Blocking[i]})}
           first == CHOOSE i \in blocks : \A j \in blocks : i <= j
           enough(n) == n >= MinReviews /\ (RequireDisagreement => V!Reported(reviews, {"disagreement"}))
<1>1. \A n : V!Reconcile(reviews, n, tests) =
         IF ~V!AllPassed(tests) THEN "fixture-required"
         ELSE IF blocks # {} THEN V!Consequences[first]
         ELSE IF enough(n) THEN "ready-for-push" ELSE "ready-for-review"
  BY DEF V!Reconcile
<1>2. blocks \subseteq 1 .. 4
  BY DEF V!Blocking
<1>3. blocks # {} => first \in 1 .. 4
  <2> SUFFICES ASSUME blocks # {} PROVE \E i \in blocks : \A j \in blocks : i <= j
    BY <1>2
  <2> HIDE DEF blocks
  <2>0. \A i \in blocks : i = 1 \/ i = 2 \/ i = 3 \/ i = 4
    BY <1>2
  <2>1. CASE 1 \in blocks
    BY <2>0, <2>1
  <2>2. CASE 1 \notin blocks /\ 2 \in blocks
    <3>1. \A j \in blocks : 2 <= j
      BY <2>0, <2>2
    <3> QED BY <2>2, <3>1
  <2>3. CASE 1 \notin blocks /\ 2 \notin blocks /\ 3 \in blocks
    <3>1. \A j \in blocks : 3 <= j
      BY <2>0, <2>3
    <3> QED BY <2>3, <3>1
  <2>4. CASE 1 \notin blocks /\ 2 \notin blocks /\ 3 \notin blocks
    <3>1. \A i \in blocks : i = 4
      BY <2>0, <2>4
    <3>2. PICK i : i \in blocks
      OBVIOUS
    <3>3. i = 4 /\ \A j \in blocks : i <= j
      BY <3>1, <3>2
    <3> QED BY <3>2, <3>3
  <2> QED BY <2>1, <2>2, <2>3, <2>4
<1>4. \A i \in 1 .. 4 : V!Consequences[i] \in {"quarantine", "reject", "split", "fixture-required"}
  BY DEF V!Consequences
<1>5. blocks = {} => ~V!Reported(reviews, Gravest)
  <2> SUFFICES ASSUME V!Reported(reviews, Gravest) PROVE blocks # {}
    OBVIOUS
  <2>1. PICK r \in V!Usable(reviews) : reviews[r].findings \cap Gravest # {}
    BY DEF V!Reported
  <2>2. PICK kind \in Gravest : kind \in reviews[r].findings
    BY <2>1
  <2>3. PICK i \in 1 .. 4 : V!Blocking[i] = kind
    <3>1. V!Blocking[1] = "security" /\ V!Blocking[2] = "critical" /\ V!Blocking[3] = "split" /\ V!Blocking[4] = "fixture"
      BY DEF V!Blocking
    <3> QED BY <3>1 DEF Gravest
  <2>4. V!Reported(reviews, {V!Blocking[i]}) /\ i \in DOMAIN V!Blocking
    <3>1. DOMAIN V!Blocking = 1 .. 4
      BY DEF V!Blocking
    <3> QED BY <2>2, <2>3, <3>1 DEF V!Reported
  <2> QED BY <2>4
<1> HIDE DEF blocks, first
<1>6. /\ V!Reconcile(reviews, usable, tests) \in Verdicts \ {"none"}
      /\ V!Reconcile(reviews, usable, tests) = "ready-for-push" =>
            enough(usable) /\ V!AllPassed(tests) /\ blocks = {}
  BY <1>1, <1>3, <1>4 DEF Verdicts
<1>7. ASSUME NEW more \in Nat, usable <= more
      PROVE  \/ V!Reconcile(reviews, more, tests) = V!Reconcile(reviews, usable, tests)
             \/ /\ V!Reconcile(reviews, usable, tests) = "ready-for-review"
                /\ V!Reconcile(reviews, more, tests) = "ready-for-push"
  <2>1. enough(usable) => enough(more)
    BY <1>7
  <2> HIDE DEF enough
  <2> QED BY <1>1, <2>1
<1> QED BY <1>5, <1>6, <1>7

LEMMA ReviewJudges ==
    ASSUME ReviewInv, IsFiniteSet(Roles), MinReviews \in Nat, NEW p \in Runs, V!Judge(p)
    PROVE  ReviewInv'
<1> PICK f \in ReviewRuns : f = run[p]
  BY RunKnows
<1> DEFINE verdict == V!CycleVerdict(f.reviews, f.tests)
           synthesis == IF f.program = "supervisor" THEN V!SynthesisVerdict(f.reviews, f.tests) ELSE "none"
<1>1. /\ f.at = "judging" \/ (f.at = "testing" /\ DOMAIN f.tests = Harnesses)
      /\ run' = [run EXCEPT ![p].at = "judged", ![p].verdict = verdict, ![p].synthesis = synthesis]
      /\ batch' \in {batch, f.reviews} /\ UNCHANGED <<cycles, halved, answers, during>>
  BY DEF V!Judge, V!At
<1>2. Cardinality(V!Usable(f.reviews)) \in Nat /\ V!Cardinality(V!Usable(f.reviews)) \in Nat
  <2>1. V!Usable(f.reviews) \subseteq Roles
    BY DEF V!Usable, ReviewRuns, ReviewSets
  <2> QED BY <2>1, FS_Subset, FS_CardinalityType, Enumerated
<1>3. verdict \in Verdicts \ {"none"} /\ V!SynthesisVerdict(f.reviews, f.tests) \in Verdicts \ {"none"}
  <2>1. verdict \in Verdicts \ {"none"}
    BY <1>2, VerdictGiven DEF V!CycleVerdict
  <2>2. 2 * V!Cardinality(V!Usable(f.reviews)) \in Nat
    BY <1>2
  <2>3. V!SynthesisVerdict(f.reviews, f.tests) \in Verdicts \ {"none"}
    BY <2>2, VerdictGiven DEF V!SynthesisVerdict
  <2> QED BY <2>1, <2>3
<1>4. PICK v \in Verdicts, s \in Verdicts : v = verdict /\ s = synthesis /\ v # "none"
  <2>1. synthesis \in Verdicts
    BY <1>3 DEF Verdicts
  <2> QED BY <1>3, <2>1
<1>5. s # "none" => s = V!SynthesisVerdict(f.reviews, f.tests)
  BY <1>4
<1> HIDE DEF verdict, synthesis
<1> DEFINE t == [f EXCEPT !.at = "judged", !.verdict = v, !.synthesis = s]
<1>6. run' = [run EXCEPT ![p] = t] /\ UnderWay(p)
  BY <1>1, <1>4 DEF ReviewInv, ReviewTypes, UnderWay, V!Ended
<1>7. /\ t \in ReviewRuns /\ t.at = "judged" /\ t.seen = f.seen /\ t.reviews = f.reviews /\ t.tests = f.tests
      /\ t.verdict = v /\ t.synthesis = s
  BY DEF ReviewRuns
<1>8. t.blind = f.blind
  BY DEF ReviewRuns
<1> HIDE DEF t
<1>9. /\ Judged(f) /\ halved \in BOOLEAN /\ \A r \in DOMAIN f.reviews : <<r, f.reviews[r]>> \in answers
  BY RunKnows
<1>10. Judged(t)
  BY <1>1, <1>4, <1>5, <1>7, <1>9 DEF Judged, verdict
<1>11. /\ t.at \notin V!Ended /\ (t.blind <=> run[p].blind) /\ t.seen = run[p].seen
       /\ \A r \in DOMAIN t.reviews : <<r, t.reviews[r]>> \in answers'
  BY <1>1, <1>7, <1>8, <1>9 DEF V!Ended
<1> QED BY <1>1, <1>6, <1>7, <1>9, <1>10, <1>11, ReviewGoesOn

LEMMA ReviewIsCopied == ASSUME ReviewInv, NEW p \in Runs, V!RenameRefused(p) PROVE ReviewInv'
<1> PICK f \in ReviewRuns : f = run[p]
  BY RunKnows
<1> DEFINE t == [f EXCEPT !.at = "copying"]
<1>1. /\ f.at = "judged" /\ halved' = TRUE /\ UNCHANGED <<batch, cycles, answers, during>>
      /\ run' = [run EXCEPT ![p].at = "copying"]
  BY DEF V!RenameRefused, V!At
<1>2. run' = [run EXCEPT ![p] = t] /\ UnderWay(p)
  BY <1>1 DEF ReviewInv, ReviewTypes, UnderWay, V!Ended
<1>3. /\ t \in ReviewRuns /\ t.at = "copying" /\ t.seen = f.seen /\ t.reviews = f.reviews
      /\ t.tests = f.tests /\ t.verdict = f.verdict /\ t.synthesis = f.synthesis
  BY DEF ReviewRuns
<1>4. t.blind = f.blind
  BY DEF ReviewRuns
<1> HIDE DEF t
<1>5. /\ Judged(f) /\ \A r \in DOMAIN f.reviews : <<r, f.reviews[r]>> \in answers
  BY RunKnows
<1>6. Judged(t)
  BY <1>1, <1>3, <1>5 DEF Judged
<1>7. t.at \notin V!Ended /\ (t.blind <=> run[p].blind) /\ t.seen = run[p].seen /\ halved' \in BOOLEAN
      /\ \A r \in DOMAIN t.reviews : <<r, t.reviews[r]>> \in answers'
  BY <1>1, <1>3, <1>4, <1>5 DEF V!Ended
<1> QED BY <1>1, <1>2, <1>3, <1>6, <1>7, ReviewGoesOn

LEMMA ReviewBegins == ASSUME ReviewInv, NEW p \in Runs, V!Begin(p) PROVE ReviewInv'
<1>1. PICK program \in V!Programs, assigned \in SUBSET Roles, resumes \in BOOLEAN :
         /\ run[p].at = "idle"
         /\ run' = [run EXCEPT ![p] =
              [V!Idle EXCEPT !.at = CASE program = "batch" -> "open"
                                      [] program = "cycle" -> "testing"
                                      [] program = "supervisor" -> "asking",
                             !.program = program, !.assigned = assigned, !.seen = V!Readable, !.blind = halved,
                             !.reviews = CASE program = "cycle" -> batch
                                           [] resumes -> [r \in DOMAIN batch \cap assigned |-> batch[r]]
                                           [] OTHER -> V!NoReviews]]
         /\ resumes => program = "batch"
         /\ during' = [during EXCEPT ![p] = {}] /\ UNCHANGED <<batch, cycles, halved, answers>>
  <2>1. V!Selections \subseteq SUBSET Roles
    BY DEF V!Selections
  <2> QED BY <2>1 DEF V!Begin, V!At
<1>2. /\ batch \in ReviewSets /\ \A r \in DOMAIN batch : <<r, batch[r]>> \in answers
      /\ halved \in BOOLEAN /\ cycles \in Histories /\ during \in [Runs -> SUBSET Runs]
  BY RunKnows
<1> DEFINE place == CASE program = "batch" -> "open"
                      [] program = "cycle" -> "testing"
                      [] program = "supervisor" -> "asking"
           kept == CASE program = "cycle" -> batch
                     [] resumes -> [r \in DOMAIN batch \cap assigned |-> batch[r]]
                     [] OTHER -> V!NoReviews
<1>3. place \in {"open", "testing", "asking"}
  BY DEF V!Programs
<1>4. kept \in ReviewSets /\ \A r \in DOMAIN kept : <<r, kept[r]>> \in answers
  <2>1. CASE kept = batch
    BY <1>2, <2>1
  <2>2. CASE kept = [r \in DOMAIN batch \cap assigned |-> batch[r]]
    <3>1. PICK given \in SUBSET Roles : batch \in [given -> Answers]
      BY <1>2 DEF ReviewSets
    <3>2. [r \in DOMAIN batch \cap assigned |-> batch[r]] \in [given \cap assigned -> Answers]
      BY <3>1
    <3>3. given \cap assigned \in SUBSET Roles
      OBVIOUS
    <3>4. kept \in ReviewSets
      BY <2>2, <3>2, <3>3 DEF ReviewSets
    <3>5. \A r \in DOMAIN kept : kept[r] = batch[r] /\ r \in DOMAIN batch
      BY <2>2
    <3> QED BY <1>2, <3>4, <3>5
  <2>3. CASE kept = V!NoReviews
    BY <2>3, NoReviewsYet
  <2>4. kept = batch \/ kept = [r \in DOMAIN batch \cap assigned |-> batch[r]] \/ kept = V!NoReviews
    <3>1. CASE program = "cycle"
      <4>1. ~resumes
        BY <1>1, <3>1
      <4> QED BY <3>1, <4>1
    <3>2. CASE program # "cycle" /\ resumes
      BY <3>2
    <3>3. CASE program # "cycle" /\ ~resumes
      BY <3>3
    <3> QED BY <3>1, <3>2, <3>3
  <2> HIDE DEF kept
  <2> QED BY <2>1, <2>2, <2>3, <2>4
<1>5. V!Readable \in Histories /\ AddsUp(V!Readable, run) /\ (halved = FALSE => V!Readable = cycles)
  BY NoReviewsYet DEF V!Readable, ReviewInv, ReviewTypes
<1> DEFINE idle == V!Idle
<1>6. idle \in ReviewRuns /\ idle.verdict = "none" /\ idle.synthesis = "none"
  BY NoReviewsYet
<1>7. PICK h \in Histories : h = V!Readable
  BY <1>5
<1>8. run' = [run EXCEPT ![p] = [idle EXCEPT !.at = place, !.program = program, !.assigned = assigned, !.seen = h,
                                             !.blind = halved, !.reviews = kept]]
  BY <1>1, <1>7
<1> HIDE DEF place, kept, idle
<1> DEFINE t == [idle EXCEPT !.at = place, !.program = program, !.assigned = assigned, !.seen = h,
                             !.blind = halved, !.reviews = kept]
<1>9. /\ t \in ReviewRuns /\ t.at = place /\ t.seen = h /\ t.reviews = kept
      /\ t.verdict = "none" /\ t.synthesis = "none"
  BY <1>2, <1>3, <1>4, <1>6 DEF ReviewRuns, V!Programs
<1>10. t.blind = halved
  BY <1>6 DEF ReviewRuns
<1>11. run' = [run EXCEPT ![p] = t]
  BY <1>8
<1> HIDE DEF t
<1>12. Judged(t) /\ t.at # "recorded" /\ ~OnRecord(p) /\ AddsUp(t.seen, run)
  BY <1>1, <1>3, <1>5, <1>7, <1>9 DEF Judged, OnRecord
<1>13. during' \in [Runs -> SUBSET Runs] /\ \A q \in Runs \ {p} : during'[q] = during[q]
  BY <1>1, <1>2
<1>14. \A q \in Runs : OnRecord(q) /\ t.at \notin {"idle"} \cup V!Ended =>
          q \in V!Counted(t.seen) \/ q \in during'[p] \/ t.blind \/ Overlapped(q)
  <2> SUFFICES ASSUME NEW q \in Runs, OnRecord(q) PROVE q \in V!Counted(t.seen) \/ t.blind \/ Overlapped(q)
    OBVIOUS
  <2>1. q \in V!Counted(cycles) \/ Overlapped(q)
    BY DEF ReviewInv, LossExplained
  <2>2. CASE halved = TRUE
    BY <1>10, <2>2
  <2>3. CASE halved = FALSE
    BY <1>5, <1>7, <1>9, <2>1, <2>3
  <2> QED BY <1>2, <2>2, <2>3
<1>15. \A r \in DOMAIN t.reviews : <<r, t.reviews[r]>> \in answers'
  BY <1>1, <1>4, <1>9
<1>16. answers \subseteq answers' /\ batch' \in ReviewSets /\ halved' \in BOOLEAN /\ UNCHANGED cycles
       /\ \A r \in DOMAIN batch' : <<r, batch'[r]>> \in answers'
  BY <1>1, <1>2
<1> QED BY <1>9, <1>11, <1>12, <1>13, <1>14, <1>15, <1>16, ReviewMoves

(* A run that records: what it read and itself, in place of what is there. *)
LEMMA ReviewIsRecorded ==
    ASSUME ReviewInv, IsFiniteSet(Runs), MaxCycles \in Nat \ {0, 1}, NEW p \in Runs, V!Record(p)
    PROVE  ReviewInv'
<1> PICK f \in ReviewRuns : f = run[p]
  BY RunKnows
<1> DEFINE idle == V!Idle
<1>1. idle \in ReviewRuns /\ idle.verdict = "none" /\ idle.synthesis = "none" /\ idle.seen = V!NoHistory
  BY NoReviewsYet
<1>2. /\ f.at \in {"judged", "copying"} /\ cycles' = V!Recorded(f.seen, p, f.reviews, f.tests)
      /\ halved' = FALSE /\ UNCHANGED <<batch, answers>>
      /\ during' = [q \in Runs |-> IF q = p \/ run[q].at \in V!Ended THEN during[q] ELSE during[q] \cup {p}]
      /\ run' = [run EXCEPT ![p] = [V!Over("recorded") EXCEPT !.reviews = f.reviews, !.tests = f.tests,
                                                               !.blind = f.blind]]
  BY DEF V!Record, V!At
<1>3. V!Over("recorded") = [idle EXCEPT !.at = "recorded"]
  BY DEF V!Over
<1> HIDE DEF idle
<1> DEFINE over == V!Over("recorded")
<1>4. /\ over \in ReviewRuns /\ over.at = "recorded" /\ over.verdict = "none" /\ over.synthesis = "none"
      /\ over.seen = V!NoHistory
  BY <1>1, <1>3 DEF ReviewRuns, V!Ended
<1> HIDE DEF over
<1> PICK blind \in BOOLEAN : blind = f.blind
  BY DEF ReviewRuns
<1> DEFINE t == [over EXCEPT !.reviews = f.reviews, !.tests = f.tests, !.blind = blind]
<1>5. /\ t \in ReviewRuns /\ t.at = "recorded" /\ t.verdict = "none" /\ t.synthesis = "none"
      /\ t.seen = V!NoHistory /\ t.reviews = f.reviews /\ t.tests = f.tests
  BY <1>4 DEF ReviewRuns
<1>6. t.blind = f.blind
  BY <1>4 DEF ReviewRuns
<1>7. run' = [run EXCEPT ![p] = t]
  BY <1>2 DEF over
<1> HIDE DEF t
<1>8. /\ run \in [Runs -> ReviewRuns] /\ run' \in [Runs -> ReviewRuns] /\ run'[p] = t
      /\ \A q \in Runs \ {p} : run'[q] = run[q]
  BY <1>5, <1>7 DEF ReviewInv, ReviewTypes
<1>9. UnderWay(p) /\ ~OnRecord(p)
  BY <1>2 DEF UnderWay, OnRecord, V!Ended
<1>10. \A h \in Histories : AddsUp(h, run) => AddsUp(h, run') /\ p \notin V!Counted(h)
  <2> SUFFICES ASSUME NEW h \in Histories, AddsUp(h, run) PROVE AddsUp(h, run') /\ p \notin V!Counted(h)
    OBVIOUS
  <2>1. p \notin V!Counted(h)
    BY <1>9 DEF AddsUp, OnRecord
  <2>2. \A q \in V!Counted(h) : run'[q] = run[q]
    BY <1>8, <2>1 DEF Histories, V!Counted, V!Listed
  <2> QED BY <2>1, <2>2, StillAddsUp
<1>11. f.seen \in Histories /\ AddsUp(f.seen, run') /\ p \notin V!Counted(f.seen)
  <2>1. f.seen \in Histories /\ AddsUp(f.seen, run)
    BY RunKnows DEF ReviewRuns
  <2> QED BY <1>10, <2>1
<1>12. cycles' \in Histories /\ V!Counted(cycles') = V!Counted(f.seen) \cup {p} /\ AddsUp(cycles', run')
  <2>1. run'[p].at = "recorded" /\ run'[p].reviews = f.reviews /\ run'[p].tests = f.tests
    BY <1>5, <1>8
  <2> PICK g : g = run'
    OBVIOUS
  <2>2. AddsUp(f.seen, g) /\ g[p].at = "recorded" /\ f.seen \in Histories /\ p \notin V!Counted(f.seen)
    BY <1>11, <2>1
  <2>3. /\ V!Recorded(f.seen, p, g[p].reviews, g[p].tests) \in Histories
        /\ V!Counted(V!Recorded(f.seen, p, g[p].reviews, g[p].tests)) = V!Counted(f.seen) \cup {p}
        /\ AddsUp(V!Recorded(f.seen, p, g[p].reviews, g[p].tests), g)
    BY <2>2, OneMoreAddsUp
  <2>4. cycles' = V!Recorded(f.seen, p, g[p].reviews, g[p].tests)
    BY <1>2, <2>1
  <2> QED BY <2>3, <2>4
<1>13. ASSUME NEW q \in Runs PROVE AddsUp(run'[q].seen, run')
  <2>1. CASE q = p
    BY <1>5, <1>8, <2>1, NoReviewsYet
  <2>2. CASE q # p
    <3>1. run'[q].seen \in Histories /\ AddsUp(run'[q].seen, run)
      BY <1>8, <2>2 DEF ReviewRuns, ReviewInv
    <3> QED BY <1>10, <3>1
  <2> QED BY <2>1, <2>2
<1>14. /\ during' \in [Runs -> SUBSET Runs] /\ \A q \in Runs : during[q] \subseteq during'[q]
       /\ \A q \in Runs : q # p /\ UnderWay(q) => p \in during'[q]
  BY <1>2 DEF ReviewInv, ReviewTypes, UnderWay
<1>15. \A q \in Runs \ {p} : (OnRecord(q)' <=> OnRecord(q)) /\ (UnderWay(q)' <=> UnderWay(q))
  BY <1>8 DEF OnRecord, UnderWay
<1>16. OnRecord(p)' /\ ~UnderWay(p)'
  BY <1>5, <1>8 DEF OnRecord, UnderWay, V!Ended
<1>17. \A q \in Runs : Overlapped(q) \/ q \in during[p] \/ run[p].blind => Overlapped(q)'
  <2>1. ASSUME NEW q \in Runs, NEW w \in Runs, OnRecord(w), q \in during[w] \/ run[w].blind
        PROVE  Overlapped(q)'
    <3>1. w # p
      BY <1>9, <2>1
    <3>2. OnRecord(w)' /\ (q \in during'[w] \/ run'[w].blind)
      BY <1>8, <1>14, <1>15, <2>1, <3>1
    <3> QED BY <3>2 DEF Overlapped
  <2>2. ASSUME NEW q \in Runs, q \in during[p] \/ run[p].blind PROVE Overlapped(q)'
    <3>1. q \in during'[p] \/ run'[p].blind
      BY <1>6, <1>8, <1>14, <2>2
    <3> QED BY <1>16, <3>1 DEF Overlapped
  <2> QED BY <2>1, <2>2 DEF Overlapped
<1>18. ASSUME NEW q \in Runs PROVE LossExplained(q)'
  <2> SUFFICES ASSUME OnRecord(q)'
               PROVE  /\ q \in V!Counted(cycles') \/ Overlapped(q)'
                      /\ \A w \in Runs : UnderWay(w)' =>
                            q \in V!Counted(run'[w].seen) \/ q \in during'[w] \/ run'[w].blind \/ Overlapped(q)'
    BY DEF LossExplained
  <2>1. CASE q = p
    <3>1. \A w \in Runs : UnderWay(w)' => q \in during'[w]
      BY <1>14, <1>15, <1>16, <2>1
    <3> QED BY <1>12, <2>1, <3>1
  <2>2. CASE q # p
    <3>1. OnRecord(q) /\ LossExplained(q)
      BY <1>15, <2>2 DEF ReviewInv
    <3>2. q \in V!Counted(f.seen) \/ q \in during[p] \/ run[p].blind \/ Overlapped(q)
      BY <1>9, <3>1 DEF LossExplained
    <3>3. q \in V!Counted(cycles') \/ Overlapped(q)'
      BY <1>12, <1>17, <3>2
    <3>4. ASSUME NEW w \in Runs, UnderWay(w)'
          PROVE  q \in V!Counted(run'[w].seen) \/ q \in during'[w] \/ run'[w].blind \/ Overlapped(q)'
      <4>1. w # p /\ UnderWay(w) /\ run'[w] = run[w]
        BY <1>8, <1>15, <1>16, <3>4
      <4>2. q \in V!Counted(run[w].seen) \/ q \in during[w] \/ run[w].blind \/ Overlapped(q)
        BY <3>1, <4>1 DEF LossExplained
      <4> QED BY <1>14, <1>17, <4>1, <4>2
    <3> QED BY <3>3, <3>4
  <2> QED BY <2>1, <2>2
<1>19. ASSUME NEW q \in Runs PROVE Given(run[q].reviews)' /\ Judged(run[q])'
  <2>1. CASE q = p
    <3>1. \A r \in DOMAIN f.reviews : <<r, f.reviews[r]>> \in answers
      BY RunKnows
    <3>2. Given(run[q].reviews)'
      BY <1>2, <1>5, <1>8, <2>1, <3>1 DEF Given
    <3>3. run'[q].at = "recorded" /\ run'[q].verdict = "none" /\ run'[q].synthesis = "none"
      BY <1>5, <1>8, <2>1
    <3>4. Judged(run[q])'
      BY <3>3 DEF Judged
    <3> QED BY <3>2, <3>4
  <2>2. CASE q # p
    BY <1>2, <1>8, <2>2 DEF ReviewInv, Given, Judged, V!CycleVerdict, V!SynthesisVerdict, V!AllPassed
  <2> QED BY <2>1, <2>2
<1>20. Given(batch)' /\ ReviewTypes'
  BY <1>2, <1>8, <1>12, <1>14 DEF ReviewInv, ReviewTypes, Given
<1> QED BY <1>12, <1>13, <1>18, <1>19, <1>20 DEF ReviewInv

LEMMA ReviewStep ==
    ASSUME ReviewInv, V!ReviewAssumption, [V!Next]_V!vars
    PROVE  ReviewInv'
<1>1. IsFiniteSet(Runs) /\ IsFiniteSet(Roles) /\ MinReviews \in Nat /\ MaxCycles \in Nat \ {0, 1}
  <2>1. /\ V!IsFiniteSet(Runs) /\ V!IsFiniteSet(Roles) /\ MinReviews \in Nat
        /\ MaxCycles \in Nat \ {0, 1}
    BY DEF V!ReviewAssumption
  <2> QED BY <2>1 DEF V!IsFiniteSet, IsFiniteSet
<1>2. CASE UNCHANGED V!vars
  <2>1. UNCHANGED <<run, batch, cycles, halved, answers, during>>
    BY <1>2 DEF V!vars
  <2> QED BY <2>1 DEF ReviewInv, ReviewTypes, AddsUp, Giving, Ending, LossExplained, OnRecord, UnderWay, Overlapped,
             Given, Judged, V!CycleVerdict, V!SynthesisVerdict, V!AllPassed
<1>3. ASSUME NEW p \in Runs, V!Skip(p) PROVE ReviewInv'
  <2>1. run[p].at = "judged" /\ run' = [run EXCEPT ![p] = V!Over("done")]
        /\ UNCHANGED <<batch, cycles, halved, answers, during>>
    BY <1>3 DEF V!Skip, V!At
  <2>2. UnderWay(p) /\ halved' \in BOOLEAN
    BY <2>1, RunKnows DEF UnderWay, V!Ended
  <2> QED BY <2>1, <2>2, ReviewEnds
<1>4. ASSUME NEW p \in Runs, V!Crash(p) PROVE ReviewInv'
  <2>1. UnderWay(p) /\ run' = [run EXCEPT ![p] = V!Over("dead")]
        /\ UNCHANGED <<batch, cycles, halved, answers, during>>
    BY <1>4 DEF V!Crash, UnderWay
  <2>2. halved' \in BOOLEAN
    BY <2>1, RunKnows
  <2> QED BY <2>1, <2>2, ReviewEnds
<1>5. ASSUME NEW p \in Runs, V!Proceed(p) PROVE ReviewInv'
  BY <1>1, <1>3, <1>5, ReviewOpens, ReviewAsks, ReviewHasAsked, ReviewTests, ReviewJudges, ReviewIsRecorded
     DEF V!Proceed
<1>6. ASSUME NEW p \in Runs, V!Begin(p) \/ V!Proceed(p) \/ V!RenameRefused(p) \/ V!Crash(p) PROVE ReviewInv'
  BY <1>4, <1>5, <1>6, ReviewBegins, ReviewIsCopied
<1> QED BY <1>2, <1>6 DEF V!Next

LEMMA ReviewStart == V!Init => ReviewInv
<1> SUFFICES ASSUME V!Init PROVE ReviewInv
  OBVIOUS
<1>1. /\ run = [p \in Runs |-> V!Idle] /\ batch = V!NoReviews /\ cycles = V!NoHistory /\ halved = FALSE
      /\ during = [p \in Runs |-> {}]
  BY DEF V!Init
<1>2. ReviewTypes
  BY <1>1, NoReviewsYet DEF ReviewTypes
<1>3. AddsUp(cycles, run) /\ \A p \in Runs : AddsUp(run[p].seen, run)
  BY <1>1, NoReviewsYet
<1>4. ASSUME NEW p \in Runs PROVE LossExplained(p) /\ Given(run[p].reviews) /\ Judged(run[p])
  <2>1. run[p] = V!Idle
    BY <1>1
  <2>2. ~OnRecord(p)
    BY <2>1, NoReviewsYet DEF OnRecord
  <2>3. Given(run[p].reviews)
    BY <2>1, NoReviewsYet DEF Given
  <2> QED BY <2>1, <2>2, <2>3, NoReviewsYet DEF LossExplained
<1>5. Given(batch)
  BY <1>1, NoReviewsYet DEF Given
<1> QED BY <1>2, <1>3, <1>4, <1>5 DEF ReviewInv

LEMMA HistorySafe ==
    ASSUME V!ReviewAssumption
    PROVE  V!Init /\ [][V!Next]_(V!vars) => []V!HistoryAddsUp
<1>1. V!Init => ReviewInv
  BY ReviewStart
<1>2. ReviewInv /\ [V!Next]_V!vars => ReviewInv'
  BY ReviewStep
<1>3. ReviewInv => V!HistoryAddsUp
  BY Enumerated DEF ReviewInv, AddsUp, Giving, Ending, Outcomes, V!HistoryAddsUp
<1> QED BY <1>1, <1>2, <1>3, PTL

(* For any finite set of runs, however they overlap, crash or resume: the  *)
(* history file says of each reviewer and each harness exactly what the    *)
(* cycles it counted found (updateReviewCycleHistory), those it lists no   *)
(* longer included, though each run writes back what it read long before.  *)
THEOREM HistoryAddsUpAlways ==
    ASSUME V!ReviewAssumption
    PROVE  V!Spec => []V!HistoryAddsUp
BY HistorySafe, PTL DEF V!Spec

LEMMA LossesSafe ==
    ASSUME V!ReviewAssumption
    PROVE  V!Init /\ [][V!Next]_(V!vars) => []V!LossesNeedOverlap
<1>1. V!Init => ReviewInv
  BY ReviewStart
<1>2. ReviewInv /\ [V!Next]_V!vars => ReviewInv'
  BY ReviewStep
<1>3. ReviewInv => V!LossesNeedOverlap
  <2> SUFFICES ASSUME ReviewInv, NEW p \in Runs, OnRecord(p), p \notin V!Listed(cycles), ~Overlapped(p)
               PROVE  p \in cycles.cut /\ Len(cycles.cycles) = MaxCycles
    BY DEF OnRecord, Overlapped, V!LossesNeedOverlap, V!At
  <2>1. p \in V!Counted(cycles) /\ AddsUp(cycles, run)
    BY DEF ReviewInv, LossExplained
  <2>2. p \in cycles.cut
    BY <2>1 DEF V!Counted
  <2> QED BY <2>1, <2>2 DEF AddsUp
<1> QED BY <1>1, <1>2, <1>3, PTL

(* For any finite set of runs: a cycle that was recorded leaves the counts *)
(* only because a run that had read the history before wrote it after, or  *)
(* because the file was half copied when another run began; and the list   *)
(* for these reasons or because it is full of later ones.                  *)
THEOREM LossesNeedOverlapAlways ==
    ASSUME V!ReviewAssumption
    PROVE  V!Spec => []V!LossesNeedOverlap
BY LossesSafe, PTL DEF V!Spec

LEMMA ReadySafe ==
    ASSUME V!ReviewAssumption
    PROVE  V!Init /\ [][V!Next]_(V!vars) => []V!ReadyIsEarned
<1>1. V!Init => ReviewInv
  BY ReviewStart
<1>2. ReviewInv /\ [V!Next]_V!vars => ReviewInv'
  BY ReviewStep
<1>3. ReviewInv => V!ReadyIsEarned
  <2> SUFFICES ASSUME ReviewInv, NEW p \in Runs
               PROVE  LET answered == {r \in DOMAIN run[p].reviews :
                                         /\ run[p].reviews[r].status = "submitted"
                                         /\ <<r, run[p].reviews[r]>> \in answers}
                          clean == /\ ~V!Reported(run[p].reviews, {"security", "critical", "split", "fixture"})
                                   /\ \A h \in Harnesses : h \in DOMAIN run[p].tests /\ run[p].tests[h] = "passed"
                      IN  /\ run[p].verdict = "ready-for-push" => clean /\ V!Cardinality(answered) >= MinReviews
                          /\ run[p].synthesis = "ready-for-push" => clean /\ 2 * V!Cardinality(answered) >= MinReviews
                          /\ run[p].synthesis \notin {"none", run[p].verdict} =>
                               run[p].verdict = "ready-for-review" /\ run[p].synthesis = "ready-for-push"
    BY DEF V!ReadyIsEarned
  <2> PICK f \in ReviewRuns : f = run[p]
    BY RunKnows
  <2> DEFINE answered == {r \in DOMAIN f.reviews : /\ f.reviews[r].status = "submitted"
                                                   /\ <<r, f.reviews[r]>> \in answers}
             usable == V!Cardinality(V!Usable(f.reviews))
  <2>1. answered = V!Usable(f.reviews) /\ Judged(f)
    BY RunKnows DEF V!Usable
  <2>2. IsFiniteSet(Roles) /\ MinReviews \in Nat
    <3>1. V!IsFiniteSet(Roles) /\ MinReviews \in Nat
      BY DEF V!ReviewAssumption
    <3> QED BY <3>1 DEF V!IsFiniteSet, IsFiniteSet
  <2>3. usable \in Nat
    <3>1. V!Usable(f.reviews) \subseteq Roles
      BY DEF V!Usable, ReviewRuns, ReviewSets
    <3> QED BY <2>2, <3>1, FS_Subset, FS_CardinalityType, Enumerated
  <2>4. /\ V!CycleVerdict(f.reviews, f.tests) = V!Reconcile(f.reviews, usable, f.tests)
        /\ V!SynthesisVerdict(f.reviews, f.tests) = V!Reconcile(f.reviews, 2 * usable, f.tests)
    BY DEF V!CycleVerdict, V!SynthesisVerdict
  <2> HIDE DEF usable, answered
  <2>5. 2 * usable \in Nat /\ usable <= 2 * usable
    BY <2>3
  <2>6. \A n \in Nat : V!Reconcile(f.reviews, n, f.tests) = "ready-for-push" =>
           n >= MinReviews /\ V!AllPassed(f.tests) /\ ~V!Reported(f.reviews, Gravest)
    BY <2>2, VerdictGiven
  <2>7. \/ V!Reconcile(f.reviews, 2 * usable, f.tests) = V!Reconcile(f.reviews, usable, f.tests)
        \/ /\ V!Reconcile(f.reviews, usable, f.tests) = "ready-for-review"
           /\ V!Reconcile(f.reviews, 2 * usable, f.tests) = "ready-for-push"
    <3> PICK u \in Nat : u = usable
      BY <2>3
    <3> PICK more \in Nat : more = 2 * usable /\ u <= more
      BY <2>5
    <3>1. \/ V!Reconcile(f.reviews, more, f.tests) = V!Reconcile(f.reviews, u, f.tests)
          \/ /\ V!Reconcile(f.reviews, u, f.tests) = "ready-for-review"
             /\ V!Reconcile(f.reviews, more, f.tests) = "ready-for-push"
      BY <2>2, VerdictGiven
    <3> QED BY <3>1
  <2>8. V!AllPassed(f.tests) /\ DOMAIN f.tests = Harnesses =>
           \A h \in Harnesses : h \in DOMAIN f.tests /\ f.tests[h] = "passed"
    BY DEF V!AllPassed
  <2>9. f.verdict = "ready-for-push" =>
           /\ usable >= MinReviews /\ ~V!Reported(f.reviews, Gravest)
           /\ \A h \in Harnesses : h \in DOMAIN f.tests /\ f.tests[h] = "passed"
    BY <2>1, <2>3, <2>4, <2>6, <2>8 DEF Judged
  <2>10. f.synthesis = "ready-for-push" =>
            /\ 2 * usable >= MinReviews /\ ~V!Reported(f.reviews, Gravest)
            /\ \A h \in Harnesses : h \in DOMAIN f.tests /\ f.tests[h] = "passed"
    BY <2>1, <2>4, <2>5, <2>6, <2>8 DEF Judged
  <2>11. f.synthesis \notin {"none", f.verdict} => f.verdict = "ready-for-review" /\ f.synthesis = "ready-for-push"
    BY <2>1, <2>4, <2>7 DEF Judged
  <2>12. usable = V!Cardinality(answered)
    BY <2>1 DEF usable
  <2> QED BY <2>9, <2>10, <2>11, <2>12 DEF answered, Gravest
<1> QED BY <1>1, <1>2, <1>3, PTL

(* For any roster, plan and thresholds, and whatever a batch resumes from: *)
(* a candidate is called ready for a push (reconcileReviewBatch) only after*)
(* minReviewsForPush reviewers really answered it, none with a finding that*)
(* blocks, and every harness of the plan passed in this run; the synthesis,*)
(* which counts each review twice, after half as many, and it differs from *)
(* the verdict in nothing else.                                            *)
THEOREM ReadyIsEarnedAlways ==
    ASSUME V!ReviewAssumption
    PROVE  V!Spec => []V!ReadyIsEarned
BY ReadySafe, PTL DEF V!Spec

-----------------------------------------------------------------------------
(* The components side by side, as MCRecords has them                      *)

LEMMA EachStep ==
    ASSUME [RecordsNext]_records
    PROVE  [Next]_vars /\ [S!Next]_(S!vars) /\ [L!Next]_(L!vars) /\ [V!Next]_(V!vars)
<1>1. CASE part = "runbook" /\ Next /\ UNCHANGED <<part, jobs, leases, reviewing>>
  BY <1>1 DEF jobs, leases, reviewing, S!vars, L!vars, V!vars
<1>2. CASE part = "jobs" /\ S!Next /\ OneRetry /\ UNCHANGED <<part, vars, leases, reviewing>>
  BY <1>2 DEF leases, reviewing, L!vars, V!vars
<1>3. CASE part = "leases" /\ L!Next /\ UNCHANGED <<part, vars, jobs, reviewing>>
  BY <1>3 DEF jobs, reviewing, S!vars, V!vars
<1>4. CASE part = "reviews" /\ V!Next /\ ThirdIsLast /\ UNCHANGED <<part, vars, jobs, leases>>
  BY <1>4 DEF jobs, leases, S!vars, L!vars
<1>5. CASE UNCHANGED records
  BY <1>5 DEF records, jobs, leases, reviewing, S!vars, L!vars, V!vars
<1> QED BY <1>1, <1>2, <1>3, <1>4, <1>5 DEF RecordsNext

LEMMA EachAlways ==
    RecordsSpec => /\ Init   /\ [][Next]_vars
                   /\ S!Init /\ [][S!Next]_(S!vars)
                   /\ L!Init /\ [][L!Next]_(L!vars)
                   /\ V!Init /\ [][V!Next]_(V!vars)
<1>1. RecordsInit => Init /\ S!Init /\ L!Init /\ V!Init
  BY DEF RecordsInit
<1> QED BY <1>1, EachStep, PTL DEF RecordsSpec

(* Whatever the jobs, leases and reviews, however many workers, owners and *)
(* runs there are, and whatever fails: the starts of a job of the store    *)
(* and the effects under a lease are accounted for, the history of the     *)
(* reviews adds up and loses only what an overlapping run overwrote or, of *)
(* its list, what later cycles pushed out, and no candidate is called ready*)
(* that was not reviewed.                                                  *)
THEOREM WorkIsAccountedAlways ==
    ASSUME IsFiniteSet(Owners)
    PROVE  RecordsSpec => []WorkIsAccounted
<1>1. S!Init /\ [][S!Next]_(S!vars) => []S!RunsAreAccounted
  BY RecordsAssumption, RunsSafe, PTL
<1>2. L!Init /\ [][L!Next]_(L!vars) => []L!EffectsAreAccounted
  BY RecordsAssumption, LeasesSafe, PTL
<1>3. V!Init /\ [][V!Next]_(V!vars) => [](V!HistoryAddsUp /\ V!LossesNeedOverlap /\ V!ReadyIsEarned)
  BY RecordsAssumption, HistorySafe, LossesSafe, ReadySafe, PTL
<1>4. S!RunsAreAccounted /\ L!EffectsAreAccounted /\ V!HistoryAddsUp /\ V!LossesNeedOverlap /\ V!ReadyIsEarned
        => WorkIsAccounted
  BY DEF WorkIsAccounted
<1> QED BY <1>1, <1>2, <1>3, <1>4, EachAlways, PTL

(* What has ended stays so, a runbook's checkpoint, a job of the store and *)
(* a lease, whatever is retried, taken over or reviewed beside it.         *)
THEOREM AllEndsAreFinalAlways ==
    ASSUME IsFiniteSet(Owners)
    PROVE  RecordsSpec => AllEndsAreFinal
<1>1. S!Init /\ [][S!Next]_(S!vars) => S!EndsStay
  BY RecordsAssumption, RunsSafe, PTL
<1>2. L!Init /\ [][L!Next]_(L!vars) => L!ResultsAreFinal
  BY RecordsAssumption, LeasesSafe, PTL
<1>3. Init /\ [][Next]_vars => EndsAreFinal
  <2>1. InOrder /\ [Next]_vars => [Final]_vars
    BY FinalStep
  <2>2. [][Final]_vars => EndsAreFinal
    BY PTL DEF EndsAreFinal, Final
  <2> QED BY <2>1, <2>2, InOrderKept, PTL
<1> QED BY <1>1, <1>2, <1>3, EachAlways, PTL DEF AllEndsAreFinal
=============================================================================
