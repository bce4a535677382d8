---------------------------- MODULE OrderDelivery ----------------------------
(***************************************************************************)
(* The order reconciler: dizzy_poll_deliver.mjs with                       *)
(* lib/order_fulfillment.mjs.  Each pass of a daemon polls the order, reads *)
(* the artifacts in its directory, decides the one next action and carries *)
(* it out.  A pass keeps nothing in memory: the artifact files are all a   *)
(* restarted daemon has.                                                   *)
(*                                                                         *)
(* One order is modelled: orders have directories of their own, and        *)
(* reconcileOrderBatch keeps the failure of one from the others.  The name *)
(* of an artifact file is a hash of its type and payload, so a record is   *)
(* its own key.  A candidate's request_key stands for the brief.           *)
(***************************************************************************)
EXTENDS Naturals, Sequences, SequencesExt

CONSTANTS
    Daemons, Briefs, Assets,
    Blocked,        \* briefs the policies do not allow
    Placeholder,    \* assets whose metadata declares no real model
    Empty,          \* assets that are empty files
    Mode,           \* DIZZY_EXECUTION_MODE
    Allowlisted,    \* the order is in DIZZY_MANUAL_DELIVER_ORDER_IDS
    IterationCap,   \* DIZZY_ITERATION_CAP
    MaxChanges,     \* changes of the brief
    MaxStagings,    \* assets staged by the operator
    MaxFaults,      \* crashes, failed calls and lost replies
    None

ASSUME OrderAssumption ==
    /\ Mode \in {"dry_run", "generate_qc", "manual_delivery"} /\ Allowlisted \in BOOLEAN
    /\ IterationCap \in Nat \ {0} /\ {MaxChanges, MaxStagings, MaxFaults} \subseteq Nat
    /\ Blocked \subseteq Briefs /\ Placeholder \cup Empty \subseteq Assets
    /\ None \notin Briefs \cup Assets

VARIABLES
    order,       \* the marketplace's side: brief, delivered
    staged,      \* the asset in candidate.png and candidate.json, or None
    dir,         \* the whole artifacts of each type, oldest first
    torn,        \* files <<type, payload>> that a crash left half-written
    daemon,      \* each daemon's point in its pass
    budget,      \* changes, stagings and faults so far
    stagedFor,   \* history: the brief when the asset was staged
    uploads,     \* history: what was uploaded, the n-th under url n
    deliveries   \* history: the upload records delivered

vars    == <<order, staged, dir, torn, daemon, budget, stagedFor, uploads, deliveries>>
history == <<stagedFor, uploads, deliveries>>

Types   == {"intake", "candidate", "qc", "upload", "delivery", "pending"}
NoOrder == [brief |-> None, delivered |-> FALSE]
Idle    == [pc |-> "poll", order |-> NoOrder, rec |-> None]
Spend(b, n)   == budget[b] < n /\ budget' = [budget EXCEPT ![b] = @ + 1]

-----------------------------------------------------------------------------
(* deriveFacts, on the artifacts a pass has read: the latest candidate, and*)
(* of the QC and upload records that name it the latest.                   *)
HasCandidate == dir["candidate"] # <<>>
Candidate    == Last(dir["candidate"])
Naming(t)    == {i \in DOMAIN dir[t] : dir[t][i].candidate = Candidate}
Latest(t)    == dir[t][Max(Naming(t))]

QcDone       == Naming("qc") # {}
QcPassed     == QcDone /\ Latest("qc").pass
HasUpload    == Naming("upload") # {}
Upload       == Latest("upload")
HasDelivery  == HasCandidate /\ HasUpload /\ Contains(dir["delivery"], Upload)

Pending(op, ref) == Contains(dir["pending"], [op |-> op, ref |-> ref])
Uploaded(c)      == \E i \in DOMAIN dir["upload"] : dir["upload"][i].candidate = c

(* hasUnresolvedExternalEffect: an intent without its completion.          *)
NeverUnresolved(op, ref) == FALSE
PendingIsFinal(op, ref)  == Pending(op, ref)
Unresolved(op, ref) ==
    /\ Pending(op, ref)
    /\ ~(IF op = "upload" THEN Uploaded(ref) ELSE Contains(dir["delivery"], ref))

CapReached == Len(dir["candidate"]) >= IterationCap /\ ~QcPassed

(* buildPreparedCandidatePayload and runQc look at the file as it is now.  *)
Prepared    == staged # None /\ staged \notin Placeholder
Deliverable == staged # None /\ staged \notin Empty

GeneratedFrom0(b) == [request |-> b, attempt |-> Len(dir["candidate"]), hash |-> staged]
Generated(b)      == [request |-> b, attempt |-> Len(dir["candidate"]) + 1, hash |-> staged]

(* decideNextAction and the checks executeAction makes first: the record   *)
(* to write, or None when the pass ends with a diagnostic.                 *)
Action(o) ==
    IF o.delivered \/ HasDelivery THEN None
    ELSE IF dir["intake"] = <<>> THEN <<"intake", o.brief>>
    ELSE IF o.brief \in Blocked \/ CapReached THEN None
    ELSE IF ~HasCandidate \/ Candidate.request # o.brief \/ (QcDone /\ ~QcPassed)
         THEN IF Mode # "dry_run" /\ Prepared THEN <<"candidate", Generated(o.brief)>> ELSE None
    ELSE IF ~QcDone
         THEN IF Mode # "dry_run"
              THEN <<"qc", [candidate |-> Candidate, pass |-> Deliverable]>> ELSE None
    ELSE IF Unresolved("upload", Candidate) THEN None
    ELSE IF ~HasUpload
         THEN IF Mode = "manual_delivery" /\ Deliverable
              THEN <<"pending", [op |-> "upload", ref |-> Candidate]>> ELSE None
    ELSE IF Unresolved("deliver", Upload) THEN None
    ELSE IF Mode = "manual_delivery" /\ Allowlisted /\ Deliverable
         THEN <<"pending", [op |-> "deliver", ref |-> Upload]>> ELSE None

-----------------------------------------------------------------------------
(* The marketplace and the operator.                                       *)
ChangeBrief(b) ==
    /\ b # order.brief /\ Spend("changes", MaxChanges)
    /\ order' = [order EXCEPT !.brief = b]
    /\ UNCHANGED <<staged, dir, torn, daemon, history>>

MarkDelivered ==
    /\ deliveries # <<>> /\ ~order.delivered
    /\ order' = [order EXCEPT !.delivered = TRUE]
    /\ UNCHANGED <<staged, dir, torn, daemon, budget, history>>

Stage(a) ==
    /\ Spend("stagings", MaxStagings)
    /\ staged' = a /\ stagedFor' = order.brief
    /\ UNCHANGED <<order, dir, torn, daemon, uploads, deliveries>>

-----------------------------------------------------------------------------
(* A daemon's pass.                                                        *)
Become(d, f) == daemon' = [daemon EXCEPT ![d] = f]

(* pollOrders and normalizeOrder.                                          *)
Poll(d) ==
    /\ daemon[d].pc = "poll"
    /\ Become(d, [Idle EXCEPT !.pc = "load", !.order = order])
    /\ UNCHANGED <<order, staged, dir, torn, budget, history>>

(* loadArtifacts up to the first write of executeAction.                   *)
Reconcile(d) ==
    /\ daemon[d].pc = "load"
    /\ LET rec == Action(daemon[d].order)
       IN  Become(d, IF rec = None THEN Idle ELSE [daemon[d] EXCEPT !.pc = "write", !.rec = rec])
    /\ UNCHANGED <<order, staged, dir, torn, budget, history>>

(* appendArtifact: an existing file is reused if it parses; a torn one     *)
(* throws and ends the pass.  An intent goes on to the external call.      *)
StoredLater(rec) == IF rec[1] = "pending" THEN dir ELSE [dir EXCEPT ![rec[1]] = Append(@, rec[2])]
Stored(rec) == IF Contains(dir[rec[1]], rec[2]) THEN dir
               ELSE [dir EXCEPT ![rec[1]] = Append(@, rec[2])]
AppendArtifact(d) ==
    LET rec == daemon[d].rec
    IN  /\ daemon[d].pc = "write"
        /\ dir' = IF rec \in torn THEN dir ELSE Stored(rec)
        /\ Become(d, IF rec[1] = "pending" /\ rec \notin torn
                     THEN [daemon[d] EXCEPT !.pc = "call"] ELSE Idle)
        /\ UNCHANGED <<order, staged, torn, budget, history>>

(* uploadFile sends the bytes of candidate.png as they are at this moment, *)
(* deliver the url of the upload record.                                   *)
Effect(d) ==
    LET p == daemon[d].rec[2]
    IN  IF p.op = "upload"
        THEN /\ uploads' = Append(uploads, [candidate |-> p.ref, asset |-> staged,
                                            for |-> stagedFor])
             /\ UNCHANGED deliveries
        ELSE deliveries' = Append(deliveries, p.ref) /\ UNCHANGED uploads

Completion(p) == IF p.op = "upload"
                 THEN <<"upload", [candidate |-> p.ref, url |-> Len(uploads) + 1]>>
                 ELSE <<"delivery", p.ref>>

CallSucceeds(d) ==
    /\ daemon[d].pc = "call" /\ Effect(d)
    /\ Become(d, [daemon[d] EXCEPT !.pc = "write", !.rec = Completion(daemon[d].rec[2])])
    /\ UNCHANGED <<order, staged, dir, torn, budget, stagedFor>>

CallRefused(d) ==
    /\ daemon[d].pc = "call" /\ Spend("faults", MaxFaults)
    /\ Become(d, Idle)
    /\ UNCHANGED <<order, staged, dir, torn, history>>

(* The call took effect, but no answer came or the daemon died.            *)
CallUnanswered(d) ==
    /\ daemon[d].pc = "call" /\ Effect(d) /\ Spend("faults", MaxFaults)
    /\ Become(d, Idle)
    /\ UNCHANGED <<order, staged, dir, torn, stagedFor>>

Crash(d) ==
    /\ daemon[d].pc # "poll" /\ Spend("faults", MaxFaults)
    /\ Become(d, Idle)
    /\ UNCHANGED <<order, staged, dir, torn, history>>

(* A crash inside writeFileSync.                                           *)
CrashInWrite(d) ==
    /\ daemon[d].pc = "write" /\ Spend("faults", MaxFaults)
    /\ ~Contains(dir[daemon[d].rec[1]], daemon[d].rec[2])
    /\ torn' = torn \cup {daemon[d].rec}
    /\ Become(d, Idle)
    /\ UNCHANGED <<order, staged, dir, history>>

-----------------------------------------------------------------------------
Init ==
    /\ order \in [brief : Briefs, delivered : {FALSE}]
    /\ staged = None /\ stagedFor = None
    /\ dir = [t \in Types |-> <<>>] /\ torn = {}
    /\ daemon = [d \in Daemons |-> Idle]
    /\ budget = [b \in {"changes", "stagings", "faults"} |-> 0]
    /\ uploads = <<>> /\ deliveries = <<>>

Pass(d) == Poll(d) \/ Reconcile(d) \/ AppendArtifact(d) \/ CallSucceeds(d)

Next == \/ \E b \in Briefs : ChangeBrief(b)
        \/ MarkDelivered
        \/ \E a \in Assets : Stage(a)
        \/ \E d \in Daemons : Pass(d) \/ CallRefused(d) \/ CallUnanswered(d)
                              \/ Crash(d) \/ CrashInWrite(d)

(* The daemon's loop polls for ever and its calls are answered.            *)
Fairness == \A d \in Daemons : WF_vars(Pass(d))

Spec     == Init /\ [][Next]_vars
FairSpec == Spec /\ Fairness

-----------------------------------------------------------------------------
Candidates == [request : Briefs, attempt : Nat \ {0}, hash : Assets]
Uploads    == [candidate : Candidates, url : Nat \ {0}]
Intents    == [op : {"upload"}, ref : Candidates] \cup [op : {"deliver"}, ref : Uploads]
Payloads   == [intake |-> Briefs, candidate |-> Candidates, upload |-> Uploads,
               qc |-> [candidate : Candidates, pass : BOOLEAN],
               delivery |-> Uploads, pending |-> Intents]
Of(t)      == {t} \X Payloads[t]
Records    == Of("intake") \cup Of("candidate") \cup Of("qc") \cup Of("upload")
                  \cup Of("delivery") \cup Of("pending")
Polled     == [brief : Briefs, delivered : BOOLEAN]
PassType   == [pc : {"poll", "load", "write", "call"}, order : Polled \cup {NoOrder},
               rec : Records \cup {None}]

(* Types; a daemon has an order to decide on, a record to write, and calls *)
(* for an intent and with a staged file.                                   *)
TypeOK ==
    /\ order \in Polled
    /\ \/ staged = None /\ stagedFor = None
       \/ staged \in Assets /\ stagedFor \in Briefs
    /\ DOMAIN dir = Types /\ \A t \in Types : dir[t] \in Seq(Payloads[t])
    /\ \A rec \in torn : rec \in Records
    /\ daemon \in [Daemons -> PassType]
    /\ \A d \in Daemons :
          /\ daemon[d].pc = "load" => daemon[d].order \in Polled
          /\ daemon[d].pc \in {"write", "call"} => daemon[d].rec \in Records
          /\ daemon[d].pc = "call" => daemon[d].rec[1] = "pending"
          /\ daemon[d].pc \in {"write", "call"} /\ daemon[d].rec[1] = "pending" => staged # None
    /\ uploads \in Seq([candidate : Candidates, asset : Assets, for : Briefs])
    /\ deliveries \in Seq(Uploads)

(* D-0005: upload and delivery intent is recorded before the external      *)
(* call: every effect has its intent on disk, whatever crashed since.      *)
IntentsPrecedeEffects ==
    /\ \A i \in DOMAIN uploads    : Pending("upload", uploads[i].candidate)
    /\ \A i \in DOMAIN deliveries : Pending("deliver", deliveries[i])

(* D-0005: no automatic replay: no candidate is uploaded twice and no      *)
(* upload delivered twice, whatever crashes, failures and torn files.      *)
NoReplay ==
    /\ \A i, j \in DOMAIN uploads    : uploads[i].candidate = uploads[j].candidate => i = j
    /\ \A i, j \in DOMAIN deliveries : deliveries[i] = deliveries[j] => i = j

(* Only candidates whose own QC passed are uploaded, and only uploads      *)
(* whose answer was recorded are delivered.                                *)
OnlyCheckedIsSent ==
    /\ \A i \in DOMAIN uploads :
          Contains(dir["qc"], [candidate |-> uploads[i].candidate, pass |-> TRUE])
    /\ \A i \in DOMAIN deliveries : Contains(dir["upload"], deliveries[i])

(* The order never gets more than one delivery.                            *)
OneDelivery == Len(deliveries) <= 1

(* What the reconciler leaves to the operator: a torn file, an effect of   *)
(* unknown outcome, the cap, a forbidden brief, no usable asset.           *)
AwaitsOperator ==
    \/ torn # {} \/ CapReached \/ order.brief \in Blocked \/ ~Prepared \/ ~Deliverable
    \/ \E i \in DOMAIN dir["pending"] :
          LET p == dir["pending"][i]
          IN  ~(IF p.op = "upload" THEN Uploaded(p.ref) ELSE Contains(dir["delivery"], p.ref))

(* Otherwise the order is delivered.                                       *)
OrdersGetDelivered == ~AwaitsOperator ~> (AwaitsOperator \/ deliveries # <<>>)
=============================================================================
