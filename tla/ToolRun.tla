------------------------------- MODULE ToolRun --------------------------------
(***************************************************************************)
(* A tool job from its arrival to its answer: the session receipts of the  *)
(* gateway around a request (lib/ingress_gateway.mjs), the lifecycle hooks *)
(* around the tool (lib/lifecycle_hooks.mjs), the guardrails of its trust  *)
(* zone (lib/tool_guardrails_middleware.mjs), and the fetch with its       *)
(* redirects, pinned addresses and one deadline (lib/tools.mjs).           *)
(*                                                                         *)
(* All receipts go to one file.  Each manager of hooks chains its own: the *)
(* gateway has one for as long as its server lives, every job a fresh one. *)
(* A write that throws may have put its row on file.  A result is reduced  *)
(* to whether there is one, an address to its kind, a zone to what it      *)
(* allows; receipts of the guardrails go with the answer and are left out, *)
(* as are digests and the cleaning of texts.                               *)
(***************************************************************************)
EXTENDS Integers, Sequences, FiniteSetsExt

CONSTANTS
    Jobs,
    Zones,          \* records [max, tools, strict]
    Reachable,      \* kinds of addresses the environment lets tools reach
    MaxRedirects,   \* DIZZY_TOOL_MAX_REDIRECTS
    MaxAsked,       \* bound: timeouts a job may ask for
    MaxFaults       \* bound: writes of receipts that throw

Kinds == {"public", "private", "localhost"}
Tools == {"fetch", "contract"}

ToolAssumption ==
    /\ \A z \in Zones : z.max \in Nat \ {0} /\ z.tools \subseteq Tools /\ z.strict \in BOOLEAN
    /\ "public" \in Reachable /\ Reachable \subseteq Kinds
    /\ {MaxRedirects, MaxAsked, MaxFaults} \subseteq Nat

VARIABLES
    run,        \* of each job: where it is, what it holds
    life,       \* of the server
    receipts,   \* runtime/lifecycle_hooks.jsonl
    previous,   \* of each manager: previousReceiptSha256, as an index into the file
    contacted,  \* history: kinds of addresses that connections were pinned to
    throws      \* writes that have thrown so far

tooling == <<run, life, receipts, previous, contacted, throws>>

Gateways == {<<"gateway", n>> : n \in 0..MaxFaults}
Gateway  == <<"gateway", life>>
Hooks(j) == <<"hooks", j>>

Idle == [pc |-> "new", served |-> FALSE, tool |-> "fetch", zone |-> CHOOSE z \in Zones : TRUE,
         left |-> 0, took |-> 0, hop |-> 0, target |-> {}, ok |-> FALSE]
Over(ok, served) == [Idle EXCEPT !.pc = "over", !.ok = ok, !.served = served]

Init ==
    /\ run = [j \in Jobs |-> Idle] /\ life = 0
    /\ receipts = <<>> /\ previous = [m \in Gateways \cup {Hooks(j) : j \in Jobs} |-> 0]
    /\ contacted = {} /\ throws = 0

Goes(j, to) == run' = [run EXCEPT ![j] = to]
At(j, pc) == run[j].pc = pc

(* emit: the row names the one before it; if the write throws, the next    *)
(* row will name that one again.                                           *)
Row(m, phase, j) == [by |-> m, phase |-> phase, job |-> j, previous |-> previous[m]]
Emits(m, phase, j) ==
    /\ receipts' = Append(receipts, Row(m, phase, j))
    /\ previous' = [previous EXCEPT ![m] = Len(receipts) + 1]
    /\ UNCHANGED throws
EmitThrowsChained(m, phase, j) ==
    /\ throws < MaxFaults /\ throws' = throws + 1
    /\ receipts' \in {receipts, Append(receipts, Row(m, phase, j))}
    /\ previous' = [previous EXCEPT ![m] = Len(receipts) + 1]
EmitThrows(m, phase, j) ==
    /\ throws < MaxFaults /\ throws' = throws + 1
    /\ receipts' \in {receipts, Append(receipts, Row(m, phase, j))}
    /\ UNCHANGED previous

-----------------------------------------------------------------------------
(* ingressGateway: a request whose session receipt cannot be written gets  *)
(* an error.  A worker's job has no session.                               *)
Arrive(j) ==
    /\ At(j, "new")
    /\ \/ /\ Emits(Gateway, "SESSION_START", j)
          /\ Goes(j, [Idle EXCEPT !.pc = "pre", !.served = TRUE])
       \/ /\ EmitThrows(Gateway, "SESSION_START", j)
          /\ Goes(j, Over(FALSE, TRUE))
       \/ /\ Goes(j, [Idle EXCEPT !.pc = "pre"])
          /\ UNCHANGED <<receipts, previous, throws>>
    /\ UNCHANGED <<life, contacted>>

(* The answer of a job: a worker's is done with, a request still has to be *)
(* finished.                                                               *)
Answers(j, ok) ==
    Goes(j, IF run[j].served THEN [Idle EXCEPT !.pc = "finish", !.served = TRUE, !.ok = ok] ELSE Over(ok, FALSE))

(* preToolUse: what it rejects, or cannot put on record, does not run.     *)
PreToolUse(j) ==
    /\ At(j, "pre")
    /\ \/ Emits(Hooks(j), "PRE_REJECTED", j) /\ Answers(j, FALSE)
       \/ Emits(Hooks(j), "PRE_ALLOWED", j) /\ Goes(j, [run[j] EXCEPT !.pc = "guard"])
       \/ \E phase \in {"PRE_REJECTED", "PRE_ALLOWED"} : EmitThrows(Hooks(j), phase, j) /\ Answers(j, FALSE)
    /\ UNCHANGED <<life, contacted>>

(* executeGuardedToolJob, inspectAndSanitizeInput: the zone's tools, paths *)
(* that climb and, where the zone is strict, injections; a timeout clamped *)
(* to the zone's.                                                          *)
Blocked(zone, tool, input) ==
    \/ tool \notin zone.tools \/ input = "traversal"
    \/ zone.strict /\ input = "injection"
TimeoutUnclamped(wanted, zone) == wanted
Timeout(wanted, zone) == Min({wanted, zone.max})
Ran(j, pc) == Goes(j, [Idle EXCEPT !.pc = pc, !.served = run[j].served])
Fails(j)    == Ran(j, "failed")
Succeeds(j) == Ran(j, "succeeded")
Guard(j) ==
    /\ At(j, "guard")
    /\ \E zone \in Zones, tool \in Tools, wanted \in 1..MaxAsked, input \in {"clean", "injection", "traversal"} :
          IF Blocked(zone, tool, input) THEN Fails(j)
          ELSE Goes(j, [run[j] EXCEPT !.pc = "resolve", !.zone = zone, !.tool = tool,
                                      !.left = Timeout(wanted, zone)])
    /\ UNCHANGED <<life, receipts, previous, contacted, throws>>

(* validateExternalUrl: every address of the answer must be allowed; the   *)
(* connection is pinned to a public one if there is any.  A contract's RPC *)
(* is resolved under a timeout of its own.                                 *)
RefusedByFirst(answer) == answer \cap Reachable = {}
Refused(answer) == ~(answer \subseteq Reachable)
Pinned(answer) == IF "public" \in answer THEN {"public"} ELSE answer
SpendsNothing(j, t) == IF run[j].tool = "fetch" THEN [run[j] EXCEPT !.took = @ + t] ELSE run[j]
Spends(j, t) == IF run[j].tool = "fetch" THEN [run[j] EXCEPT !.left = @ - t, !.took = @ + t] ELSE run[j]
Resolve(j) ==
    /\ At(j, "resolve")
    /\ \/ \E t \in 0..run[j].left, answer \in (SUBSET Kinds) \ {{}} :
             /\ ~Refused(answer) /\ (t < run[j].left \/ run[j].tool = "contract")
             /\ Goes(j, [Spends(j, t) EXCEPT !.pc = "request", !.target = Pinned(answer)])
       \/ Fails(j)      \* not a URL, no such name, an address that is refused, too late
    /\ UNCHANGED <<life, receipts, previous, contacted, throws>>

(* requestPinnedUrl, httpGet: what is left of the deadline bounds each     *)
(* request.  A contract is read without a deadline and, over HTTPS, from   *)
(* whatever the name resolves to by then: that is no pinned connection.    *)
Connects(j) == \E kind \in run[j].target : contacted' = contacted \cup {kind}
FollowsLast(j) == run[j].hop <= MaxRedirects
Follows(j) == run[j].hop < MaxRedirects
Request(j) ==
    /\ At(j, "request") /\ run[j].tool = "fetch"
    /\ Connects(j)
    /\ \/ Fails(j)      \* no connection, too long an answer, an error status, no time left
       \/ \E t \in 0..(run[j].left - 1) :
             \/ Succeeds(j)
             \/ /\ Follows(j)
                /\ Goes(j, [Spends(j, t) EXCEPT !.pc = "resolve", !.hop = @ + 1, !.target = {}])
    /\ UNCHANGED <<life, receipts, previous, throws>>

ReadContract(j) ==
    /\ At(j, "request") /\ run[j].tool = "contract"
    /\ Connects(j) \/ UNCHANGED contacted
    /\ Fails(j) \/ Succeeds(j)
    /\ UNCHANGED <<life, receipts, previous, throws>>

-----------------------------------------------------------------------------
(* runWithToolLifecycle: if the receipt of a success cannot be written the *)
(* job has failed, and that is put on record in its turn.                  *)
PostAnswersAnyway(j) ==
    /\ \/ /\ At(j, "succeeded") /\ Answers(j, TRUE)
          /\ Emits(Hooks(j), "POST_SUCCEEDED", j) \/ EmitThrows(Hooks(j), "POST_SUCCEEDED", j)
       \/ /\ At(j, "failed") /\ Answers(j, FALSE)
          /\ Emits(Hooks(j), "POST_FAILED", j) \/ EmitThrows(Hooks(j), "POST_FAILED", j)
    /\ UNCHANGED <<life, contacted>>
PostToolUse(j) ==
    /\ \/ /\ At(j, "succeeded") /\ Emits(Hooks(j), "POST_SUCCEEDED", j) /\ Answers(j, TRUE)
       \/ /\ At(j, "succeeded") /\ EmitThrows(Hooks(j), "POST_SUCCEEDED", j) /\ Fails(j)
       \/ /\ At(j, "failed") /\ Answers(j, FALSE)
          /\ Emits(Hooks(j), "POST_FAILED", j) \/ EmitThrows(Hooks(j), "POST_FAILED", j)
    /\ UNCHANGED <<life, contacted>>

(* A response that is finished ends its session; one whose client went     *)
(* away never is.                                                          *)
Stop(j) ==
    /\ At(j, "finish") /\ Goes(j, Over(run[j].ok, TRUE))
    /\ \/ Emits(Gateway, "STOP", j)
       \/ UNCHANGED <<receipts, previous, throws>>
    /\ UNCHANGED <<life, contacted>>

(* The listener that ends the session throws: nothing catches it, and the  *)
(* server dies with all it was doing.                                      *)
StopThrows(j) ==
    /\ At(j, "finish") /\ EmitThrows(Gateway, "STOP", j)
    /\ life' = life + 1
    /\ run' = [i \in Jobs |-> IF run[i].served /\ ~At(i, "over") THEN Over(run[i].ok, TRUE) ELSE run[i]]
    /\ UNCHANGED contacted

Next == \E j \in Jobs :
    \/ Arrive(j) \/ PreToolUse(j) \/ Guard(j) \/ Resolve(j) \/ Request(j) \/ ReadContract(j)
    \/ PostToolUse(j) \/ Stop(j) \/ StopThrows(j)

Spec == Init /\ [][Next]_tooling

-----------------------------------------------------------------------------
(* A tool is pinned to no address that was not checked for that very hop,  *)
(* redirects included, follows no more of them than it may, and is over    *)
(* within the timeout of its zone.                                         *)
FetchStaysWithin ==
    /\ contacted \subseteq Reachable
    /\ \A j \in Jobs : run[j].hop <= MaxRedirects
                     /\ run[j].took + run[j].left <= run[j].zone.max

(* What has run is on record: nothing runs without a receipt that allowed  *)
(* it, an answer with a result has the receipt of its success and no other,*)
(* and a job that failed ends on record as a success only if two writes    *)
(* threw.                                                                  *)
Own(j) == {i \in DOMAIN receipts : receipts[i].by = Hooks(j)}
Answered(j) == run[j].pc \in {"finish", "over"}
RunsAreOnRecord == \A j \in Jobs :
    /\ ~Answered(j) /\ run[j].pc \notin {"new", "pre"} =>
          \E i \in Own(j) : receipts[i].phase = "PRE_ALLOWED" /\ \A k \in Own(j) : i <= k
    /\ Answered(j) /\ run[j].ok =>
          \E i, k \in DOMAIN receipts : /\ Own(j) = {i, k} /\ i < k
                                        /\ receipts[i].phase = "PRE_ALLOWED"
                                        /\ receipts[k].phase = "POST_SUCCEEDED"
    /\ Answered(j) /\ ~run[j].ok /\ throws < 2 =>
          \A i \in Own(j) : receipts[i].phase = "POST_SUCCEEDED" => \E k \in Own(j) : k > i

(* Every receipt names one of its own manager's before it, or none, and    *)
(* no more of them are passed over by the next than writes have thrown.    *)
Mates(i)    == {k \in 1..(i - 1) : receipts[k].by = receipts[i].by}
PassedOver  == {k \in DOMAIN receipts : \E i \in DOMAIN receipts :
                  k \in Mates(i) /\ (\A l \in Mates(i) : l <= k) /\ receipts[i].previous # k}
ReceiptsAreChained ==
    /\ \A i \in DOMAIN receipts : receipts[i].previous \in Mates(i) \cup {0}
    /\ Cardinality(PassedOver) <= throws
=============================================================================
