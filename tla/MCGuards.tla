------------------------------ MODULE MCGuards -------------------------------
(***************************************************************************)
(* The guards of the server and of model calls: the approval gateway, the  *)
(* A2A boundary, the ingress quota, the cost switch, the two breakers, the *)
(* watchdog, the routing policy, the dispatch of a message's calls and the *)
(* contracts of steps.                                                     *)
(* They share nothing, so one run checks them side by side: the first      *)
(* state picks a part and only its actions happen.  The constants get their*)
(* values in Guards.cfg; GuardProofs proves the properties for all of them.*)
(***************************************************************************)
EXTENDS HitlGateway, TLC

CONSTANTS
    Requests, Age, Capacity,                                         \* of the boundary
    Calls, Threshold, Successes, Cooldown, MaxReports, Horizon,      \* of the breakers
    Keys, Window, RateLimit, BudgetCapacity, Cost, QuotaHorizon, MaxAsked,  \* of the ingress
    Sessions, RequestLimit, SessionLimit, HourLimit, MaxCost, Hour, CostHorizon, MaxResets,
    Actions, MaxSteps, MaxIdentical, MaxStagnant, WatchHorizon,      \* of the watchdog
    Evidence, RouteHorizon,                                          \* of the routing
    Conversations, Configs, Messages, Limit,                         \* of the dispatch
    Steps, Artifacts, Needs, Leaves, NoopThreshold, MaxResults,      \* of the contracts
    None

VARIABLES
    part,
    now, flying, reports,  \* of whichever part has a clock and calls in flight
    cache, verified, passed,
    rate, prune, quota, told, let, asked, enabled,
    state, session, hourly, call, resets, spent, owed,
    route, streak, tripped, healed,
    circuit, opened, proof,
    steps, status, escalates,
    plan, at, tried, sent,
    config, message, pc, role, last, reply, rows, used, calls,
    world, running, late, results, seen, moved, advice, receipt, claim, earned

clock    == <<now, flying, reports>>
boundary == <<cache, verified, passed>>
ingress  == <<rate, prune, quota, told, let, asked, enabled>>
costs    == <<state, session, hourly, call, resets, spent, owed>>
routes   == <<route, streak, tripped, healed>>
provider == <<circuit, opened, proof>>
watched  == <<steps, status, escalates>>
planned  == <<plan, at, tried, sent>>
served   == <<config, message, pc, role, last, reply, rows, used, calls>>
contracts == <<world, running, late, results, seen, moved, advice, receipt, claim, earned>>
guards   == <<vars, part, clock, boundary, ingress, costs, routes, provider, watched, planned, served,
              contracts>>

B  == INSTANCE BoundaryGuard
IQ == INSTANCE IngressQuota WITH
         Limit <- RateLimit, Capacity <- BudgetCapacity, Horizon <- QuotaHorizon, budget <- quota
C  == INSTANCE CostKillSwitch WITH Horizon <- CostHorizon
R  == INSTANCE RouteCircuit
P  == INSTANCE ProviderCircuit
W  == INSTANCE RunawayWatchdog WITH Horizon <- WatchHorizon
RP == INSTANCE RoutingPlan WITH Horizon <- RouteHorizon
D  == INSTANCE ModelDispatch
K  == INSTANCE StepContract

ASSUME GuardsAssumption ==
    /\ B!GuardAssumption /\ IQ!QuotaAssumption /\ C!SwitchAssumption /\ R!RouteAssumption
    /\ P!ProviderAssumption /\ W!WatchdogAssumption /\ RP!RoutingAssumption
    /\ D!DispatchAssumption /\ K!ContractAssumption

-----------------------------------------------------------------------------
(* What Guards.cfg takes for the constants that are more than a number or  *)
(* a few names.                                                            *)
CONSTANTS one, two, k1, k2

Each     == [f \in Faults |-> 1]
Symmetry == Permutations(Checkpoints) \cup Permutations(Payloads)

Signed(nonce, time) == [nonce |-> nonce, at |-> time, genuine |-> TRUE, clean |-> TRUE]
SomeRequests ==
    {Signed("n1", 1), Signed("n1", 3), Signed("n1", 6), Signed("n2", 4), Signed("n3", 5),
     [Signed("n2", 4) EXCEPT !.genuine = FALSE], [Signed("n3", 5) EXCEPT !.clean = FALSE]}

(* A local route whose evidence expires, a cloud route preferred to it, a  *)
(* local model said to be behind a cloud boundary, and a cloud model said  *)
(* to be behind a local one.                                               *)
KnownRoute(adapter, border, private, tiers, until, priority) ==
    [adapter |-> adapter, boundary |-> border, private |-> private, tiers |-> tiers,
     until |-> until, priority |-> priority]
SomeRoutes ==
    {KnownRoute("local", "local", TRUE,  {1, 2},    3, 1),
     KnownRoute("cloud", "cloud", FALSE, {1, 2, 3}, 9, 150),
     KnownRoute("local", "cloud", TRUE,  {0, 1, 2}, 9, 7),
     KnownRoute("cloud", "local", TRUE,  {2},       9, 30)}

(* Gemini with and without a fallback, a compatible server here or in the  *)
(* cloud, the local backend here, on the LAN or misconfigured, and none.   *)
Environment(backend, compat, ollama, lan, utility, fallback) ==
    [backend |-> backend, compat |-> compat, ollama |-> ollama, lan |-> lan,
     utility |-> utility, fallback |-> fallback]
SomeEnvironments ==
    {Environment("gemini", url, "loop", FALSE, u, f) :
        url \in {"none", "loop", "cloud"}, u \in {"none", "compat"}, f \in BOOLEAN} \cup
    {Environment("compat", url, "loop", FALSE, u, TRUE) : url \in {"none", "lan", "cloud"}, u \in {"none", "gemini"}} \cup
    {Environment("local", "none", url, lan, "gemini", TRUE) : url \in {"loop", "lan", "cloud"}, lan \in BOOLEAN} \cup
    {Environment("none", "none", "loop", FALSE, "none", FALSE)}
Message(kind, zone, marked, bound, seat) ==
    [kind |-> kind, zone |-> zone, marked |-> marked, bound |-> bound, seat |-> seat]
SomeMessages ==
    {Message("chat", "private", "none", FALSE, FALSE),    Message("chat", "trusted", "public", FALSE, FALSE),
     Message("chat", "outside", "secret", FALSE, FALSE),  Message("chat", "paid", "none", FALSE, FALSE),
     Message("chat", "trusted", "none", TRUE, FALSE),     Message("chat", "private", "internal", FALSE, TRUE),
     Message("command", "trusted", "public", FALSE, FALSE), Message("command", "private", "public", FALSE, FALSE)}

(* A step that makes an artifact and one that needs it.                    *)
SomeNeeds  == one :> {} @@ two :> {k1}
SomeLeaves == one :> {k1} @@ two :> {k1, k2}

-----------------------------------------------------------------------------
GuardsInit ==
    /\ part \in {"hitl", "boundary", "ingress", "costs", "route", "provider", "watchdog", "routing", "dispatch",
                "contract"}
    /\ Init /\ B!Init /\ IQ!Init /\ C!Init /\ R!Init /\ P!Init /\ W!Init /\ RP!Init /\ D!Init /\ K!Init
    /\ escalates => part = "watchdog"
    /\ enabled # {} => part = "ingress"
    /\ part # "dispatch" => config = (CHOOSE c \in Configs : TRUE) /\ used = 0

GuardsNext ==
    \/ /\ part = "hitl" /\ Next
       /\ UNCHANGED <<part, clock, boundary, ingress, costs, routes, provider, watched, planned, served,
                      contracts>>
    \/ /\ part = "boundary" /\ B!Next
       /\ UNCHANGED <<vars, part, flying, reports, ingress, costs, routes, provider, watched, planned, served,
                      contracts>>
    \/ /\ part = "ingress" /\ IQ!Next
       /\ UNCHANGED <<vars, part, flying, reports, boundary, costs, routes, provider, watched, planned, served,
                      contracts>>
    \/ /\ part = "costs" /\ C!Next
       /\ UNCHANGED <<vars, part, flying, reports, boundary, ingress, routes, provider, watched, planned, served,
                      contracts>>
    \/ /\ part = "route" /\ R!Next
       /\ UNCHANGED <<vars, part, boundary, ingress, costs, provider, watched, planned, served,
                      contracts>>
    \/ /\ part = "provider" /\ P!Next
       /\ UNCHANGED <<vars, part, boundary, ingress, costs, routes, watched, planned, served,
                      contracts>>
    \/ /\ part = "watchdog" /\ W!Next
       /\ UNCHANGED <<vars, part, clock, boundary, ingress, costs, routes, provider, planned, served,
                      contracts>>
    \/ /\ part = "routing" /\ RP!Next
       /\ UNCHANGED <<vars, part, flying, reports, boundary, ingress, costs, routes, provider, watched, served, contracts>>
    \/ /\ part = "dispatch" /\ D!Next
       /\ UNCHANGED <<vars, part, clock, boundary, ingress, costs, routes, provider, watched, planned, contracts>>
    \/ /\ part = "contract" /\ K!Next
       /\ UNCHANGED <<vars, part, clock, boundary, ingress, costs, routes, provider, watched, planned, served>>

GuardsSpec == GuardsInit /\ [][GuardsNext]_guards

-----------------------------------------------------------------------------
On(p, inv) == part = p => inv

(* HitlGateway: the audit log breaks its chain and misses a decision only  *)
(* after a fault.  BoundaryGuard: a signed request is let through once,    *)
(* and only signed requests use up a nonce.  ModelDispatch: no call made   *)
(* for a private message leaves the machine and its LAN, and a reply       *)
(* describes the call its text came from or none.  StepContract: a receipt *)
(* that says all passed is complete, failures are classed, and a claim     *)
(* stands no higher than what it was shown.                                *)
BoundaryHolds ==
    /\ TypeOK /\ ChainHolds /\ AuditGapsNeedFaults
    /\ On("boundary", B!TypeOK /\ B!PassedOnce /\ B!NoncesWereSigned)
    /\ On("dispatch", D!TypeOK /\ D!StaysLocal /\ D!ReplyDescribesItsCall)
    /\ On("contract", K!PassIsComplete /\ K!FailuresAreClassed /\ K!ClaimsAreEarned)

(* What passes stays within the limits of every window and interval, and   *)
(* what is spent within those of sessions and hours, but for the calls     *)
(* that can be in flight at once; nothing runs away before it is stopped,  *)
(* what is stopped has run away, and no breaker opens without a streak of  *)
(* failures; the calls made with a plan, and their fallbacks, keep to what *)
(* it grants; and steps that move nothing are stopped when they should be. *)
LimitsHold ==
    /\ On("ingress",  IQ!TypeOK /\ IQ!WindowBound /\ IQ!BudgetBound)
    /\ On("costs",    C!TypeOK /\ C!SessionWithin /\ C!HourWithin)
    /\ On("watchdog", W!TypeOK /\ W!StoppedInTime /\ W!StopsHaveReasons)
    /\ On("route",    R!TypeOK /\ R!TripsNeedStreak)
    /\ On("provider", P!TypeOK)
    /\ On("routing",  RP!TypeOK /\ RP!SentWithinBounds /\ RP!FallbackIsBounded)
    /\ On("dispatch", D!FallbacksWithin)
    /\ On("contract", K!SentinelIsExact)

(* Whoever waits as told gets what it waited for, and nobody gets it       *)
(* sooner: Retry-After is kept, nothing is tried during a cooldown, and a  *)
(* circuit closes only on the successes it asks for.                       *)
WaitsAreKept == IQ!RetryAfterIsKept /\ R!CooldownHolds /\ P!CooldownHolds /\ P!ClosesOnProof
=============================================================================
