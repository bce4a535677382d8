----------------------------- MODULE RoutingPlan -----------------------------
(***************************************************************************)
(* lib/routing_policy.mjs: which tier a request runs at, which of the      *)
(* known routes may serve it (resolveRequirements, planRouting), and the   *)
(* calls made with the plan, which may come much later than the evidence   *)
(* it was made from (executeRoutingPlan).                                  *)
(***************************************************************************)
EXTENDS Integers, Sequences, FiniteSets, FiniteSetsExt, SequencesExt

CONSTANTS
    Evidence,  \* the routes: [adapter, boundary, private, tiers, until, priority]
    Horizon    \* the clock stops here

Tiers   == 0 .. 3
Classes == {"deterministic_status", "chat", "code_review", "code_synthesis", "added"}

RoutingAssumption ==
    /\ \A r \in Evidence :
           /\ r.adapter \in {"local", "cloud"} /\ r.boundary \in {"local", "cloud"}
           /\ r.private \in BOOLEAN /\ r.tiers \subseteq Tiers
           /\ r.until \in Nat /\ r.priority \in Int
    /\ Horizon \in Nat \ {0}

VARIABLES
    now,    \* the clock
    plan,   \* what planRouting returned
    at,     \* how far execution has come: "none", "ready", "calling", "done", "blocked"
    tried,  \* the attempts begun, in order: [route, answer, permits]
    sent    \* history: [route, when], the calls that were made
vars == <<now, plan, at, tried, sent>>

-----------------------------------------------------------------------------
(* DEFAULT_ROUTING_POLICY; extraction and utility have chat's rule,        *)
(* security_review that of code_synthesis.  A class an operator adds gets  *)
(* the authorization of T3 whatever its own rule says (mergeTaskRule).     *)
Rule(min, max, cloud, t3) == [min |-> min, max |-> max, cloud |-> cloud, t3 |-> t3]
Policy == [c \in Classes |->
    CASE c = "deterministic_status" -> Rule(0, 0, FALSE, FALSE)
      [] c = "chat"                 -> Rule(1, 2, TRUE,  FALSE)
      [] c = "code_review"          -> Rule(2, 3, TRUE,  TRUE)
      [] c = "code_synthesis"       -> Rule(2, 3, FALSE, TRUE)
      [] c = "added"                -> Rule(0, 3, TRUE,  TRUE)]

(* A request: "affords" is the highest tier the cost cap pays for,         *)
(* "unsure" that high stakes meet low confidence.  What else bears on the  *)
(* tier: "effort" is the tier of the effort hint, "fast" the highest tier  *)
(* within the latency budget, -1 if there is none.                         *)
RouteRequests == [class : Classes, private : BOOLEAN, affords : Tiers, authorized : BOOLEAN, unsure : BOOLEAN]
Hints    == [effort : Tiers, zero : BOOLEAN, pressed : BOOLEAN, fast : -1 .. 3]

(* Zero cost, then memory pressure, then latency: each may lower the tier  *)
(* the step before it left, and none below the rule's minimum.             *)
Clamped(rule, h) == IF h.zero /\ rule.min = 0 THEN 0 ELSE Min({rule.max, Max({rule.min, h.effort})})
Relieved(rule, h) ==
    IF h.pressed THEN Min({Clamped(rule, h), Max({rule.min, 1})}) ELSE Clamped(rule, h)
TierAsFast(rule, h) == IF h.fast >= 0 THEN Min({Relieved(rule, h), h.fast}) ELSE Relieved(rule, h)
TierOf(rule, h) == IF h.fast >= rule.min THEN Min({Relieved(rule, h), h.fast}) ELSE Relieved(rule, h)

(* routeBoundaryAllowed.                                                   *)
BoundaryAllowed(r, q) ==
    /\ r.adapter = "cloud" => r.boundary = "cloud"
    /\ q.private \/ ~Policy[q.class].cloud => r.boundary = "local"

FreshOnce(r) == r.until > 1
Fresh(r)     == r.until > now
Eligible(r, q, tier) == Fresh(r) /\ (q.private => r.private) /\ tier \in r.tiers /\ BoundaryAllowed(r, q)

(* routeRank: local routes first unless a cloud route's priority is higher *)
(* by more than 100.                                                       *)
Rank(r) == r.priority + (IF r.boundary = "local" THEN 100 ELSE 0)
Best(routes) == {r \in routes : \A s \in routes : Rank(s) <= Rank(r)}

(* The routes a chain c leaves for its place i.                            *)
LeftFor(c, i, able) == able \ {c[j] : j \in 1 .. i - 1}

(* The first two of the eligible routes by rank; those of equal rank are   *)
(* ordered by their names, which are left out: any order may be theirs.    *)
Chains(q, tier) ==
    LET able == {r \in Evidence : Eligible(r, q, tier)}
    IN  {c \in UNION {[1 .. n -> able] : n \in 0 .. 2} :
            /\ Len(c) < 2 => able = ToSet(c)
            /\ \A i \in DOMAIN c : c[i] \in Best(LeftFor(c, i, able))}

(* resolveRequirements refuses a tier that is not authorized or paid for.  *)
Granted(q, tier) ==
    /\ tier = 3 /\ Policy[q.class].t3 => q.authorized
    /\ tier <= q.affords

-----------------------------------------------------------------------------
Init ==
    /\ now = 1 /\ at = "none" /\ tried = <<>> /\ sent = <<>>
    /\ plan = [asked |-> CHOOSE q \in RouteRequests : TRUE, tier |-> 0, chain |-> <<>>,
               handled |-> FALSE, approved |-> FALSE]

Tick == at # "none" /\ now < Horizon /\ now' = now + 1 /\ UNCHANGED <<plan, at, tried, sent>>

(* "fits": the context is within its budget; "handler": there is one for   *)
(* the class.                                                              *)
PlanRouting ==
    /\ at = "none" /\ at' = "ready"
    /\ \E q \in RouteRequests, h \in Hints, fits, handler \in BOOLEAN :
           LET tier    == TierOf(Policy[q.class], h)
               granted == Granted(q, tier) /\ fits
               handled == granted /\ tier = 0 /\ handler
           IN \E chain \in IF granted /\ ~handled THEN Chains(q, tier) ELSE {<<>>} :
                 plan' = [asked |-> q, tier |-> tier, chain |-> chain, handled |-> handled,
                          approved |-> FALSE]
    /\ UNCHANGED <<now, tried, sent>>

(* The checks before the first call, and the handler of a T0 plan, which   *)
(* "works" if it is there and its result is usable; a T0 plan of routes    *)
(* has no handler and is blocked.                                          *)
Execute(approved, works) ==
    /\ at = "ready"
    /\ at' = IF plan.asked.unsure /\ ~approved THEN "blocked"
             ELSE IF plan.chain # <<>> /\ plan.tier # 0 THEN "calling"
             ELSE IF plan.handled /\ works THEN "done" ELSE "blocked"
    /\ plan' = [plan EXCEPT !.approved = approved]
    /\ UNCHANGED <<now, tried, sent>>

Route     == plan.chain[Len(tried) + 1]
Left      == Len(plan.chain) > Len(tried)
GoesOn(more) == IF Len(plan.chain) > Len(tried) + 1 THEN "calling" ELSE "blocked"
Goes(more)   == IF more /\ Len(plan.chain) > Len(tried) + 1 THEN "calling" ELSE "blocked"

(* The evidence has expired since: nothing is sent, and the next route is  *)
(* tried only if permitFallback exists and says so.                        *)
Stale(permits) ==
    /\ at = "calling" /\ Left /\ ~Fresh(Route)
    /\ tried' = Append(tried, [route |-> Route, answer |-> "stale", permits |-> permits])
    /\ at' = Goes(permits = "yes")
    /\ UNCHANGED <<now, plan, sent>>

(* The call succeeds, is answered with something unusable, or throws; a    *)
(* throw is passed over also when there is no permitFallback.              *)
Call(answer, permits) ==
    /\ at = "calling" /\ Left /\ Fresh(Route)
    /\ sent' = Append(sent, [route |-> Route, when |-> now])
    /\ tried' = Append(tried, [route |-> Route, answer |-> answer, permits |-> permits])
    /\ at' = IF answer = "good" THEN "done"
             ELSE Goes(permits = "yes" \/ (answer = "throws" /\ permits = "absent"))
    /\ UNCHANGED <<now, plan>>

(* What a call comes to (validateRouteResult), and permitFallback's answer.*)
Outcomes == {"good", "useless", "throws"}
Permits == {"absent", "yes", "no"}
Next ==
    \/ Tick \/ PlanRouting
    \/ \E approved, works \in BOOLEAN : Execute(approved, works)
    \/ \E permits \in Permits : Stale(permits)
    \/ \E answer \in Outcomes, permits \in Permits : Call(answer, permits)

Spec == Init /\ [][Next]_vars

-----------------------------------------------------------------------------
TypeOK ==
    /\ now \in 1 .. Horizon /\ at \in {"none", "ready", "calling", "done", "blocked"}
    /\ plan.asked \in RouteRequests /\ plan.tier \in Tiers /\ plan.handled \in BOOLEAN /\ plan.approved \in BOOLEAN
    /\ ToSet(plan.chain) \subseteq Evidence
    /\ \A i \in DOMAIN tried : tried[i].route \in Evidence /\ tried[i].permits \in Permits
    /\ \A i \in DOMAIN sent : sent[i].route \in Evidence /\ sent[i].when \in 1 .. now

(* Wherever a request is sent, however late and as the first route or as   *)
(* a fallback: private requests, and classes kept from the cloud, stay     *)
(* within the local boundary; the route's evidence was still good at that  *)
(* moment; the tier is one the class allows, authorized if it is T3, paid  *)
(* for, and approved where the policy was unsure.                          *)
SentWithinBounds ==
    \A i \in DOMAIN sent :
        LET q == plan.asked  r == sent[i].route
        IN  /\ q.private => r.private /\ r.boundary = "local" /\ r.adapter = "local"
            /\ q.class = "code_synthesis" => r.boundary = "local"
            /\ r.until > sent[i].when
            /\ plan.tier \in r.tiers /\ plan.tier \in Policy[q.class].min .. Policy[q.class].max
            /\ plan.tier <= q.affords /\ (plan.tier = 3 => q.authorized)
            /\ q.unsure => plan.approved

(* At most two routes are tried, each once; another is tried only after    *)
(* one that did not serve and may be passed over, and the one that served  *)
(* is the last.                                                            *)
FallbackIsBounded ==
    /\ Len(tried) <= 2 /\ IsInjective([i \in DOMAIN tried |-> tried[i].route])
    /\ \A i \in DOMAIN tried :
           i < Len(tried) => /\ tried[i].answer # "good" /\ tried[i].permits # "no"
                             /\ tried[i].answer # "throws" => tried[i].permits = "yes"
    /\ at = "done" /\ ~plan.handled => tried # <<>> /\ Last(tried).answer = "good"
=============================================================================
