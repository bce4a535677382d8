----------------------------- MODULE IngressQuota ----------------------------
(***************************************************************************)
(* The middleware of lib/ingress_gateway.mjs: a fixed-window rate limit    *)
(* and a token budget per client key, asked one after the other for every  *)
(* request but /health.  A request is one step.  Tokens are counted in     *)
(* fractions of 1/Window, so the refill of Capacity tokens per Window is   *)
(* exact, which floating point in the code only comes close to.            *)
(***************************************************************************)
EXTENDS Integers, FiniteSetsExt

CONSTANTS
    Keys,      \* rateLimitClientKey
    Window,    \* windowMs, of both
    Limit,     \* the rate limit's max
    Capacity,  \* the budget's max
    Cost,      \* requestCost
    Horizon,   \* the clock stops here
    MaxAsked   \* requests per key

QuotaAssumption ==
    /\ {Window, Limit, Capacity, Cost} \subseteq Nat \ {0}
    /\ Cost <= Capacity  \* otherwise every request is refused, and told to retry
    /\ Horizon \in Nat \ {0} /\ MaxAsked \in Nat

VARIABLES
    now,
    enabled, \* which of the two limits are configured
    rate,    \* rateBuckets: count and resetAt; resetAt 0 when there is none
    prune,   \* nextPruneAt
    budget,  \* budgetBuckets: tokens and updatedAt
    told,    \* Retry-After of the last refusal, as a time; 0 after a request passed
    let,     \* history: how many requests of each key had passed at each time
    asked    \* history: how many requests of each key there were
vars == <<now, enabled, rate, prune, budget, told, let, asked>>

NoBucket == [count |-> 0, resetAt |-> 0]
Full     == [tokens |-> Capacity * Window, updatedAt |-> 0]
NotTold  == [by |-> "none", at |-> 0]

Init ==
    /\ now = 1 /\ prune = 0 /\ enabled \in SUBSET {"rate", "budget"}
    /\ rate = [k \in Keys |-> NoBucket] /\ budget = [k \in Keys |-> Full]
    /\ told = [k \in Keys |-> NotTold]
    /\ let = [k \in Keys |-> [t \in 0 .. Horizon |-> 0]] /\ asked = [k \in Keys |-> 0]

Tick == now < Horizon /\ now' = now + 1 /\ UNCHANGED <<enabled, rate, prune, budget, told, let, asked>>

(* pruneExpiredRateLimitBuckets, once per window.                          *)
Pruned == [k \in Keys |-> IF now >= prune /\ rate[k].resetAt <= now THEN NoBucket ELSE rate[k]]

(* reserveFixedWindowQuota: refused requests count as well.                *)
Counted(k) == IF Pruned[k].resetAt > now THEN [Pruned[k] EXCEPT !.count = @ + 1]
              ELSE [count |-> 1, resetAt |-> now + Window]

(* reserveTokenBudget: the tokens there are now.                           *)
Elapsed(k)        == now - budget[k].updatedAt
Tokens(k)         == Min({Capacity * Window, budget[k].tokens + Capacity * Elapsed(k)})

Wait(k) == -((Tokens(k) - Cost * Window) \div Capacity)

(* One more from now on.                                                   *)
More(f) == [t \in 0 .. Horizon |-> IF t >= now THEN f[t] + 1 ELSE f[t]]

Request(k) ==
    LET counted  == Counted(k)
        inWindow == "rate" \in enabled => counted.count <= Limit
        pays     == "budget" \in enabled => Tokens(k) >= Cost * Window
    IN  /\ asked[k] < MaxAsked /\ asked' = [asked EXCEPT ![k] = @ + 1]
        /\ IF "rate" \in enabled
           THEN /\ rate' = [Pruned EXCEPT ![k] = counted]
                /\ prune' = IF now >= prune THEN now + Window ELSE prune
           ELSE UNCHANGED <<rate, prune>>
        /\ budget' = IF ~inWindow \/ "budget" \notin enabled THEN budget
                     ELSE [budget EXCEPT ![k] =
                            [tokens |-> Tokens(k) - (IF pays THEN Cost * Window ELSE 0),
                             updatedAt |-> now]]
        /\ told' = [told EXCEPT ![k] =
                      IF ~inWindow  THEN [by |-> "rate", at |-> counted.resetAt]
                      ELSE IF ~pays THEN [by |-> "budget", at |-> now + Wait(k)] ELSE NotTold]
        /\ let' = IF inWindow /\ pays THEN [let EXCEPT ![k] = More(@)] ELSE let
        /\ UNCHANGED <<now, enabled>>

Next == Tick \/ \E k \in Keys : Request(k)

Spec == Init /\ [][Next]_vars

-----------------------------------------------------------------------------
TypeOK ==
    /\ now \in 1 .. Horizon /\ prune \in Nat /\ asked \in [Keys -> 0 .. MaxAsked]
    /\ \A k \in Keys : /\ rate[k].count \in Nat /\ rate[k].resetAt \in Nat
                       /\ budget[k].tokens \in 0 .. Capacity * Window /\ budget[k].updatedAt <= now
                       /\ told[k].at \in Nat

Passed(k, first, last) == let[k][last] - let[k][first - 1]

(* In every interval no more gets through than the limit for each window   *)
(* that can begin in it and for one that had begun: pruning and refused    *)
(* requests never cut a live window short.                                 *)
WindowBound ==
    "rate" \in enabled => \A k \in Keys, i, j \in 1 .. Horizon :
       i <= j => Passed(k, i, j) <= Limit * (1 + (j - i + Window - 1) \div Window)

(* In every interval no more is spent than a full budget and its refill.   *)
BudgetBound ==
    "budget" \in enabled => \A k \in Keys, i, j \in 1 .. Horizon :
       i <= j => Cost * Window * Passed(k, i, j) <= Capacity * (Window + j - i)

(* Retry-After is kept: a client that waits as long as it was told is not  *)
(* refused again by the limiter that told it, whatever other clients of    *)
(* the same key were refused meanwhile.                                    *)
RetryAfterIsKept == [][
    \A k \in Keys : (/\ asked'[k] # asked[k]
                     /\ told[k].by # "none" /\ now >= told[k].at)
                    => told'[k].by # told[k].by
    ]_vars
=============================================================================
