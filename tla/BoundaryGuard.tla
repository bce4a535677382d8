---------------------------- MODULE BoundaryGuard ----------------------------
(***************************************************************************)
(* lib/a2a_boundary_guard.mjs: the guard in front of POST                  *)
(* /api/a2a/incoming.  It lets a signed request through once: a timestamp  *)
(* that is too old or too far ahead is refused, and the nonces of requests *)
(* that were verified are kept until no copy could pass the timestamp      *)
(* check.  The network delivers any request any number of times.           *)
(***************************************************************************)
EXTENDS Integers, FiniteSets, FiniteSetsExt

CONSTANTS
    Requests,  \* [nonce, at, genuine, clean]: signed for the time "at" or forged; its body can be sanitised
    Age,       \* maxTimestampAgeMs
    Capacity,  \* maxNonceCacheEntries
    Horizon    \* the clock stops here

GuardAssumption ==
    /\ \A m \in Requests : m.at \in Nat /\ m.genuine \in BOOLEAN /\ m.clean \in BOOLEAN
    /\ Age \in Nat /\ Capacity \in Nat /\ Horizon \in Nat \ {0}

VARIABLES
    now,       \* the server's clock
    cache,     \* nonceCache: [nonce, expires]
    verified,  \* history: the requests whose nonces were kept
    passed     \* history: how often each request was let through
vars == <<now, cache, verified, passed>>

Init == now = 1 /\ cache = {} /\ verified = {} /\ passed = [m \in Requests |-> 0]

Tick == now < Horizon /\ now' = now + 1 /\ UNCHANGED <<cache, verified, passed>>

Stale(m) == now - m.at > Age \/ m.at - now > Age

(* pruneExpiredNonces.                                                     *)
Pruned    == {e \in cache : e.expires >= now}

(* rememberNonce: a request signed ahead of the clock stays fresh longer.  *)
ExpiresFromNow(m) == now + Age
ExpiresAt(m)      == Max({now, m.at}) + Age

Knows(m) == \E e \in Pruned : e.nonce = m.nonce

(* The nonce is kept only once the signature is verified; a full cache     *)
(* throws, and the request is refused.  So is one whose body               *)
(* sanitizePromptInjection throws on, but its nonce has been kept by then. *)
Admits(m)       == m.genuine /\ Cardinality(Pruned) < Capacity

Receive(m) ==
    /\ ~Stale(m)
    /\ IF Admits(m) /\ ~Knows(m)
       THEN /\ cache' = Pruned \cup {[nonce |-> m.nonce, expires |-> ExpiresAt(m)]}
            /\ verified' = verified \cup {m}
            /\ passed' = IF m.clean THEN [passed EXCEPT ![m] = @ + 1] ELSE passed
       ELSE cache' = Pruned /\ UNCHANGED <<verified, passed>>
    /\ UNCHANGED now

Next == Tick \/ \E m \in Requests : Receive(m)

Spec == Init /\ [][Next]_vars

-----------------------------------------------------------------------------
TypeOK ==
    /\ now \in 1 .. Horizon /\ passed \in [Requests -> Nat] /\ verified \subseteq Requests
    /\ \A e \in cache : e.expires \in Nat /\ e.nonce \in {m.nonce : m \in Requests}

(* A signed request is let through once, however often and late copies of  *)
(* it arrive, whatever has been pruned and wherever the sender's clock was *)
(* within the tolerance.                                                   *)
PassedOnce == \A m \in Requests : passed[m] <= 1

(* Only a signed request uses up its nonce, and it is let through unless   *)
(* its body cannot be sanitised: a forged request under the same nonce     *)
(* does not make the genuine one a replay.                                 *)
NoncesWereSigned ==
    /\ \A e \in cache : \E m \in verified : m.nonce = e.nonce
    /\ \A m \in verified : m.genuine /\ (m.clean => passed[m] > 0)
    /\ \A m \in Requests : passed[m] > 0 => m \in verified /\ m.clean
=============================================================================
