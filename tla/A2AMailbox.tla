----------------------------- MODULE A2AMailbox ------------------------------
(***************************************************************************)
(* The mailbox between agents: A2AMailboxQueue of                          *)
(* lib/a2a_mailbox_bridge.mjs behind the routes of agent_server.mjs.       *)
(*                                                                         *)
(* Every call is one synchronous step of the server.  What interleaves is  *)
(* the agents: envelopes that arrive twice, dequeues, acknowledgements     *)
(* that come late or twice, agents that die with messages in hand, and     *)
(* leases that run out meanwhile.  Whether an envelope's signature is      *)
(* valid does not depend on the state; only valid ones are modelled.       *)
(* Several leases that have run out return to the queue in any order, and  *)
(* a token is the number of times its message was leased.                  *)
(***************************************************************************)
EXTENDS Naturals, Sequences, FiniteSets, SequencesExt

CONSTANTS
    Mail,        \* envelopes [id, nonce, to] of one sender
    Agents,
    NoFilter,    \* the agent that dequeues without a recipientId
    MaxLimit,    \* the largest limit of a dequeue
    MaxFaults    \* early expiries, lost replies and deaths of agents

ASSUME MailAssumption ==
    /\ \A e \in Mail : DOMAIN e = {"id", "nonce", "to"}
    /\ MaxLimit \in Nat \ {0} /\ MaxFaults \in Nat

VARIABLES
    messages,    \* the envelopes stored
    queue,       \* their ids waiting, head first
    leases,      \* [token, expired] of each id that is leased
    seenNonces,
    held,        \* the dispatches [id, token] each agent has in hand
    faults,
    issued, accepted, acked, dispatched
                 \* history: how often each id was leased and each envelope
                 \* accepted, the last dispatch an ack was accepted for, and
                 \* the ids dispatched before

vars == <<messages, queue, leases, seenNonces, held, faults,
          issued, accepted, acked, dispatched>>

MailIds    == {e.id : e \in Mail}
Stored     == {e.id : e \in messages}
Of(id)     == CHOOSE e \in messages : e.id = id
Fault      == faults < MaxFaults /\ faults' = faults + 1
Dispatch(id, token) == [id |-> id, token |-> token]

-----------------------------------------------------------------------------
(* verifyA2AMessageEnvelope and enqueue: the nonce is spent even when the  *)
(* id is then refused as a duplicate.                                      *)
Fresh(e)   == e.nonce \notin seenNonces

Enqueue(e) ==
    /\ Fresh(e)
    /\ seenNonces' = seenNonces \cup {e.nonce}
    /\ IF e.id \in Stored
       THEN UNCHANGED <<messages, queue, accepted, dispatched>>
       ELSE /\ messages'   = messages \cup {e}
            /\ queue'      = Append(queue, e.id)
            /\ accepted'   = [accepted EXCEPT ![e] = @ + 1]
            /\ dispatched' = dispatched \ {e.id}
    /\ UNCHANGED <<leases, held, faults, issued, acked>>

(* _restoreMessageToQueue, for each of some ids.                           *)
Lost(ids)             == {id \in ids : id \in Stored /\ id \notin ToSet(queue)}
RestoredAtTail(back)  == queue \o back
Restored(back)        == back \o queue
Restore(ids)          == {Restored(back) : back \in SetToSeqs(Lost(ids))}

(* pruneExpiredLeases: what the queue may be after it.                     *)
Expired == {id \in DOMAIN leases : leases[id].expired}
Pruned  == Restore(Expired)

(* What a dequeue leases, and what it leaves in the queue q: the first that*)
(* its agent wants, up to the limit, and all others in their order.        *)
Wants(a, id)       == a = NoFilter \/ Of(id).to \in {a, "all"}
Wanted(a, q)       == {i \in DOMAIN q : Wants(a, q[i])}
Batch(a, limit, q) == {q[i] : i \in {j \in Wanted(a, q) : Cardinality(Wanted(a, q) \cap 1 .. j) <= limit}}
Remaining(q, batch) ==
    LET at == {i \in DOMAIN q : q[i] \notin batch}
    IN  [n \in 1 .. Cardinality(at) |-> q[CHOOSE i \in at : Cardinality(at \cap 1 .. i) = n]]

Token(id)     == issued[id] + 1
Lease(batch)  == [id \in (DOMAIN leases \ Expired) \cup batch |->
                     IF id \in batch THEN [token |-> Token(id), expired |-> FALSE] ELSE leases[id]]

Dequeue(a, limit) == \E q \in Pruned :
    LET batch == Batch(a, limit, q)
    IN  /\ queue'  = Remaining(q, batch)
        /\ leases' = Lease(batch)
        /\ held'   = [held EXCEPT ![a] = @ \cup {Dispatch(id, Token(id)) : id \in batch}]
        /\ issued' = [id \in MailIds |-> IF id \in batch THEN Token(id) ELSE issued[id]]
        /\ dispatched' = dispatched \cup batch
        /\ UNCHANGED <<messages, seenNonces, faults, accepted, acked>>

(* acknowledge.                                                            *)
Released(id)     == [i \in DOMAIN leases \ {id} |-> leases[i]]
AcceptsAny(h)    == ~leases[h.id].expired
Accepts(h)       == ~leases[h.id].expired /\ leases[h.id].token = h.token

Acknowledge(a, h) ==
    /\ h \in held[a]
    /\ \/ held' = [held EXCEPT ![a] = @ \ {h}] /\ UNCHANGED faults
       \/ Fault /\ UNCHANGED held                 \* the reply is lost
    /\ \/ /\ h.id \in Expired
          /\ leases' = Released(h.id) /\ queue' \in Restore({h.id})
          /\ UNCHANGED <<messages, acked>>
       \/ /\ h.id \in DOMAIN leases /\ Accepts(h)
          /\ leases' = Released(h.id) /\ messages' = {e \in messages : e.id # h.id}
          /\ acked' = h
          /\ UNCHANGED queue
       \/ /\ h.id \in DOMAIN leases \ Expired => ~Accepts(h)
          /\ h.id \notin Expired
          /\ UNCHANGED <<leases, queue, messages, acked>>
    /\ UNCHANGED <<seenNonces, issued, accepted, dispatched>>

-----------------------------------------------------------------------------
(* Time passes: the lease of a message nobody has in hand runs out for     *)
(* certain, that of a message in hand only when its agent is slow.         *)
Abandoned(id) == \A a \in Agents : Dispatch(id, leases[id].token) \notin held[a]
Expire(id) ==
    /\ ~leases[id].expired
    /\ IF Abandoned(id) THEN UNCHANGED faults ELSE Fault
    /\ leases' = [leases EXCEPT ![id].expired = TRUE]
    /\ UNCHANGED <<messages, queue, seenNonces, held, issued, accepted, acked, dispatched>>

Die(a) ==
    /\ held[a] # {} /\ Fault
    /\ held' = [held EXCEPT ![a] = {}]
    /\ UNCHANGED <<messages, queue, leases, seenNonces, issued, accepted, acked, dispatched>>

Nothing == Dispatch("none", 0)

Init ==
    /\ messages = {} /\ queue = <<>> /\ leases = <<>> /\ seenNonces = {}
    /\ held = [a \in Agents |-> {}] /\ faults = 0 /\ issued = [id \in MailIds |-> 0]
    /\ accepted = [e \in Mail |-> 0] /\ acked = Nothing /\ dispatched = {}

AnyAck(a) == \E h \in held[a] : Acknowledge(a, h)
Next == \/ \E e \in Mail : Enqueue(e)
        \/ \E a \in Agents : \/ \E limit \in 0..MaxLimit : Dequeue(a, limit)
                             \/ AnyAck(a)
                             \/ Die(a)
        \/ \E id \in DOMAIN leases : Expire(id)

(* Agents poll and answer what they received; abandoned leases run out.    *)
AnyExpiry == \E id \in DOMAIN leases : Abandoned(id) /\ Expire(id)
Fairness ==
    /\ \A a \in Agents : WF_vars(Dequeue(a, MaxLimit)) /\ WF_vars(AnyAck(a))
    /\ WF_vars(AnyExpiry)

Spec     == Init /\ [][Next]_vars
FairSpec == Spec /\ Fairness

-----------------------------------------------------------------------------
(* Types; no two agents have the same dispatch in hand.                    *)
TypeOK ==
    /\ messages \subseteq Mail /\ seenNonces \subseteq {e.nonce : e \in Mail}
    /\ queue \in Seq(MailIds)
    /\ issued \in [MailIds -> Nat] /\ accepted \in [Mail -> Nat]
    /\ DOMAIN leases \subseteq MailIds
    /\ \A id \in DOMAIN leases : leases[id] \in [token : 1 .. issued[id], expired : BOOLEAN]
    /\ held \in [Agents -> SUBSET [id : MailIds, token : Nat]]
    /\ \A a \in Agents : \A h \in held[a] : h.token \in 1 .. issued[h.id]
    /\ \A a, b \in Agents : a # b => held[a] \cap held[b] = {}
    /\ faults \in 0 .. MaxFaults /\ dispatched \subseteq MailIds

(* D-0048: a message is recoverable whatever agents die and leases run out *)
(* on it: it waits in the queue once or is leased once, never both, until  *)
(* it is acknowledged.                                                     *)
Conserved ==
    /\ ToSet(queue) \cup DOMAIN leases = Stored
    /\ ToSet(queue) \cap DOMAIN leases = {}
    /\ IsInjective(queue)

(* D-0048: expired leases recover to the head of the queue: no message     *)
(* that was never dispatched stands before a recovered one.                *)
RecoveredFirst ==
    \A i, j \in DOMAIN queue :
        i < j /\ queue[j] \in dispatched => queue[i] \in dispatched

(* D-0048: an acknowledgement must match the lease: a message goes away    *)
(* only for the agent it was dispatched to last, and only while that lease *)
(* runs.                                                                   *)
AckedByHolder ==
    [][\A e \in messages \ messages' :
          /\ e.id \in DOMAIN leases /\ ~leases[e.id].expired
          /\ acked' = Dispatch(e.id, leases[e.id].token)]_vars

(* An envelope is admitted at most once, even after its acknowledgement.   *)
EnvelopeOnce == \A e \in Mail : accepted[e] <= 1

(* Every message is acknowledged in the end; there are only as many as     *)
(* there are envelopes in Mail.                                            *)
AllProcessed == messages = {}

(* The mailbox loses, doubles and reorders nothing.                        *)
MailIsKept == TypeOK /\ Conserved /\ RecoveredFirst /\ EnvelopeOnce
=============================================================================
