----------------------------- MODULE NotifyDrain -----------------------------
(***************************************************************************)
(* Delivery of notifications: the notify list of lib/queue.mjs, the two    *)
(* /notify endpoints of agent_server.mjs and the drains of                 *)
(* scripts/telegram_notify_drain.mjs that poll them.                       *)
(*                                                                         *)
(* A receipt is the hash of an entry, so it is the message itself here:    *)
(* equal entries have equal receipts.  A drain reads the oldest Limit      *)
(* entries, sends them one by one, and then acknowledges the receipts of   *)
(* those that Telegram accepted in one request, which the server may       *)
(* serve after the drain has given up waiting for it.                      *)
(***************************************************************************)
EXTENDS Naturals, Sequences, SequencesExt

CONSTANTS
    Drains,      \* drain processes of one channel
    Messages,    \* entries, up to equality
    Refused,     \* the messages Telegram refuses whenever they are sent
    Limit,       \* DIZZY_NOTIFY_LIMIT
    MaxPushes,   \* how often a message is pushed
    MaxFaults    \* failed sends, lost replies, timeouts and crashes

NotifyAssumption ==
    Refused \subseteq Messages /\ Limit \in Nat \ {0} /\ MaxPushes \in Nat /\ MaxFaults \in Nat

VARIABLES
    queue,      \* the Redis list, oldest first
    drain,      \* each drain's program point, rest of its batch, and receipts
    wire,       \* acknowledge requests sent and not yet served, per drain
    faults,     \* the faults so far
    pushed, delivered, acked  \* history: how often each message was

vars == <<queue, drain, wire, faults, pushed, delivered, acked>>

Idle      == [pc |-> "poll", batch |-> <<>>, receipts |-> <<>>]
None      == [m \in Messages |-> 0]
Count(s, m) == Len(SelectSeq(s, LAMBDA x : x = m))
Fault     == faults < MaxFaults /\ faults' = faults + 1

(* notifyJobDeath: RPUSH. *)
Push(m) ==
    /\ pushed[m] < MaxPushes
    /\ queue'  = Append(queue, m)
    /\ pushed' = [pushed EXCEPT ![m] = @ + 1]
    /\ UNCHANGED <<drain, wire, faults, delivered, acked>>

(* GET /notify/:channel.  A failed request leaves the drain polling.       *)
Fetch(d) ==
    /\ drain[d].pc = "poll" /\ queue # <<>>
    /\ drain' = [drain EXCEPT ![d] =
           [Idle EXCEPT !.pc = "send", !.batch = SubSeq(queue, 1, Min({Limit, Len(queue)}))]]
    /\ UNCHANGED <<queue, wire, faults, pushed, delivered, acked>>

(* The drain after it tried to send the head of its batch.                 *)
AfterSend(f, accepted) ==
    [f EXCEPT !.batch = Tail(@), !.receipts = IF accepted THEN Append(@, Head(f.batch)) ELSE @]

Sending(d) == drain[d].pc = "send" /\ drain[d].batch # <<>>

SendAccepted(d) ==
    /\ Sending(d) /\ Head(drain[d].batch) \notin Refused
    /\ drain'     = [drain EXCEPT ![d] = AfterSend(@, TRUE)]
    /\ delivered' = [delivered EXCEPT ![Head(drain[d].batch)] = @ + 1]
    /\ UNCHANGED <<queue, wire, faults, pushed, acked>>

SendRefused(d) ==
    /\ Sending(d)
    /\ IF Head(drain[d].batch) \in Refused THEN UNCHANGED faults ELSE Fault
    /\ drain' = [drain EXCEPT ![d] = AfterSend(@, FALSE)]
    /\ UNCHANGED <<queue, wire, pushed, delivered, acked>>

(* Telegram has the message, but the drain sees an error.                  *)
SendReplyLost(d) ==
    /\ Sending(d) /\ Head(drain[d].batch) \notin Refused /\ Fault
    /\ drain'     = [drain EXCEPT ![d] = AfterSend(@, FALSE)]
    /\ delivered' = [delivered EXCEPT ![Head(drain[d].batch)] = @ + 1]
    /\ UNCHANGED <<queue, wire, pushed, acked>>

(* A drain that leaves its send loop for program point l.                  *)
Leave(f, l)        == [Idle EXCEPT !.pc = l]

BatchDone(d) ==
    /\ drain[d].pc = "send" /\ drain[d].batch = <<>>
    /\ IF drain[d].receipts = <<>>
       THEN drain' = [drain EXCEPT ![d] = Leave(@, "poll")] /\ UNCHANGED wire
       ELSE /\ drain' = [drain EXCEPT ![d] = Leave(@, "wait")]
            /\ wire'  = [wire EXCEPT ![d] = Append(@, drain[d].receipts)]
    /\ UNCHANGED <<queue, faults, pushed, delivered, acked>>

(* POST /notify/:channel/ack: acknowledgeNotifications takes out one entry *)
(* per receipt, the first equal one.                                       *)
RemoveAllEqual(q, receipts) == SelectSeq(q, LAMBDA m : ~Contains(receipts, m))
RemoveButLast(q, receipts)  == FoldLeft(RemoveFirst, q, Front(receipts))
RemoveReceipts(q, receipts) == FoldLeft(RemoveFirst, q, receipts)

(* Requests of a drain come on connections of their own, in any order; the *)
(* one a drain waits for is its last.                                      *)
ServeAck(d) == \E i \in DOMAIN wire[d] :
    /\ queue' = RemoveReceipts(queue, wire[d][i])
    /\ acked' = [m \in Messages |-> acked[m] + Count(queue, m) - Count(queue', m)]
    /\ wire'  = [wire EXCEPT ![d] = RemoveAt(@, i)]
    /\ drain' = [drain EXCEPT ![d] = IF @.pc = "wait" /\ i = Len(wire[d]) THEN Idle ELSE @]
    /\ UNCHANGED <<faults, pushed, delivered>>

(* The request or its answer is late or lost: the drain polls again.       *)
AckTimeout(d) ==
    /\ drain[d].pc = "wait" /\ Fault
    /\ drain' = [drain EXCEPT ![d] = Idle]
    /\ \/ UNCHANGED wire
       \/ wire[d] # <<>> /\ wire' = [wire EXCEPT ![d] = Front(@)]
    /\ UNCHANGED <<queue, pushed, delivered, acked>>

Crash(d) ==
    /\ drain[d].pc # "poll" /\ Fault
    /\ drain' = [drain EXCEPT ![d] = Idle]
    /\ UNCHANGED <<queue, wire, pushed, delivered, acked>>

Work(d) == \/ Fetch(d) \/ SendAccepted(d) \/ BatchDone(d)
           \/ (SendRefused(d) /\ Head(drain[d].batch) \in Refused)

Init == /\ queue = <<>> /\ drain = [d \in Drains |-> Idle] /\ wire = [d \in Drains |-> <<>>]
        /\ faults = 0 /\ pushed = None /\ delivered = None /\ acked = None

Next == \/ \E m \in Messages : Push(m)
        \/ \E d \in Drains : \/ Fetch(d) \/ SendAccepted(d) \/ SendRefused(d) \/ SendReplyLost(d)
                             \/ BatchDone(d) \/ ServeAck(d) \/ AckTimeout(d) \/ Crash(d)

(* A drain's loop goes on, and the server serves the requests it received. *)
Fairness == \A d \in Drains : WF_vars(Work(d)) /\ WF_vars(ServeAck(d))

Spec     == Init /\ [][Next]_vars
FairSpec == Spec /\ Fairness

-----------------------------------------------------------------------------
(* Types; a drain outside its send loop holds nothing, and inside it holds *)
(* at most one batch.                                                      *)
TypeOK ==
    /\ queue \in Seq(Messages)
    /\ drain \in [Drains -> [pc : {"poll", "send", "wait"}, batch : Seq(Messages),
                             receipts : Seq(Messages)]]
    /\ \A d \in Drains : Len(drain[d].batch) + Len(drain[d].receipts)
                              <= IF drain[d].pc = "send" THEN Limit ELSE 0
    /\ wire \in [Drains -> Seq(Seq(Messages))]
    /\ faults \in 0..MaxFaults
    /\ {pushed, delivered, acked} \subseteq [Messages -> Nat]

(* DESIGN.md 3.1: failures may duplicate but do not silently discard: as   *)
(* many entries of a message as were pushed are in the list or acked, and  *)
(* no more were acked than Telegram accepted, whatever drains overlap,     *)
(* requests arrive late and equal entries there are.                       *)
AckedWereDelivered ==
    TypeOK /\ \A m \in Messages : /\ pushed[m] = Count(queue, m) + acked[m]
                        /\ acked[m] <= delivered[m]

(* An entry is delivered once by each drain that had it in its batch, and *)
(* again only after a fault: a lost reply, a timeout or a crash repeats    *)
(* the entries one drain held, not more.                                   *)
DuplicatesNeedFaults ==
    \A m \in Messages : delivered[m] <= pushed[m] * (Cardinality(Drains) + faults)

(* DESIGN.md 3.1: failed items do not hold up later ones: an entry that    *)
(* Telegram would accept does not stay in the list for ever, and there are *)
(* no more than MaxPushes of each message.                                 *)
AllLeft == \A m \in Messages \ Refused : ~Contains(queue, m)
=============================================================================
