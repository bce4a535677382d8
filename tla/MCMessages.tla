----------------------------- MODULE MCMessages ------------------------------
(***************************************************************************)
(* The components that pass messages between processes: the mailbox of the *)
(* agents, the Telegram relay, the drain of notifications and the stream   *)
(* that answers a request.  They share nothing, so one run checks them     *)
(* side by side: the first state picks a part, only its actions happen,    *)
(* and its fairness holds.                                                 *)
(*                                                                         *)
(* Mailbox: a message for every agent, sent again under a fresh nonce, and *)
(* one for the agent "b"; "a" asks for its own messages, "op" for any.     *)
(***************************************************************************)
EXTENDS A2AMailbox

CONSTANTS r1, r2, d1, d2, good, bad, none

VARIABLES
    part,
    arrived, confirmed, lock, file, relay, breakdowns, dispatches, told, overlap,
    list, drain, wire, troubles, pushed, delivered, taken,
    at, frame, terminal, aborted, ended, gap, result, log, unwritten

relaying == <<arrived, confirmed, lock, file, relay, breakdowns, dispatches, told, overlap>>
draining == <<list, drain, wire, troubles, pushed, delivered, taken>>
streaming == <<at, frame, terminal, aborted, ended, gap, result, log, unwritten>>
messaging == <<part, vars, relaying, draining, streaming>>

Envelope(id, nonce, to) == [id |-> id, nonce |-> nonce, to |-> to]
Resent == {Envelope("m1", "n1", "all"), Envelope("m1", "n2", "all"), Envelope("m2", "n3", "b")}
Two    == {"a", "op"}

R == INSTANCE TelegramRelay WITH
        Relays <- {r1, r2}, Kind <- <<"job", "command", "ignored">>, PollJobs <- TRUE, None <- none,
        faults <- breakdowns, dispatched <- dispatches
N == INSTANCE NotifyDrain WITH
        Drains <- {d1, d2}, Messages <- {good, bad}, Refused <- {bad}, Limit <- 3, MaxPushes <- 2,
        queue <- list, faults <- troubles, acked <- taken

S == INSTANCE ExecuteStream WITH StallAbort <- 2, DrainTimeout <- 3, MaxUnwritten <- 2

ASSUME R!RelayAssumption /\ N!NotifyAssumption /\ S!StreamAssumption

-----------------------------------------------------------------------------
OnMail(A)   == part = "mail"   /\ A /\ UNCHANGED <<part, relaying, draining, streaming>>
OnRelay(A)  == part = "relay"  /\ A /\ UNCHANGED <<part, vars, draining, streaming>>
OnDrain(A)  == part = "drain"  /\ A /\ UNCHANGED <<part, vars, relaying, streaming>>
OnStream(A) == part = "stream" /\ A /\ UNCHANGED <<part, vars, relaying, draining>>

MessagesInit ==
    part \in {"mail", "relay", "drain", "stream"} /\ Init /\ R!Init /\ N!Init /\ S!Init

MessagesNext ==
    \/ part = "mail"   /\ Next   /\ UNCHANGED <<part, relaying, draining, streaming>>
    \/ part = "relay"  /\ R!Next /\ UNCHANGED <<part, vars, draining, streaming>>
    \/ part = "drain"  /\ N!Next /\ UNCHANGED <<part, vars, relaying, streaming>>
    \/ part = "stream" /\ S!Next /\ UNCHANGED <<part, vars, relaying, draining>>

(* One condition of each part's fairness together: only one part ever      *)
(* runs, so the weak fairness of their union is that of this part's.       *)
Takes(a, r, d) == OnMail(Dequeue(a, MaxLimit)) \/ OnRelay(R!Start(r)) \/ OnDrain(N!Work(d))
                     \/ OnStream(S!Work)
Ends(a, r, d)  == OnMail(AnyAck(a)) \/ OnRelay(R!Work(r)) \/ OnDrain(N!ServeAck(d))
                     \/ OnStream(S!Tick)
MessagesFairness ==
    /\ WF_messaging(Takes("a", r1, d1)) /\ WF_messaging(Takes("op", r2, d2))
    /\ WF_messaging(Ends("a", r1, d1)) /\ WF_messaging(Ends("op", r2, d2))
    /\ WF_messaging(OnMail(AnyExpiry))

MessagesSpec == MessagesInit /\ [][MessagesNext]_messaging /\ MessagesFairness

-----------------------------------------------------------------------------
(* TelegramRelay, NotifyDrain and ExecuteStream: the offset passes no      *)
(* update silently, no entry leaves the list undelivered, and a stream     *)
(* whose agent has run has a receipt of how it ended, in the right order.  *)
NothingIsPassedOver ==
    R!NoUpdateLost /\ N!AckedWereDelivered /\ S!TypeOK /\ S!EndsAreOnRecord /\ S!ReceiptsAreInOrder

(* TelegramRelay, NotifyDrain and ExecuteStream: what relays dispatch or   *)
(* tell twice, and what drains deliver twice, is bounded by the faults     *)
(* that happened; a stream is called a failure twice only after a stall or *)
(* a client that left.                                                     *)
RepeatsNeedFaults == R!RelaysRepeatOnFaults /\ N!DuplicatesNeedFaults /\ S!FailuresAreToldOnce

(* In the end every message is acknowledged, the offset is past every      *)
(* update, every entry Telegram accepts has left the list, and the stream  *)
(* has come to an end.                                                     *)
EverythingIsDealtWith ==
    <>[](AllProcessed /\ R!AllPassed /\ N!AllLeft /\ (part = "stream" => S!Over))
=============================================================================
