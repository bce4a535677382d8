--------------------------- MODULE TelegramRelay -----------------------------
(***************************************************************************)
(* scripts/telegram_relay.mjs: relay processes that long-poll Telegram for *)
(* updates, hand them to the server's /dispatch/incoming and send the      *)
(* answer back, with the update offset in a file and a lock file that is   *)
(* meant to keep a second relay from running.                              *)
(*                                                                         *)
(* A step ends where the relay waits: for Telegram, for the server, or     *)
(* between two calls on the lock file that another starter can come        *)
(* between.  A process id is reused only when the lock does not name it,   *)
(* so a pid in the lock is alive iff that relay is running.                *)
(***************************************************************************)
EXTENDS Naturals, FiniteSets, Sequences, FiniteSetsExt

CONSTANTS
    Relays,     \* relay processes
    Kind,       \* of each update 1 .. Len(Kind): "chat", "job", "command", "ignored"
    PollJobs,   \* TELEGRAM_POLL_JOB_RESULTS
    MaxFaults,  \* crashes, stops, failed requests, lost replies and failed saves
    None

RelayAssumption ==
    /\ Kind \in Seq({"chat", "job", "command", "ignored"})
    /\ PollJobs \in BOOLEAN /\ MaxFaults \in Nat /\ None \notin Relays

VARIABLES
    arrived,    \* Telegram: how many updates it has
    confirmed,  \* Telegram: updates it will not show again
    lock,       \* telegram_relay.lock: None, "empty", or a relay
    file,       \* telegram_offset.json
    relay,      \* each relay's program point, offset and batch
    faults,     \* the faults so far
    dispatched, \* history: how often the server got each update
    told,       \* history: updates whose chat got an answer or an error
    overlap     \* history: two relays were starting at once

vars == <<arrived, confirmed, lock, file, relay, faults, dispatched, told, overlap>>

Updates  == DOMAIN Kind
Down     == [pc |-> "down", offset |-> 0, batch |-> <<>>]
Starting == {"wrote", "inspect", "overwrite"}
Running  == {"poll", "begin", "reply", "job", "summary", "error", "save", "saveError"}

Init ==
    /\ arrived = 0 /\ confirmed = 0 /\ lock = None /\ file = 0 /\ faults = 0
    /\ relay = [r \in Relays |-> Down] /\ overlap = FALSE
    /\ dispatched = [u \in Updates |-> 0] /\ told = {}

Fault   == faults < MaxFaults /\ faults' = faults + 1
At(r, p)  == relay[r].pc = p
To(r, p)  == [relay EXCEPT ![r].pc = p]
Alive(p)  == p \in Relays /\ relay[p].pc # "down"
telegram  == <<arrived, confirmed>>
history   == <<dispatched, told>>

Arrive ==
    /\ arrived < Len(Kind) /\ arrived' = arrived + 1
    /\ UNCHANGED <<confirmed, lock, file, relay, faults, history, overlap>>

-----------------------------------------------------------------------------
(* acquireSingleInstanceLock                                               *)

(* Open with "wx": the file is created empty, or it exists.                *)
Open(r) ==
    /\ At(r, "down") /\ lock # r
    /\ IF lock = None THEN lock' = "empty" /\ relay' = To(r, "wrote")
                      ELSE relay' = To(r, "inspect") /\ UNCHANGED lock
    /\ overlap' = (overlap \/ \E s \in Relays \ {r} : relay[s].pc \in Starting)
    /\ UNCHANGED <<telegram, file, faults, history>>

(* Into the main loop, at the offset in the file.                          *)
Loaded(r) == [relay EXCEPT ![r] = [pc |-> "poll", offset |-> file, batch |-> <<>>]]

WriteLock(r) ==
    /\ At(r, "wrote")
    /\ lock' = r /\ relay' = Loaded(r)
    /\ UNCHANGED <<telegram, file, faults, history, overlap>>

(* The pid in an existing lock: its process is running and this one exits, *)
(* or it is not (an empty file holds pid 0) and the lock is stale.         *)
InspectTrustsEmpty(r) ==
    /\ At(r, "inspect")
    /\ relay' = IF Alive(lock) \/ lock = "empty" THEN [relay EXCEPT ![r] = Down] ELSE To(r, "overwrite")
    /\ UNCHANGED <<telegram, lock, file, faults, history, overlap>>
Inspect(r) ==
    /\ At(r, "inspect")
    /\ relay' = IF Alive(lock) THEN [relay EXCEPT ![r] = Down] ELSE To(r, "overwrite")
    /\ UNCHANGED <<telegram, lock, file, faults, history, overlap>>

Overwrite(r) ==
    /\ At(r, "overwrite")
    /\ lock' = r /\ relay' = Loaded(r)
    /\ UNCHANGED <<telegram, file, faults, history, overlap>>

(* SIGTERM: cleanup removes the lock if it still names this process.       *)
Stop(r) ==
    /\ relay[r].pc \in Running /\ Fault
    /\ lock' = IF lock = r THEN None ELSE lock
    /\ relay' = [relay EXCEPT ![r] = Down]
    /\ UNCHANGED <<telegram, file, history, overlap>>

Crash(r) ==
    /\ relay[r].pc # "down" /\ Fault
    /\ relay' = [relay EXCEPT ![r] = Down]
    /\ UNCHANGED <<telegram, lock, file, history, overlap>>

-----------------------------------------------------------------------------
(* telegramGetUpdates: an offset confirms every update below it; offset 0  *)
(* is not sent.                                                            *)
Poll(r) ==
    /\ At(r, "poll")
    /\ LET known == Max({confirmed, relay[r].offset - 1, 0})
           first == Max({known + 1, relay[r].offset})
       IN  /\ confirmed' = IF relay[r].offset = 0 THEN confirmed ELSE known
           /\ first <= arrived
           /\ relay' = [relay EXCEPT ![r].pc = "begin",
                          ![r].batch = [i \in 1 .. (arrived - first + 1) |-> first + i - 1]]
    /\ UNCHANGED <<arrived, lock, file, faults, history, overlap>>

Update(r) == Head(relay[r].batch)

(* The update is dealt with: the next one, or the next poll.               *)
NextUpdate(f) ==
    IF Len(f.batch) > 1 THEN [f EXCEPT !.pc = "begin", !.batch = Tail(@)]
                        ELSE [f EXCEPT !.pc = "poll", !.batch = <<>>]
Break(f)      == [f EXCEPT !.pc = "poll", !.batch = <<>>]

(* processTelegramUpdate: an update from a chat that is not allowed or     *)
(* without a text is passed over; a command is answered by the relay.      *)
Begin(r) ==
    /\ At(r, "begin")
    /\ \/ Kind[Update(r)] = "ignored" /\ relay' = To(r, "save")
       \/ Kind[Update(r)] = "command" /\ relay' = To(r, "reply")
    /\ UNCHANGED <<telegram, lock, file, faults, history, overlap>>

(* dizzyDispatch: the server has the message; its answer comes, or not     *)
(* within the 20 s the relay waits.                                        *)
Dispatch(r) ==
    /\ At(r, "begin") /\ Kind[Update(r)] \in {"chat", "job"}
    /\ dispatched' = [dispatched EXCEPT ![Update(r)] = @ + 1]
    /\ \/ relay' = To(r, "reply") /\ UNCHANGED faults
       \/ relay' = To(r, "error") /\ Fault
    /\ UNCHANGED <<telegram, lock, file, told, overlap>>

(* The request fails before anything happens: the server is not reached,   *)
(* or a command's page cannot be fetched.                                  *)
RequestFails(r) ==
    /\ relay[r].pc \in {"begin", "job"} /\ Kind[Update(r)] # "ignored" /\ Fault
    /\ relay' = To(r, "error")
    /\ UNCHANGED <<telegram, lock, file, history, overlap>>

(* telegramSendMessage of the reply or the job's summary: accepted;        *)
(* accepted but seen as an error; or refused.                              *)
AfterReply(u) == IF Kind[u] = "job" /\ PollJobs THEN "job" ELSE "save"
SendAnswer(r) ==
    /\ relay[r].pc \in {"reply", "summary"}
    /\ \/ /\ told' = told \cup {Update(r)} /\ UNCHANGED faults
          /\ relay' = To(r, IF At(r, "reply") THEN AfterReply(Update(r)) ELSE "save")
       \/ told' = told \cup {Update(r)} /\ Fault /\ relay' = To(r, "error")
       \/ Fault /\ relay' = To(r, "error") /\ UNCHANGED told
    /\ UNCHANGED <<telegram, lock, file, dispatched, overlap>>

(* pollJobUntilDone: a terminal status, or the timeout; both are told.     *)
JobPolled(r) ==
    /\ At(r, "job") /\ relay' = To(r, "summary")
    /\ UNCHANGED <<telegram, lock, file, faults, history, overlap>>

(* The error reply; when it cannot be sent either, the batch is dropped    *)
(* with the offset before this update.                                     *)
AfterErrorSkips(f) == NextUpdate([f EXCEPT !.offset = Head(f.batch) + 1])
AfterError(f)      == Break(f)
SendError(r) ==
    /\ At(r, "error")
    /\ \/ told' = told \cup {Update(r)} /\ relay' = To(r, "saveError") /\ UNCHANGED faults
       \/ /\ Fault /\ relay' = [relay EXCEPT ![r] = AfterError(@)]
          /\ \/ told' = told \cup {Update(r)}
             \/ UNCHANGED told
    /\ UNCHANGED <<telegram, lock, file, dispatched, overlap>>

(* The offset moves past the update and is saved; a save that fails after  *)
(* a success is answered like any other error.                             *)
MovedNot(f)   == f
Moved(f)      == [f EXCEPT !.offset = Max({f.offset, Head(f.batch) + 1})]
Save(r) ==
    /\ relay[r].pc \in {"save", "saveError"}
    /\ LET moved == Moved(relay[r])
       IN  \/ /\ file' = moved.offset /\ relay' = [relay EXCEPT ![r] = NextUpdate(moved)]
              /\ UNCHANGED faults
           \/ /\ Fault /\ UNCHANGED file
              /\ relay' = [relay EXCEPT ![r] = IF At(r, "save") THEN [moved EXCEPT !.pc = "error"]
                                                                ELSE Break(moved)]
    /\ UNCHANGED <<telegram, lock, history, overlap>>

Start(r) == Open(r) \/ WriteLock(r) \/ Inspect(r) \/ Overwrite(r)
Work(r)  == \/ Poll(r) \/ Begin(r) \/ Dispatch(r) \/ SendAnswer(r) \/ JobPolled(r)
            \/ SendError(r) \/ Save(r)

Next == \/ Arrive
        \/ \E r \in Relays : Start(r) \/ Work(r) \/ RequestFails(r) \/ Stop(r) \/ Crash(r)

(* A relay's loop goes on, and somebody starts a relay when none is up.    *)
Fairness == \A r \in Relays : WF_vars(Start(r)) /\ WF_vars(Work(r))

Spec == Init /\ [][Next]_vars /\ Fairness

-----------------------------------------------------------------------------
Up == {r \in Relays : relay[r].pc \in Running}

TypeOK ==
    /\ arrived \in 0 .. Len(Kind) /\ confirmed \in 0 .. Len(Kind)
    /\ lock \in Relays \cup {None, "empty"} /\ file \in 0 .. Len(Kind) + 1
    /\ relay \in [Relays -> [pc : {"down"} \cup Starting \cup Running,
                             offset : 0 .. Len(Kind) + 1, batch : Seq(Updates)]]
    /\ faults \in 0 .. MaxFaults
    /\ dispatched \in [Updates -> Nat] /\ told \subseteq Updates /\ overlap \in BOOLEAN

(* The offset in the file, or the one a relay would poll with, is past u.  *)
Passed(u) == u < file \/ \E r \in Relays : u < relay[r].offset

(* No update is passed over silently: one that the offset or Telegram has  *)
(* left behind was answered, with its answer or with an error, however     *)
(* many relays run and wherever they died.                                 *)
NoUpdateLost ==
    \A u \in Updates : Passed(u) \/ u <= confirmed => u \in told \/ Kind[u] = "ignored"

(* The server gets an update twice only because a request or save failed,  *)
(* a relay died, or two relays are up, which get it once each.             *)
DispatchesNeedFaults ==
    \A u \in Updates : dispatched[u] <= faults + (IF overlap THEN Cardinality(Relays) ELSE 1)

(* Two relays are up only if two were starting at once: the lock keeps out *)
(* a relay started later, whoever crashed or was stopped before.           *)
OneRelay == Cardinality(Up) > 1 => overlap

(* The offset passes every update in the end although relays crash and     *)
(* calls fail.                                                             *)
AllPassed == \A u \in 1 .. arrived : Passed(u)

(* What the relays do twice is accounted for by faults.                    *)
RelaysRepeatOnFaults == TypeOK /\ DispatchesNeedFaults /\ OneRelay
=============================================================================
