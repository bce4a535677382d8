-------------------------- MODULE ClientContinuity ---------------------------
(***************************************************************************)
(* Retained client conversations: POST /agent/execute with                 *)
(* continuity_mode=client (agent_server.mjs), the turn it takes in         *)
(* lib/dispatch.mjs, and their deletion and expiry in                      *)
(* lib/client_continuity.mjs, by the server and by the operator's command  *)
(* line, which is another process.                                         *)
(*                                                                         *)
(* A server step runs from one wait to the next: a turn starts in the step *)
(* that queues it when nothing is before it, and in the step that ends the *)
(* turn before it otherwise.  The command line interleaves between two     *)
(* file operations; the rename that ends a rewrite is taken with the write.*)
(* A row is a role and the request it stems from.                          *)
(***************************************************************************)
EXTENDS Integers, Sequences, SequencesExt, FiniteSetsExt

CONSTANTS
    Convs, Requests,  \* conversations and the requests made in them
    ConvOf, Tools,    \* the conversation of a request; the requests "tool:..."
    FallsBack,        \* the backend is gemini, with a fallback configured
    GlobalCap,        \* DIZZY_FALLBACK_MAX_CALLS_PER_HOUR, of all conversations
    ConvCap,          \* DIZZY_FALLBACK_MAX_CALLS_PER_CONVERSATION_HOUR
    MaxDeletes,       \* deletions the operator asks for
    MaxEra,           \* how often a conversation is left alone until it expires
    MaxFaults,        \* crashes of the server or the command line
    None

(* Who deletes: the scheduled prune, the DELETE route, the command line.   *)
Deleters == {"prune", "route", "cli"}

ASSUME ContinuityAssumption ==
    /\ ConvOf \in [Requests -> Convs] /\ Tools \subseteq Requests /\ FallsBack \in BOOLEAN
    /\ GlobalCap \in Nat \ {0} /\ ConvCap \in Nat \ {0} /\ MaxEra \in Nat /\ MaxDeletes \in Nat
    /\ MaxFaults \in Nat /\ IsFiniteSet(Convs) /\ None \notin Deleters

VARIABLES
    era,       \* passes when everything so far has become older than the expiry
    req,       \* each request: its stage, the rows counted before it, its era
    queue,     \* conversationWorkQueues: the turns of each conversation
    file,      \* conversations/<key>.jsonl; an absent file is empty
    history,   \* the requests with a row in execution_history.jsonl
    used,      \* the requests whose fallback use was recorded this hour
    due,       \* the prune interval has passed; the prune's timer is set
    deleter,   \* the deletions in progress
    lock,      \* client_continuity_deletions.jsonl.lock
    log,       \* the deletions logged, per conversation
    faults,    \* the crashes so far
    asked,     \* the operator's deletions so far
    hits, erased, victims, overlap  \* history, see below

vars == <<era, req, queue, file, history, used, due, deleter, lock, log, faults,
          asked, hits, erased, victims, overlap>>

(* hits: deletions per conversation that removed something.  erased: the   *)
(* finished requests whose rows were deleted.  victims: requests that had  *)
(* finished in this era when a prune began, and whose rows it removed.     *)
(* overlap: a server step changed a file while the command line was in the *)
(* middle of a deletion.                                                   *)
observed == <<hits, erased, victims>>
deletion == <<deleter, lock, log, asked, hits, erased, victims>>

NoDeletion == [pc |-> "idle", keys |-> <<>>, rows |-> {}, hit |-> FALSE, spared |-> {}]

Init ==
    /\ era = 0 /\ faults = 0 /\ asked = 0 /\ lock = None /\ due = "due"
    /\ req = [r \in Requests |-> [pc |-> "new", before |-> 0, era |-> 0]]
    /\ queue = [c \in Convs |-> <<>>] /\ file = [c \in Convs |-> <<>>]
    /\ history = {} /\ used = {}
    /\ deleter = [d \in Deleters |-> NoDeletion] /\ log = [c \in Convs |-> 0]
    /\ hits = log /\ erased = {} /\ victims = {} /\ overlap = FALSE

Stages == {"new", "queued", "model", "fallback", "tool", "done", "lost"}
InFlight == {r \in Requests : req[r].pc \in {"queued", "model", "fallback", "tool"}}
Row(role, r) == [role |-> role, req |-> r]
Touched == overlap' = (overlap \/ deleter["cli"].pc \in {"read", "write"})

-----------------------------------------------------------------------------
(* A turn (maybeChat): the history is read and the user's row appended,    *)
(* then the model is asked.                                                *)
BeginTurn(f, r) == Append(f, Row("user", r))

(* runConversationSerialized: turns of a conversation one after the other. *)
ClearUnserialized(c) == TRUE
Clear(c) == queue[c] = <<>>

(* runAgentExecute up to its first wait.  The prune is only scheduled, by  *)
(* a timer of 0 ms, and comes after the turn has read its history.         *)
Arrive(r) ==
    LET c == ConvOf[r]
        stage(p) == [req EXCEPT ![r] = [pc |-> p, before |-> Len(file[c]), era |-> era]]
    IN  /\ req[r].pc = "new"
        /\ due' = IF due = "due" THEN "timer" ELSE due
        /\ IF r \in Tools
           THEN req' = stage("tool") /\ UNCHANGED <<queue, file, overlap>>
           ELSE IF Clear(c)
           THEN /\ req' = stage("model")
                /\ queue' = [queue EXCEPT ![c] = Append(@, r)]
                /\ file' = [file EXCEPT ![c] = BeginTurn(@, r)]
                /\ Touched
           ELSE /\ req' = stage("queued")
                /\ queue' = [queue EXCEPT ![c] = Append(@, r)]
                /\ UNCHANGED <<file, overlap>>
        /\ UNCHANGED <<era, history, used, deletion, faults>>

(* The rest of the request, in one step once the turn has its outcome: the *)
(* assistant's row if a model answered; the router receipt; what           *)
(* persistMissingExecuteTranscript finds missing by counting rows, the     *)
(* receipt's included; and the row of the execution history.               *)
Closed(r, answered) ==
    LET f       == file[ConvOf[r]]
                   \o (IF answered THEN <<Row("assistant", r)>> ELSE <<>>)
                   \o <<Row("receipt", r)>>
        written == Len(f) - req[r].before
    IN  f \o (IF written <= 0 THEN <<Row("user", r)>> ELSE <<>>)
          \o (IF written < 2 THEN <<Row("assistant", r)>> ELSE <<>>)

(* ... and the next turn of the conversation starts.                       *)
Rest(r)          == IF r \in Tools THEN queue[ConvOf[r]] ELSE Tail(queue[ConvOf[r]])
NextTurnNever(r) == FALSE
NextTurn(r)      == r \notin Tools /\ Rest(r) # <<>>

Close(r, answered) ==
    LET c    == ConvOf[r]
        n    == Head(Rest(r))
        now  == Closed(r, answered)
        done == [req EXCEPT ![r].pc = "done", ![r].before = 0]
    IN  /\ queue' = [queue EXCEPT ![c] = Rest(r)]
        /\ history' = history \cup {r}
        /\ Touched
        /\ IF NextTurn(r)
           THEN /\ req' = [done EXCEPT ![n].pc = "model"]
                /\ file' = [file EXCEPT ![c] = BeginTurn(now, n)]
           ELSE /\ req' = done /\ file' = [file EXCEPT ![c] = now]
        /\ UNCHANGED <<era, due, deletion, faults>>

(* The model, or the queue asked for a tool job, answers.                  *)
Answers(r) ==
    /\ req[r].pc \in {"model", "tool"}
    /\ Close(r, req[r].pc = "model") /\ UNCHANGED used

(* It fails for good: the error is the reply, no row is written.           *)
Fails(r) ==
    /\ req[r].pc = "model"
    /\ Close(r, FALSE) /\ UNCHANGED used

(* It fails for a while: the fallback is asked, unless a cap is reached.   *)
UsesIn(c)     == Cardinality({r \in used : ConvOf[r] = c})
CappedLate(c) == Cardinality(used) > GlobalCap \/ UsesIn(c) > ConvCap
Capped(c)     == Cardinality(used) >= GlobalCap \/ UsesIn(c) >= ConvCap

FailsOver(r) ==
    /\ FallsBack /\ req[r].pc = "model"
    /\ IF Capped(ConvOf[r])
       THEN Close(r, FALSE) /\ UNCHANGED used
       ELSE /\ req' = [req EXCEPT ![r].pc = "fallback"]
            /\ UNCHANGED <<era, queue, file, history, used, due, deletion, faults, overlap>>

FallbackAnswers(r) ==
    /\ req[r].pc = "fallback"
    /\ used' = used \cup {r}
    /\ Close(r, TRUE)

FallbackFails(r) ==
    /\ req[r].pc = "fallback"
    /\ Close(r, FALSE) /\ UNCHANGED used

-----------------------------------------------------------------------------
(* Deletion: the file, the history's rows, then a row in the deletion log. *)

RowsOfExpired(c) == {r \in history : ConvOf[r] = c /\ req[r].era < era}
RowsOf(c) == {r \in history : ConvOf[r] = c}
Done(c)   == {r \in Requests : ConvOf[r] = c /\ req[r].pc = "done"}

(* The server does the first two at once.  k: the keys still to delete.    *)
DeleteNow(d, k, spared) ==
    LET c   == Head(k)
        hit == file[c] # <<>> \/ RowsOf(c) # {}
    IN  /\ file' = [file EXCEPT ![c] = <<>>]
        /\ history' = history \ RowsOf(c)
        /\ Touched
        /\ erased' = erased \cup Done(c)
        /\ victims' = victims \cup (spared \cap Done(c))
        /\ hits' = [hits EXCEPT ![c] = IF hit THEN @ + 1 ELSE @]
        /\ deleter' = [deleter EXCEPT ![d] =
             IF hit THEN [NoDeletion EXCEPT !.pc = "lock", !.keys = k, !.spared = spared]
             ELSE IF Tail(k) = <<>> THEN NoDeletion
             ELSE [NoDeletion EXCEPT !.pc = "delete", !.keys = Tail(k), !.spared = spared]]
        /\ UNCHANGED <<era, req, queue, used, lock, log, faults>>

DeleteRoute(c) ==
    /\ deleter["route"] = NoDeletion /\ asked < MaxDeletes /\ asked' = asked + 1
    /\ DeleteNow("route", <<c>>, {}) /\ UNCHANGED due

(* pruneExpiredClientContinuity: a conversation is expired by its last     *)
(* history row, or, without any, by the time of its file.                  *)
Old(r) == req[r].era < era
ExpiredByFirst(c) == \E r \in RowsOf(c) : Old(r)
Expired(c) == IF RowsOf(c) # {} THEN \A r \in RowsOf(c) : Old(r)
              ELSE file[c] # <<>> /\ \A i \in DOMAIN file[c] : Old(file[c][i].req)

(* The timer fires.  Which conversations are expired is decided once.      *)
Prune ==
    /\ due = "timer" /\ due' = "no" /\ deleter["prune"] = NoDeletion
    /\ LET k == SetToSeq({c \in Convs : Expired(c)})
       IN  IF k = <<>>
           THEN UNCHANGED <<era, req, queue, file, history, used, deletion, faults, overlap>>
           ELSE DeleteNow("prune", k, {r \in Requests : req[r].pc = "done" /\ ~Old(r)}) /\ UNCHANGED asked

DeleteNext(d) ==
    /\ deleter[d].pc = "delete"
    /\ DeleteNow(d, deleter[d].keys, deleter[d].spared) /\ UNCHANGED <<due, asked>>

(* The command line: each file operation by itself.                        *)
serverOnly == <<era, req, queue, used, due, faults, overlap>>

CliRemoves(c) ==
    /\ deleter["cli"] = NoDeletion /\ asked < MaxDeletes /\ asked' = asked + 1
    /\ deleter' = [deleter EXCEPT !["cli"] =
          [NoDeletion EXCEPT !.pc = "read", !.keys = <<c>>, !.hit = file[c] # <<>>]]
    /\ file' = [file EXCEPT ![c] = <<>>]
    /\ UNCHANGED <<serverOnly, history, lock, log, observed>>

CliReads ==
    /\ deleter["cli"].pc = "read"
    /\ deleter' = [deleter EXCEPT !["cli"].pc = "write", !["cli"].rows = history]
    /\ UNCHANGED <<serverOnly, asked, file, history, lock, log, observed>>

CliRewrites ==
    /\ deleter["cli"].pc = "write"
    /\ LET me  == deleter["cli"]
           c   == Head(me.keys)
           out == {r \in me.rows : ConvOf[r] = c}
       IN  /\ history' = IF out # {} THEN me.rows \ out ELSE history
           /\ erased' = erased \cup Done(c)
           /\ hits' = [hits EXCEPT ![c] = IF me.hit \/ out # {} THEN @ + 1 ELSE @]
           /\ deleter' = [deleter EXCEPT !["cli"] =
                IF me.hit \/ out # {} THEN [NoDeletion EXCEPT !.pc = "lock", !.keys = me.keys]
                ELSE NoDeletion]
    /\ UNCHANGED <<serverOnly, asked, file, lock, log, victims>>

(* appendJsonl under the lock file, which is waited for and never broken.  *)
unlogged == <<serverOnly, asked, file, history, observed>>
LockLog(d) ==
    /\ deleter[d].pc = "lock" /\ lock = None
    /\ lock' = d /\ deleter' = [deleter EXCEPT ![d].pc = "append"]
    /\ UNCHANGED <<unlogged, log>>
AppendLog(d) ==
    /\ deleter[d].pc = "append"
    /\ log' = [log EXCEPT ![Head(deleter[d].keys)] = @ + 1]
    /\ deleter' = [deleter EXCEPT ![d].pc = "unlock"]
    /\ UNCHANGED <<unlogged, lock>>
UnlockLog(d) ==
    /\ deleter[d].pc = "unlock" /\ lock' = None
    /\ LET me   == deleter[d]
           rest == Tail(me.keys)
       IN  deleter' = [deleter EXCEPT ![d] =
             IF rest = <<>> THEN NoDeletion ELSE [me EXCEPT !.pc = "delete", !.keys = rest]]
    /\ UNCHANGED <<unlogged, log>>

(* Five seconds pass on a lock whose owner is gone: the deletion throws.   *)
Abandoned == lock \in Deleters /\ deleter[lock].pc \notin {"append", "unlock"}
LockTimesOutAtOnce(d) ==
    /\ deleter[d].pc = "lock" /\ lock # None
    /\ deleter' = [deleter EXCEPT ![d] = NoDeletion]
    /\ UNCHANGED <<unlogged, lock, log>>
LockTimesOut(d) ==
    /\ deleter[d].pc = "lock" /\ Abandoned
    /\ deleter' = [deleter EXCEPT ![d] = NoDeletion]
    /\ UNCHANGED <<unlogged, lock, log>>

-----------------------------------------------------------------------------
(* Nobody asks for a week: every row is expired, every cap free again.     *)
TimePasses ==
    /\ era < MaxEra /\ InFlight = {} /\ \A d \in Deleters : deleter[d] = NoDeletion
    /\ due # "timer"
    /\ era' = era + 1 /\ due' = "due" /\ used' = {}
    /\ UNCHANGED <<req, queue, file, history, deletion, faults, overlap>>

Crash ==
    /\ faults < MaxFaults /\ faults' = faults + 1
    /\ req' = [r \in Requests |-> IF r \in InFlight THEN [req[r] EXCEPT !.pc = "lost", !.before = 0]
                                  ELSE req[r]]
    /\ queue' = [c \in Convs |-> <<>>] /\ due' = "due"
    /\ deleter' = [d \in Deleters |-> IF d = "cli" THEN deleter[d] ELSE NoDeletion]
    /\ UNCHANGED <<era, file, history, used, lock, log, asked, observed, overlap>>

CliDies ==
    /\ faults < MaxFaults /\ faults' = faults + 1 /\ deleter["cli"] # NoDeletion
    /\ deleter' = [deleter EXCEPT !["cli"] = NoDeletion]
    /\ UNCHANGED <<era, req, queue, used, due, overlap, file, history, lock, log, asked, observed>>

Turn(r)   == Answers(r) \/ Fails(r) \/ FailsOver(r) \/ FallbackAnswers(r) \/ FallbackFails(r)
Delete(d) == DeleteNext(d) \/ LockLog(d) \/ AppendLog(d) \/ UnlockLog(d) \/ LockTimesOut(d)
Cli       == CliReads \/ CliRewrites

Next ==
    \/ \E r \in Requests : Arrive(r) \/ Turn(r)
    \/ \E c \in Convs : DeleteRoute(c) \/ CliRemoves(c)
    \/ \E d \in Deleters : Delete(d)
    \/ Prune \/ Cli \/ TimePasses \/ Crash \/ CliDies

(* Models answer or time out; timers fire; a deletion in progress goes on. *)
Fairness ==
    /\ \A r \in Requests : WF_vars(Turn(r))
    /\ \A d \in Deleters : WF_vars(Delete(d))
    /\ WF_vars(Prune) /\ WF_vars(Cli)

Spec == Init /\ [][Next]_vars /\ Fairness

-----------------------------------------------------------------------------
TypeOK ==
    /\ era \in 0 .. MaxEra /\ faults \in 0 .. MaxFaults /\ due \in {"due", "timer", "no"}
    /\ req \in [Requests -> [pc : Stages, before : Nat, era : 0 .. MaxEra]]
    /\ \A c \in Convs :
          /\ file[c] \in Seq([role : {"user", "assistant", "receipt"}, req : Requests])
          /\ ToSet(queue[c]) = {r \in InFlight \ Tools : ConvOf[r] = c}
          /\ log[c] \in 0 .. hits[c]
    /\ history \cup used \subseteq Requests /\ lock \in Deleters \cup {None}
    /\ \A d \in Deleters : deleter[d].pc = "idle" <=> deleter[d].keys = <<>>

(* The rows of one turn are not torn apart by another turn of the same     *)
(* conversation, however slowly models answer and whatever is deleted      *)
(* meanwhile; only a tool request's rows may come between.                 *)
TurnsAreWhole == TypeOK /\
    \A c \in Convs : \A i, j, k \in DOMAIN file[c] :
       i < j /\ j < k /\ file[c][i].req = file[c][k].req /\ file[c][i].req \notin Tools
          => file[c][j].req \in Tools \cup {file[c][i].req}

(* The execution history holds the finished requests but the deleted ones, *)
(* and nothing deleted comes back, unless a server step came between the   *)
(* file operations of the command line.                                    *)
LedgerIsExact ==
    \/ history = {r \in Requests : req[r].pc = "done"} \ erased
    \/ overlap

(* A prune never deletes a request that had finished in this era when the  *)
(* prune began, although it decides what is expired once and waits for the *)
(* log between two conversations.                                          *)
PruneSparesActive == victims = {} \/ overlap

(* A deletion that removed something is in the deletion log, unless a      *)
(* process died, or it is about to be logged.                              *)
DeletionsOnRecord ==
    \A c \in Convs : log[c] < hits[c] =>
       \/ faults > 0
       \/ \E d \in Deleters : deleter[d].pc \in {"lock", "append"} /\ Head(deleter[d].keys) = c

(* Fallback answers stay within the hourly caps, exactly within that of a  *)
(* conversation, and above the global one by no more than one answer for   *)
(* each other conversation: the cap is read before the call and the use    *)
(* recorded after it.                                                      *)
FallbackWithinCaps ==
    /\ \A c \in Convs : UsesIn(c) <= ConvCap
    /\ Cardinality(used) <= GlobalCap + Cardinality(Convs) - 1

(* Every request that arrived is answered, or lost with the server, though *)
(* it is queued behind others, and no deletion waits for ever, not even on *)
(* the lock of a process that died.                                        *)
WorkEnds == <>[](InFlight = {} /\ \A d \in Deleters : deleter[d] = NoDeletion)
=============================================================================
