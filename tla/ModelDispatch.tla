---------------------------- MODULE ModelDispatch ----------------------------
(***************************************************************************)
(* The model calls of a message (maybeChat in lib/dispatch.mjs): which     *)
(* provider its chat turn, the fallback after it, the memory written from  *)
(* it and the utility commands are sent to, and what the reply says of it. *)
(* Several conversations are served at once; a conversation's messages     *)
(* follow one another, so one message of each is modelled.                 *)
(***************************************************************************)
EXTENDS Integers, Sequences, FiniteSets

CONSTANTS
    Conversations,
    Configs,   \* the environment variables: [backend, compat, ollama, lan, utility, fallback]
    Messages,  \* what may arrive: [kind, zone, marked, bound, seat]
    Limit      \* DIZZY_FALLBACK_MAX_CALLS_PER_HOUR

(* A URL is unset, or its host loopback, on a private LAN or anywhere else.*)
(* "bound" is a runtime context asking for a local boundary.               *)
Urls == {"none", "loop", "lan", "cloud"}
DispatchAssumption ==
    /\ \A c \in Configs :
           /\ c.backend \in {"none", "gemini", "compat", "local"} /\ c.utility \in {"none", "gemini", "compat"}
           /\ c.compat \in Urls /\ c.ollama \in Urls \ {"none"} /\ c.lan \in BOOLEAN /\ c.fallback \in BOOLEAN
    /\ \A m \in Messages :
           /\ m.kind \in {"chat", "command"} /\ m.zone \in {"private", "trusted", "outside", "paid"}
           /\ m.marked \in {"none", "public", "secret", "internal"}
           /\ m.bound \in BOOLEAN /\ m.seat \in BOOLEAN
    /\ Limit \in Nat

VARIABLES
    config,   \* read from the environment, the same throughout
    message,  \* the message of each conversation, once it is there
    pc,       \* "new", "calling", "waiting" or "done"
    role,     \* of the call it is at: "chat", "fallback", "remember", "command"
    last,     \* lastRoutingPolicyRecord: the role of the call it describes, or "none"
    reply,    \* [from, meta]: the call its text is from, or "unusable"; the call its metadata describes
    rows,     \* what the message added to the conversation's log
    used,     \* fallback uses recorded in the last hour
    calls     \* history: [of, role, place], what was sent to which provider
vars == <<config, message, pc, role, last, reply, rows, used, calls>>

-----------------------------------------------------------------------------
Local == {"loop", "lan"}

(* A selected seat is a local model; DIZZY_CHAT_BACKEND=local is Ollama    *)
(* behind the OpenAI-compatible client.                                    *)
Backend(m)     == IF m.seat \/ config.backend = "local" THEN "compat" ELSE config.backend
Url(m)         == IF m.seat \/ config.backend = "local" THEN config.ollama ELSE config.compat
RouteBackend(m, r) ==
    CASE r = "fallback" -> "compat"
      [] r \in {"remember", "command"} /\ Backend(m) = config.backend /\ ~m.seat /\ config.utility # "none"
            -> config.utility
      [] OTHER -> Backend(m)
Place(backend, url) == IF backend = "gemini" THEN "cloud" ELSE url
Reach(m, r)    == Place(RouteBackend(m, r), Url(m))
Remote(place)  == place \notin Local

(* evaluateLocalIsolationPolicy over getTrustZoneCapabilities.             *)
Isolated(m) == config.backend = "local" \/ m.zone = "private" \/ m.marked = "internal" \/ m.bound

(* normalizeRoutingSensitivity, and what the routing policy grants the one *)
(* route it is given (see RoutingPlan).                                    *)
Internal(m) == m.marked \in {"secret", "internal"} \/ (m.marked = "none" /\ m.zone \in {"private", "trusted"})
PermitsZone(m, place) == Remote(place) => m.zone # "private"
Permits(m, place)     == Remote(place) => m.zone # "private" /\ ~Internal(m)

Durable(m)   == m.zone \in {"private", "trusted"}
Ephemeral(m) == m.zone = "paid"

(* A seat needs Ollama on loopback, or on the LAN if that is allowed, as   *)
(* does the local backend; commands need no seat and a zone with memory.   *)
Unconfigured(m) == Backend(m) = "none" \/ (Backend(m) = "compat" /\ Url(m) = "none")
Reachable == config.ollama = "loop" \/ (config.ollama = "lan" /\ config.lan)
Unserved(m) ==
    \/ m.kind = "command" /\ m.seat
    \/ (m.seat \/ config.backend = "local") /\ ~Reachable
    \/ Unconfigured(m)

(* The turn's own check of a chat message, after its user row is written,  *)
(* looks at the configured URL even where a seat is selected.              *)
ChatUrl(m)  == IF config.backend = "local" /\ ~m.seat THEN config.ollama ELSE config.compat
Confined(m) == Isolated(m) /\ (Remote(Place(Backend(m), ChatUrl(m))) \/ Remote(Place(Backend(m), Url(m))))

-----------------------------------------------------------------------------
Init ==
    /\ config \in Configs /\ message = [c \in Conversations |-> CHOOSE m \in Messages : TRUE]
    /\ pc = [c \in Conversations |-> "new"] /\ role = [c \in Conversations |-> "chat"]
    /\ last = [c \in Conversations |-> "none"] /\ rows = [c \in Conversations |-> <<>>]
    /\ reply = [c \in Conversations |-> [from |-> "none", meta |-> "none"]]
    /\ used \in 0 .. Limit /\ calls = {}

Receive(c, m) ==
    /\ pc[c] = "new" /\ message' = [message EXCEPT ![c] = m]
    /\ rows' = [rows EXCEPT ![c] =
                   IF Unserved(m) \/ m.kind = "command" \/ Ephemeral(m) THEN @ ELSE <<"user">>]
    /\ pc' = [pc EXCEPT ![c] = IF Unserved(m) \/ (m.kind = "chat" /\ Confined(m)) THEN "done" ELSE "calling"]
    /\ role' = [role EXCEPT ![c] = m.kind]
    /\ UNCHANGED <<config, last, reply, used, calls>>

(* What a failed call leads to.  Only a chat turn of Gemini falls back, if *)
(* the failure may pass (the routing policy's refusal counts as one) and   *)
(* the recorded uses leave room; the call itself is recorded when it has   *)
(* succeeded.                                                              *)
Room == used < Limit
FallsBack(c, passing) ==
    /\ role[c] = "chat" /\ Backend(message[c]) = "gemini" /\ ~Isolated(message[c])
    /\ config.fallback /\ passing /\ Room
Fails(c, passing, described) ==
    /\ IF FallsBack(c, passing)
       THEN /\ pc' = [pc EXCEPT ![c] = "calling"] /\ role' = [role EXCEPT ![c] = "fallback"]
            /\ last' = [last EXCEPT ![c] = described] /\ UNCHANGED reply
       ELSE /\ pc' = [pc EXCEPT ![c] = "done"] /\ last' = [last EXCEPT ![c] = "none"]
            /\ reply' = IF role[c] = "remember" THEN reply ELSE [reply EXCEPT ![c].meta = described]
            /\ UNCHANGED role
    /\ UNCHANGED <<config, message, rows, used>>

(* generateText up to the request: it throws under isolation before there  *)
(* is a plan to describe.                                                  *)
Call(c) ==
    LET m == message[c]  place == Reach(m, role[c])
    IN  /\ pc[c] = "calling"
        /\ \/ /\ Isolated(m) /\ Remote(place)
              /\ Fails(c, TRUE, last[c]) /\ UNCHANGED calls
           \/ /\ ~(Isolated(m) /\ Remote(place)) /\ (~Permits(m, place) \/ place = "none")
              /\ Fails(c, TRUE, role[c]) /\ UNCHANGED calls
           \/ /\ ~(Isolated(m) /\ Remote(place)) /\ Permits(m, place) /\ place # "none"
              /\ calls' = calls \cup {[of |-> c, role |-> role[c], place |-> place]}
              /\ pc' = [pc EXCEPT ![c] = "waiting"] /\ last' = [last EXCEPT ![c] = role[c]]
              /\ UNCHANGED <<config, message, role, reply, rows, used>>

(* How a request fails: a redirect is never followed, an error of the      *)
(* client (other than too many requests) does not pass, the rest may.      *)
Failures == {"redirect", "client", "server", "network", "empty"}
Passing  == {"server", "network", "empty"}
Refuse(c, failure) ==
    /\ pc[c] = "waiting" /\ (failure = "redirect" => RouteBackend(message[c], role[c]) # "gemini")
    /\ Fails(c, failure \in Passing, role[c]) /\ UNCHANGED calls

(* The reply describes the call just answered; the memory's call, if the   *)
(* turn makes one, comes after and is not described.  A command that finds *)
(* no use for the answer (no JSON, no edits, none that are allowed, or no  *)
(* place to save them) consumes the metadata twice and describes nothing.  *)
Undescribed == [from |-> "unusable", meta |-> "none"]
Answers(c, usable) ==
    /\ rows' = IF role[c] = "command" \/ Ephemeral(message[c]) THEN rows ELSE [rows EXCEPT ![c] = Append(@, "assistant")]
    /\ reply' = [reply EXCEPT ![c] = IF usable THEN [from |-> role[c], meta |-> last[c]] ELSE Undescribed]
    /\ last' = [last EXCEPT ![c] = "none"]
    /\ used' = IF role[c] = "fallback" THEN used + 1 ELSE used
Answer(c, usable, remembers) ==
    /\ pc[c] = "waiting" /\ role[c] # "remember" /\ (usable \/ role[c] = "command") /\ Answers(c, usable)
    /\ IF remembers /\ role[c] = "chat" /\ Durable(message[c])
       THEN pc' = [pc EXCEPT ![c] = "calling"] /\ role' = [role EXCEPT ![c] = "remember"]
       ELSE pc' = [pc EXCEPT ![c] = "done"] /\ UNCHANGED role
    /\ UNCHANGED <<config, message, calls>>

Remembered(c) ==
    /\ pc[c] = "waiting" /\ role[c] = "remember" /\ pc' = [pc EXCEPT ![c] = "done"]
    /\ UNCHANGED <<config, message, role, last, reply, rows, used, calls>>

Next == \E c \in Conversations :
    \/ Call(c) \/ Remembered(c)
    \/ \E m \in Messages : Receive(c, m)
    \/ \E failure \in Failures : Refuse(c, failure)
    \/ \E usable, remembers \in BOOLEAN : Answer(c, usable, remembers)

Spec == Init /\ [][Next]_vars

-----------------------------------------------------------------------------
TypeOK ==
    /\ config \in Configs /\ message \in [Conversations -> Messages]
    /\ pc \in [Conversations -> {"new", "calling", "waiting", "done"}]
    /\ \A c \in Conversations :
           /\ {role[c], last[c], reply[c].from, reply[c].meta}
                  \subseteq {"none", "chat", "fallback", "remember", "command", "unusable"}
           /\ rows[c] \in {<<>>, <<"user">>, <<"user", "assistant">>}
    /\ used \in Nat

(* No call of a private message, of one marked internal or secret, or of a *)
(* server whose backend is local leaves the machine and its LAN: not the   *)
(* fallback after a failure, not the call that writes memory from it, not  *)
(* a command under another utility backend.                                *)
StaysLocal ==
    \A x \in calls :
        LET m == message[x.of]
        IN  m.zone = "private" \/ m.marked \in {"internal", "secret"} \/ m.bound \/ config.backend = "local"
                => x.place \in Local

(* What a reply says of its model call is said of the call its text came   *)
(* from, whatever was called before it or after: only the reply to a       *)
(* command whose answer was of no use says nothing of it.  And the log has *)
(* exactly the messages that were answered.                                *)
ReplyDescribesItsCall ==
    \A c \in Conversations :
        /\ reply[c].from \in {"chat", "fallback", "command"} => reply[c].meta = reply[c].from
        /\ reply[c].from = "unusable" => message[c].kind = "command" /\ reply[c].meta = "none" /\ rows[c] = <<>>
        /\ reply[c].from \in {"chat", "fallback"} /\ ~Ephemeral(message[c]) => rows[c] = <<"user", "assistant">>
        /\ reply[c].from = "none" => rows[c] \in {<<>>, <<"user">>}

(* The limit on fallback calls is passed by the turns in flight at once    *)
(* only.                                                                   *)
FallbacksWithin == used < Limit + Cardinality(Conversations)
=============================================================================
