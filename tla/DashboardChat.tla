---------------------------- MODULE DashboardChat ----------------------------
(***************************************************************************)
(* The chat of the operator's page (dashboard/dashboard.js) and the        *)
(* session that stands behind it (agent_server.mjs, lib/dashboard.mjs).    *)
(* The page keeps the conversation's key in memory and in the session      *)
(* storage of its tab, where the history is too; the storage may stop      *)
(* taking writes, or work again, at any time.  Messages are sent while     *)
(* others wait; the view may be cleared, the conversation reset, the page  *)
(* reloaded or left while their answers are on the way.  The server has    *)
(* one session: a login of somebody else takes it over.                    *)
(*                                                                         *)
(* Keys are numbered as they are minted.  A bubble is who speaks, for      *)
(* which message, and the key that message went out with; what is said is  *)
(* left out, and so is the limit of 50 entries of a history.               *)
(***************************************************************************)
EXTENDS Integers, SequencesExt

CONSTANTS
    Messages,
    MaxKeys,        \* bound: keys minted
    MaxLogins,      \* bound: sessions begun
    MaxTroubles     \* bound: turns of the storage and requests that are lost

ChatAssumption == {MaxKeys, MaxLogins, MaxTroubles} \subseteq Nat

NoKey == 0

VARIABLES
    session,    \* the server's session and how many have been begun; NoKey when there is none
    page,       \* the operator's page
    store,      \* its tab's sessionStorage, and whether it takes writes
    minted,     \* keys minted so far
    sends,      \* of each message: where it is, the key, generation and load it went out with
    troubles    \* turns of the storage and requests lost

chatting == <<session, page, store, minted, sends, troubles>>

Fresh(load, cookie, view) ==
    [at |-> "dashboard", load |-> load, cookie |-> cookie, key |-> NoKey, authoritative |-> FALSE,
     generation |-> 0, view |-> view]
Unsent == [pc |-> "new", key |-> NoKey, generation |-> 0, load |-> 0, late |-> FALSE, answer |-> "none"]

Init ==
    /\ session = [token |-> NoKey, begun |-> 0]
    /\ page = [Fresh(0, NoKey, <<>>) EXCEPT !.at = "login"]
    /\ store = [key |-> NoKey, history |-> <<>>, writable |-> TRUE]
    /\ minted = 0 /\ sends = [m \in Messages |-> Unsent] /\ troubles = 0

-----------------------------------------------------------------------------
(* createDashboardSession, hasDashboardSession.                            *)
Begin == session' = [token |-> session.begun + 1, begun |-> session.begun + 1]
HasSession == session.token # NoKey /\ page.cookie = session.token

(* registerDashboardRoutes, initChatSurface: a page that is opened starts  *)
(* with the history the tab has stored; what its predecessor waited for is *)
(* nobody's any more.                                                      *)
Open(cookie) == page' = Fresh(page.load + 1, cookie, store.history)
Gone(m) == [Unsent EXCEPT !.pc = "gone", !.late = sends[m].late]
Abandon == sends' = [m \in Messages |-> IF sends[m].pc = "new" THEN sends[m] ELSE Gone(m)]

Login ==
    /\ page.at \in {"login", "out"} /\ session.begun < MaxLogins
    /\ Begin /\ Open(session.begun + 1)
    /\ UNCHANGED <<store, minted, sends, troubles>>
LoginElsewhere ==
    /\ session.begun < MaxLogins /\ Begin
    /\ UNCHANGED <<page, store, minted, sends, troubles>>
Expire ==
    /\ session.token # NoKey /\ session' = [session EXCEPT !.token = NoKey]
    /\ UNCHANGED <<page, store, minted, sends, troubles>>
Reload ==
    /\ page.at = "dashboard" /\ page.load < MaxLogins + 1
    /\ IF HasSession THEN Open(page.cookie) ELSE page' = [page EXCEPT !.at = "login", !.view = <<>>]
    /\ Abandon /\ UNCHANGED <<session, store, minted, troubles>>

(* Storage may be full, or have room again.                                *)
StorageTurns ==
    /\ troubles < MaxTroubles /\ troubles' = troubles + 1
    /\ store' = [store EXCEPT !.writable = ~@]
    /\ UNCHANGED <<session, page, minted, sends>>

-----------------------------------------------------------------------------
(* getDashboardConversationKey: the key of a reset, else the stored one,   *)
(* else the one in memory, else a new one.  It remembers what it returns.  *)
KeyStoredFirst ==
    IF store.key # NoKey THEN store.key ELSE IF page.key # NoKey THEN page.key ELSE minted + 1
Key ==
    IF page.authoritative THEN page.key
    ELSE IF store.key # NoKey THEN store.key ELSE IF page.key # NoKey THEN page.key ELSE minted + 1
KeepsInMemory(s, key) == s
Keeps(s, key) == [s EXCEPT !.key = IF s.writable THEN key ELSE @]
Records(s, bubble) == [s EXCEPT !.history = IF s.writable THEN Append(@, bubble) ELSE @]
(* The page and the storage once the key has been asked for.               *)
Mints == Key = minted + 1
Asks  == /\ minted < MaxKeys \/ ~Mints
         /\ minted' = IF Mints THEN minted + 1 ELSE minted
Known == [page EXCEPT !.key = Key, !.authoritative = page.authoritative /\ ~Mints]
Kept  == IF Mints THEN Keeps(store, Key) ELSE store

Bubble(who, m, key) == [who |-> who, m |-> m, key |-> key]
Shows(bubble) ==
    /\ page' = [Known EXCEPT !.view = Append(@, bubble)]
    /\ store' = Records(Kept, bubble)

(* handleSend, up to its request.                                          *)
Send(m) ==
    /\ page.at \in {"dashboard", "leaving"} /\ sends[m].pc = "new"
    /\ Asks /\ Shows(Bubble("operator", m, Key))
    /\ sends' = [sends EXCEPT ![m] = [Unsent EXCEPT !.pc = "sent", !.key = Key, !.generation = page.generation,
                                              !.load = page.load, !.late = page.at = "leaving"]]
    /\ UNCHANGED <<session, troubles>>

(* operatorDashboardChatAuthGuard, for what the page puts into a request:  *)
(* channel and text, whether provenance is wanted, and the context.        *)
BodyKeys    == {"channel", "text", "provenance_requested", "runtime_context"}
ContextKeys == {"conversation_key", "provenance_enabled"}
AllowedBody == {"channel", "text", "selection", "model_selection", "runtime_context"}
InScope(texts) == BodyKeys \subseteq AllowedBody /\ ContextKeys \subseteq {"conversation_key"} /\ texts = "chat"
Serve(m) ==
    /\ sends[m].pc = "sent"
    /\ \E text \in {"chat", "tool"} :
          sends' = [sends EXCEPT ![m].pc = "served",
                                 ![m].answer = IF ~HasSession THEN "unauthorized"
                                               ELSE IF text = "tool" THEN "refused"
                                               ELSE IF InScope(text) THEN "reply" ELSE "out of scope"]
    /\ UNCHANGED <<session, page, store, minted, troubles>>

(* handleSend, once it is answered or its request has failed: what belongs *)
(* to another conversation is dropped.                                     *)
BelongsByGeneration(m) == sends[m].generation = page.generation
Belongs(m) == sends[m].generation = page.generation /\ sends[m].key = Key
Done(m, how) == [sends EXCEPT ![m].pc = how, ![m].answer = "none"]
Answered(m) ==
    /\ sends[m].pc = "served" /\ sends[m].load = page.load /\ page.at \in {"dashboard", "leaving"}
    /\ Asks
    /\ IF Belongs(m)
       THEN Shows(Bubble("dizzy", m, sends[m].key)) /\ sends' = Done(m, "shown")
       ELSE page' = Known /\ store' = Kept /\ sends' = Done(m, "dropped")
    /\ UNCHANGED <<session, troubles>>
LoseRequest(m) ==
    /\ troubles < MaxTroubles /\ troubles' = troubles + 1
    /\ sends[m].pc = "sent" /\ sends' = [sends EXCEPT ![m].pc = "served", ![m].answer = "lost"]
    /\ UNCHANGED <<session, page, store, minted>>

-----------------------------------------------------------------------------
Clear ==
    /\ page.at = "dashboard" /\ page.view # <<>>
    /\ page' = [page EXCEPT !.view = <<>>] /\ store' = [store EXCEPT !.history = <<>>]
    /\ UNCHANGED <<session, minted, sends, troubles>>

Reset ==
    /\ page.at = "dashboard" /\ minted < MaxKeys /\ minted' = minted + 1
    /\ page' = [page EXCEPT !.generation = @ + 1, !.key = minted + 1, !.authoritative = TRUE, !.view = <<>>]
    /\ store' = [Keeps(store, minted + 1) EXCEPT !.history = <<>>]
    /\ UNCHANGED <<session, sends, troubles>>

(* Logging out wipes the tab, asks the server to end the session, and then *)
(* leaves the page whatever came of that.  The view stays until then.      *)
Logout ==
    /\ page.at = "dashboard"
    /\ page' = [page EXCEPT !.at = "leaving", !.key = NoKey, !.authoritative = FALSE]
    /\ store' = [store EXCEPT !.key = NoKey, !.history = <<>>]
    /\ UNCHANGED <<session, minted, sends, troubles>>
Leave ==
    /\ page.at = "leaving" /\ Abandon
    /\ page' = [page EXCEPT !.at = "out", !.view = <<>>]
    /\ \/ session' = [session EXCEPT !.token = IF HasSession THEN NoKey ELSE @] /\ UNCHANGED troubles
       \/ troubles < MaxTroubles /\ troubles' = troubles + 1 /\ UNCHANGED session
    /\ UNCHANGED <<store, minted>>

Next ==
    \/ Login \/ LoginElsewhere \/ Expire \/ Reload \/ StorageTurns \/ Clear \/ Reset \/ Logout \/ Leave
    \/ \E m \in Messages : Send(m) \/ Serve(m) \/ Answered(m) \/ LoseRequest(m)

Spec == Init /\ [][Next]_chatting

-----------------------------------------------------------------------------
(* What a page shows and what its tab has stored is of one conversation,   *)
(* that of the key the next message goes out with, as long as the storage  *)
(* takes writes and the page is not being left.                            *)
Bubbles == ToSet(page.view) \cup ToSet(store.history)
ViewIsOfOneConversation ==
    troubles = 0 /\ page.at = "dashboard" => \A b \in Bubbles : b.key = Key

(* Once a conversation has been reset its key goes out no more from that   *)
(* page, and no answer to it appears, whatever the storage does.           *)
ResetHolds ==
    \A m \in Messages :
       /\ \A n \in Messages :
             sends[m].load > 0 /\ sends[m].load = sends[n].load
             /\ sends[m].generation # sends[n].generation => sends[m].key # sends[n].key
       /\ sends[m].load = page.load /\ sends[m].generation # page.generation
             => \A b \in ToSet(page.view) : b.m # m

(* A tab that logs out keeps nothing of what was said before, whenever the *)
(* last answers arrive, and its session is over unless the request was     *)
(* lost.                                                                   *)
LogoutIsComplete ==
    /\ page.at \in {"leaving", "out"} => \A b \in ToSet(store.history) : sends[b.m].late
    /\ page.at = "out" /\ troubles = 0 => ~HasSession

(* The page's chat gets through: no message of a live session that calls   *)
(* no tool and changes nothing is out of scope.                            *)
ChatGetsThrough == \A m \in Messages : sends[m].answer # "out of scope"
=============================================================================
