----------------------------- MODULE AutoRemember ----------------------------
(***************************************************************************)
(* What a conversation leaves in durable memory (lib/dispatch.mjs): after a*)
(* chat turn the latest messages may be staged as a candidate, which a     *)
(* later turn promotes into the conversation's memory document and the     *)
(* daily log; the command /remember writes the same files at once.  Turns  *)
(* of a conversation follow one another, so one conversation is modelled.  *)
(*                                                                         *)
(* A turn waits only for the model; the files are written after that in    *)
(* one step of the server, which can still die between two of them.        *)
(***************************************************************************)
EXTENDS Integers, Sequences, FiniteSets

CONSTANTS
    Signatures,   \* what the last messages of the conversation hash to
    MaxStaged,    \* candidates staged, numbered
    MaxManual,    \* uses of /remember
    MaxCrashes, None

RememberAssumption ==
    /\ MaxStaged \in Nat /\ MaxManual \in Nat /\ MaxCrashes \in Nat
    /\ None \notin [number : Nat, signature : Signatures, age : {"fresh", "ripe", "stale"}]

VARIABLES
    turn,        \* the turn's next file, and the candidate it promotes, if any
    candidate,   \* auto_memory_candidates/<key>.json: number, signature, age
    mark,        \* last_signature in auto_memory/<key>.json
    cooling,     \* its last_at is less than the cooldown ago
    document,    \* the candidate the memory document was last written from, or "manual"
    daily,       \* the daily log
    staged, manual, crashes

vars == <<turn, candidate, mark, cooling, document, daily, staged, manual, crashes>>

Idle == [pc |-> "idle", of |-> 0]

Init ==
    /\ turn = Idle /\ candidate = None /\ mark = None /\ cooling = FALSE
    /\ document = 0 /\ daily = <<>> /\ staged = 0 /\ manual = 0 /\ crashes = 0

-----------------------------------------------------------------------------
(* shouldAutoRemember, with the messages' signature and whether their score*)
(* suffices.  A candidate too old is dropped, one old enough promoted if it*)
(* is not what was last remembered; else the messages are staged, over any *)
(* candidate there is, unless they are known, poor, pending or too soon.   *)
Promotes(c) == c # None /\ c.age = "ripe" /\ mark # c.signature

Stages(sig, telling) ==
    /\ mark # sig /\ telling /\ ~cooling
    /\ candidate # None => candidate.signature # sig

Chat(sig, telling) ==
    /\ turn.pc = "idle"
    /\ \/ /\ candidate # None /\ candidate.age = "stale"
          /\ candidate' = None /\ UNCHANGED <<turn, staged>>
       \/ /\ Promotes(candidate)
          /\ turn' = [pc |-> "model", of |-> candidate.number] /\ UNCHANGED <<candidate, staged>>
       \/ /\ candidate # None => candidate.age # "stale" /\ ~Promotes(candidate)
          /\ Stages(sig, telling) /\ staged < MaxStaged /\ staged' = staged + 1
          /\ candidate' = [number |-> staged + 1, signature |-> sig, age |-> "fresh"]
          /\ UNCHANGED turn
    /\ UNCHANGED <<mark, cooling, document, daily, manual, crashes>>

Remember ==
    /\ turn.pc = "idle" /\ manual < MaxManual /\ manual' = manual + 1
    /\ turn' = [pc |-> "model", of |-> 0]
    /\ UNCHANGED <<candidate, mark, cooling, document, daily, staged, crashes>>

(* writeRememberedMemory: no answer, or one that may not be kept, changes  *)
(* nothing, and the candidate waits for the next turn.                     *)
ModelFails ==
    /\ turn.pc = "model" /\ turn' = Idle
    /\ UNCHANGED <<candidate, mark, cooling, document, daily, staged, manual, crashes>>

WriteDocument ==
    /\ turn.pc = "model" /\ turn' = [turn EXCEPT !.pc = "daily"]
    /\ document' = turn.of
    /\ UNCHANGED <<candidate, mark, cooling, daily, staged, manual, crashes>>

(* Mutant: nothing follows the log, as after /remember.                    *)
AppendDailyLast ==
    /\ turn.pc = "daily" /\ turn' = Idle
    /\ daily' = Append(daily, turn.of)
    /\ UNCHANGED <<candidate, mark, cooling, document, staged, manual, crashes>>

AppendDaily ==
    /\ turn.pc = "daily" /\ turn' = IF turn.of = 0 THEN Idle ELSE [turn EXCEPT !.pc = "mark"]
    /\ daily' = Append(daily, turn.of)
    /\ UNCHANGED <<candidate, mark, cooling, document, staged, manual, crashes>>

WriteState ==
    /\ turn.pc = "mark" /\ turn' = [turn EXCEPT !.pc = "clear"]
    /\ mark' = candidate.signature /\ cooling' = TRUE
    /\ UNCHANGED <<candidate, document, daily, staged, manual, crashes>>

ClearCandidate ==
    /\ turn.pc = "clear" /\ turn' = Idle /\ candidate' = None
    /\ UNCHANGED <<mark, cooling, document, daily, staged, manual, crashes>>

(* DIZZY_AUTO_REMEMBER_DELAY_MS, _MAX_AGE_MS and _COOLDOWN_MS pass.        *)
Ripen ==
    /\ candidate # None /\ turn.pc \in {"idle", "model"} /\ candidate.age # "stale"
    /\ candidate' = [candidate EXCEPT !.age = IF @ = "fresh" THEN "ripe" ELSE "stale"]
    /\ UNCHANGED <<turn, mark, cooling, document, daily, staged, manual, crashes>>

Cool ==
    /\ cooling /\ cooling' = FALSE /\ turn.pc \in {"idle", "model"}
    /\ UNCHANGED <<turn, candidate, mark, document, daily, staged, manual, crashes>>

Crash ==
    /\ turn.pc # "idle" /\ crashes < MaxCrashes /\ crashes' = crashes + 1 /\ turn' = Idle
    /\ UNCHANGED <<candidate, mark, cooling, document, daily, staged, manual>>

-----------------------------------------------------------------------------
Next ==
    \/ \E sig \in Signatures, telling \in BOOLEAN : Chat(sig, telling)
    \/ Remember \/ ModelFails \/ WriteDocument \/ AppendDaily \/ WriteState \/ ClearCandidate
    \/ Ripen \/ Cool \/ Crash

Spec == Init /\ [][Next]_vars

-----------------------------------------------------------------------------
(* A candidate is remembered once: the daily log repeats one only as often *)
(* as the server died after the log and before the state was written.      *)
OncePerCandidate ==
    LET kept == {i \in DOMAIN daily : daily[i] # 0}
    IN  Cardinality(kept) - Cardinality({daily[i] : i \in kept}) <= crashes
=============================================================================
