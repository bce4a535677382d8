--------------------------- MODULE CognitiveMemory ---------------------------
(***************************************************************************)
(* The memory engine of lib/cognitive_memory_engine.mjs: an array in the   *)
(* process, and one page of the wiki for every memory of it.  Operations   *)
(* are synchronous and one process owns the wiki; every operation that     *)
(* changes the array ends by writing all pages, one after the other, in    *)
(* the array's order.  The process can stop between two writes and within  *)
(* one; when it starts again, the pages are all it has.                    *)
(*                                                                         *)
(* A text is a note; a memory's content is the notes gathered in it, in    *)
(* the order they came.  A page is read up to the first heading in the     *)
(* content: the note that has one, and those gathered after it, are behind *)
(* the heading.  The score of a memory (confidence and reinforcement) is a *)
(* level, one level being the margin by which a conflict is won.  Its      *)
(* polarity is 1, -1 or, for none or both, 0.                              *)
(***************************************************************************)
EXTENDS Integers, Sequences, SequencesExt, FiniteSetsExt

CONSTANTS
    Top,           \* the highest level; a memory at level 0 is archived
    Texts,         \* what can be captured, see MemoryAssumption; a partition is
                   \* a canonical key, a trust zone and a sensitivity tier
    MaxCaptures,   \* captures accepted, numbered by their notes
    Packs,         \* the packs that can be mounted: sequences of entries, of memories
                   \* made elsewhere or exported after their capture here
    MaxPacks, MaxCrashes

(* A record with the fields of a memory, whatever their values.            *)
IsMemory(m) ==
    m \in [id : {m.id}, part : {m.part}, polarity : {m.polarity}, level : {m.level},
           class : {m.class}, grave : {m.grave}, notes : {m.notes}, behind : {m.behind},
           status : {m.status}, due : {m.due}]

MemoryAssumption ==
    /\ Top \in Nat \ {0} /\ MaxCaptures \in Nat /\ MaxPacks \in Nat /\ MaxCrashes \in Nat
    /\ \A t \in Texts : /\ t.polarity \in {-1, 0, 1} /\ t.level \in 1..Top
                       /\ t.class \in {"durable", "expiring"} /\ t.grave \in BOOLEAN
                       /\ t.headed \in BOOLEAN
    /\ \A p \in Packs : /\ p \in Seq({p[i] : i \in DOMAIN p})
                       /\ \A i \in DOMAIN p : /\ IsMemory(p[i]) /\ p[i].status = "active"
                                               /\ p[i].id \in Nat \ {0}

VARIABLES
    memories,   \* this.memories
    pages,      \* the wiki: a function of the ids that have a page
    at, half,   \* the memory whose page a save writes next, or 0; it is half written
    up,         \* the process runs
    note,       \* the accepted note whose operation has not returned yet, or 0
    captures, packs, crashes,
    kept, torn, \* history: the notes accepted, and those on pages a crash tore
    cut,        \* history: the notes that a restart did not read, being behind headings
    class,      \* history: the class each memory was captured or mounted with
    faded       \* history: the memories archived for want of confidence

vars == <<memories, pages, at, half, up, note, captures, packs, crashes, kept, torn, cut, class,
          faded>>

Content(m) == m.notes \cup m.behind

(* The front matter has no class and no expiry; an empty page has nothing. *)
PageOf(m) == [m EXCEPT !.class = "unknown", !.due = "never"]
Emptied(m) == [PageOf(m) EXCEPT !.status = "torn", !.notes = {}, !.behind = {}]
Legible == {id \in DOMAIN pages : pages[id].status # "torn"}

Init ==
    /\ memories = <<>> /\ pages = <<>> /\ at = 0 /\ half = FALSE /\ up = TRUE
    /\ note = 0 /\ captures = 0 /\ packs = 0 /\ crashes = 0
    /\ kept = {} /\ torn = {} /\ cut = {} /\ class = <<>> /\ faded = {}

Idle == up /\ at = 0
Active(m) == m.status = "active"
Immune(m) == m.class = "durable" /\ m.grave
Raised(level) == Min({level + 1, Top})
Mortal == {i \in DOMAIN memories : Active(memories[i]) /\ ~Immune(memories[i])}
Expired(m) == m.due = "past"
Ids == {memories[i].id : i \in DOMAIN memories}
NoteClasses(ms) ==
    class' = [id \in {m.id : m \in ToSet(ms)} \ Ids |->
                 (CHOOSE m \in ToSet(ms) : m.id = id).class] @@ class
Archived(m) == [m EXCEPT !.status = "archived"]

(* save: the pages are written from the first memory on, when there is one.*)
Save(ms) == memories' = ms /\ at' = (IF ms = <<>> THEN 0 ELSE 1) /\ UNCHANGED half

-----------------------------------------------------------------------------
(* capture.  The active memories of the partition that say the opposite    *)
(* are in conflict with it; the text is refused (nothing is written but    *)
(* the log) unless it outscores them all and none is a hard rule.  One that*)
(* does not contradict it gathers it; else it is a memory of its own.      *)
Conflicts(part, polarity) ==
    {i \in DOMAIN memories : /\ Active(memories[i]) /\ memories[i].part = part
                             /\ memories[i].polarity * polarity = -1}

(* Mutant: a text gathers in a memory of its own polarity only.            *)
TwinsAlike(part, polarity) ==
    {i \in DOMAIN memories : /\ Active(memories[i]) /\ memories[i].part = part
                             /\ memories[i].polarity = polarity}

Twins(part, polarity) ==
    {i \in DOMAIN memories : /\ Active(memories[i]) /\ memories[i].part = part
                             /\ memories[i].polarity * polarity # -1}

Wins(level, conflicts) ==
    \A i \in conflicts : memories[i].class # "durable_rule" /\ level > memories[i].level

Superseded(conflicts) ==
    [i \in DOMAIN memories |-> IF i \in conflicts THEN Archived(memories[i]) ELSE memories[i]]

(* The contents of f's memories one below the other: what can be read      *)
(* again, and what is behind a heading.                                    *)
Before(f) ==
    UNION {f[j].notes : j \in {k \in DOMAIN f : \A l \in DOMAIN f : l < k => f[l].behind = {}}}

Below(f) == (UNION {Content(f[j]) : j \in DOMAIN f}) \ Before(f)

(* Mutant: a memory is reinforced by the text, which is not added to it.   *)
GatheredRaised(ms, i, m) == [ms EXCEPT ![i].level = Raised(Max({@, m.level}))]

Gathered(ms, i, m) ==
    [ms EXCEPT ![i].level = Raised(Max({@, m.level})), ![i].grave = @ \/ m.grave,
               ![i].notes = Before(<<ms[i], m>>), ![i].behind = Below(<<ms[i], m>>)]

Memory(id, text) ==
    [id |-> id, part |-> text.part, polarity |-> text.polarity, level |-> text.level,
     class |-> text.class, grave |-> text.grave, status |-> "active",
     notes |-> IF text.headed THEN {} ELSE {id}, behind |-> IF text.headed THEN {id} ELSE {},
     due |-> IF text.class = "expiring" THEN "later" ELSE "never"]

Capture(text) ==
    LET m         == Memory(captures + 1, text)
        conflicts == Conflicts(m.part, m.polarity)
        twins     == Twins(m.part, m.polarity)
        ms        == IF twins = {} THEN Append(Superseded(conflicts), m)
                     ELSE Gathered(Superseded(conflicts), Min(twins), m)
    IN  /\ Idle /\ captures < MaxCaptures /\ captures' = m.id /\ note' = m.id
        /\ Wins(m.level, conflicts)
        /\ Save(ms) /\ NoteClasses(ms)
        /\ UNCHANGED <<pages, up, packs, crashes, kept, torn, cut, faded>>

(* consolidate: within a partition, memories of one wording are gathered in*)
(* the first of them, whatever their polarity.                             *)
Groupings ==
    {into \in [DOMAIN memories -> DOMAIN memories] :
        \A i \in DOMAIN memories :
            into[i] # i => /\ into[i] < i /\ into[into[i]] = into[i]
                           /\ Active(memories[i]) /\ Active(memories[into[i]])
                           /\ memories[i].part = memories[into[i]].part}

Consolidated(into) ==
    [i \in DOMAIN memories |->
        LET all == [j \in {k \in DOMAIN memories : into[k] = i} |-> memories[j]]
        IN  IF into[i] # i THEN Archived(memories[i])
            ELSE IF DOMAIN all = {i} THEN memories[i]
            ELSE [memories[i] EXCEPT !.level = Raised(Max({all[j].level : j \in DOMAIN all})),
                                     !.notes = Before(all), !.behind = Below(all)]]

Consolidate ==
    /\ Idle /\ \E into \in Groupings : Save(Consolidated(into))
    /\ UNCHANGED <<pages, up, note, captures, packs, crashes, kept, torn, cut, class, faded>>

(* retrieve: the memories found are touched, and then all pages written.   *)
Retrieve ==
    /\ Idle /\ \E i \in DOMAIN memories : Active(memories[i])
    /\ Save(memories)
    /\ UNCHANGED <<pages, up, note, captures, packs, crashes, kept, torn, cut, class, faded>>

(* decay: those not used for long lose confidence, and what has expired or *)
(* has too little left is archived; what is immune is passed over.         *)
Decayed(worn) ==
    [i \in DOMAIN memories |->
        LET level == memories[i].level - IF i \in worn THEN 1 ELSE 0
        IN  IF i \notin Mortal THEN memories[i]
            ELSE [memories[i] EXCEPT !.level = level,
                     !.status = IF Expired(memories[i]) \/ level = 0 THEN "archived" ELSE @]]

Decay ==
    /\ Idle
    /\ \E worn \in SUBSET Mortal :
          /\ Save(Decayed(worn))
          /\ faded' = faded \cup {memories[i].id : i \in {j \in worn : memories[j].level = 1
                                                               /\ ~Expired(memories[j])}}
    /\ UNCHANGED <<pages, up, note, captures, packs, crashes, kept, torn, cut, class>>

(* evictUnderPressure: as many as are asked for, the expired ones first.   *)
Evict ==
    LET expired == {i \in DOMAIN memories : Active(memories[i]) /\ Expired(memories[i])}
    IN  /\ Idle
        /\ \E out \in SUBSET (expired \cup Mortal) :
              /\ out # {} /\ (out \subseteq expired \/ expired \subseteq out)
              /\ Save(Superseded(out))
        /\ UNCHANGED <<pages, up, note, captures, packs, crashes, kept, torn, cut, class, faded>>

(* loadFromVerifiedPack: an entry whose id is known raises that memory, any*)
(* other is a new memory.  An entry whose hash is wrong ends the mount: the*)
(* entries before it stay in the array and nothing is saved.               *)
(* Mutant: an entry that raises a memory makes it active again.            *)
MountedRevives(ms, entry) ==
    IF \E i \in DOMAIN ms : ms[i].id = entry.id
    THEN [i \in DOMAIN ms |->
             IF ms[i].id # entry.id THEN ms[i]
             ELSE [ms[i] EXCEPT !.level = Max({@, entry.level}), !.status = "active"]]
    ELSE Append(ms, entry)

Mounted(ms, entry) ==
    IF \E i \in DOMAIN ms : ms[i].id = entry.id
    THEN [i \in DOMAIN ms |->
             IF ms[i].id # entry.id THEN ms[i]
             ELSE [ms[i] EXCEPT !.level = Max({@, entry.level}), !.grave = @ \/ entry.grave]]
    ELSE Append(ms, entry)

(* The array after each of the entries.                                    *)
Mounting(pack) ==
    LET ms[k \in 0..Len(pack)] == IF k = 0 THEN memories ELSE Mounted(ms[k - 1], pack[k])
    IN  ms

Mount(pack, n) ==
    LET ms == Mounting(pack)[n]
    IN  /\ IF n = Len(pack) THEN Save(ms) ELSE memories' = ms /\ UNCHANGED <<at, half>>
        /\ NoteClasses(ms)

LoadFromVerifiedPack ==
    /\ Idle /\ packs < MaxPacks /\ packs' = packs + 1
    /\ \E pack \in Packs :
          /\ \A i \in DOMAIN pack : pack[i].id \notin (captures + 1)..MaxCaptures
          /\ \E n \in 0..Len(pack) : Mount(pack, n)
    /\ UNCHANGED <<pages, up, note, captures, crashes, kept, torn, cut, faded>>

-----------------------------------------------------------------------------
(* writeWiki: a page is emptied, then filled; after the last one the       *)
(* operation returns, and what it was given has been accepted.             *)
Filed(ps, page) ==
    [id \in DOMAIN ps \cup {page.id} |-> IF id = page.id THEN page ELSE ps[id]]

StartPage ==
    /\ up /\ at > 0 /\ ~half /\ half' = TRUE
    /\ pages' = Filed(pages, Emptied(memories[at]))
    /\ UNCHANGED <<memories, at, up, note, captures, packs, crashes, kept, torn, cut, class, faded>>

FillPage ==
    /\ up /\ half /\ half' = FALSE
    /\ pages' = Filed(pages, PageOf(memories[at]))
    /\ IF at < Len(memories) THEN at' = at + 1 /\ UNCHANGED <<note, kept>>
       ELSE at' = 0 /\ note' = 0 /\ kept' = kept \cup ({note} \ {0})
    /\ UNCHANGED <<memories, up, captures, packs, crashes, torn, cut, class, faded>>

(* What was to expire does so; only the array knows when.                  *)
TimePasses(i) ==
    /\ Idle /\ memories[i].due = "later"
    /\ memories' = [memories EXCEPT ![i].due = "past"]
    /\ UNCHANGED <<pages, at, half, up, note, captures, packs, crashes, kept, torn, cut, class, faded>>

Crash ==
    /\ up /\ crashes < MaxCrashes /\ crashes' = crashes + 1
    /\ torn' = IF half THEN torn \cup Content(memories[at]) ELSE torn
    /\ up' = FALSE /\ at' = 0 /\ half' = FALSE /\ note' = 0 /\ memories' = <<>>
    /\ UNCHANGED <<pages, captures, packs, kept, cut, class, faded>>

(* readWikiMemories: a page without its front matter is passed over, and   *)
(* of a content extractSection returns what is before the first heading;   *)
(* the next save writes no more than that.                                 *)
Reload ==
    /\ ~up /\ up' = TRUE
    /\ \E order \in SetToSeqs(Legible) :
          memories' = [i \in DOMAIN order |-> [pages[order[i]] EXCEPT !.behind = {}]]
    /\ cut' = cut \cup ((UNION {pages[id].behind : id \in Legible})
                            \ (UNION {pages[id].notes : id \in Legible}))
    /\ UNCHANGED <<pages, at, half, note, captures, packs, crashes, kept, torn, class, faded>>

-----------------------------------------------------------------------------
Next ==
    \/ \E text \in Texts : Capture(text)
    \/ Consolidate \/ Retrieve \/ Decay \/ Evict \/ LoadFromVerifiedPack
    \/ StartPage \/ FillPage
    \/ \E i \in DOMAIN memories : TimePasses(i)
    \/ Crash \/ Reload

Spec == Init /\ [][Next]_vars

-----------------------------------------------------------------------------
(* Until a pack has been mounted, a partition speaks with one voice: at    *)
(* most one of its memories is active, whatever was captured, and however  *)
(* often a crash cut a save short.                                         *)
OneVoice ==
    packs = 0 => \A i, j \in DOMAIN memories :
        Active(memories[i]) /\ Active(memories[j]) /\ memories[i].part = memories[j].part => i = j

(* A note whose capture has returned is on a page, in the memory that took *)
(* it or one it was consolidated into, unless a crash tore the page it was *)
(* on, or a restart found it behind a heading and on no page in front of   *)
(* one; while pages are written it is in the array.                        *)
NotesAreKept ==
    \A n \in kept \ (torn \cup cut) :
        \/ \E id \in DOMAIN pages : n \in Content(pages[id])
        \/ half /\ n \in Content(memories[at])

(* What a page says is archived stays archived: no capture, pack,          *)
(* consolidation or restart makes the memory active while its page says so.*)
ArchivedStays ==
    \A i \in DOMAIN memories :
        /\ memories[i].id \in DOMAIN pages
        /\ pages[memories[i].id].status = "archived"
        => ~Active(memories[i])

(* cognitive_memory_engine.mjs: "Durable memories with importance >= 0.8   *)
(* are immune to decay".                                                   *)
ImmuneToDecay ==
    \A i \in DOMAIN memories :
        class[memories[i].id] = "durable" /\ memories[i].grave => memories[i].id \notin faded
=============================================================================
