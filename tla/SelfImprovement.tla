--------------------------- MODULE SelfImprovement ---------------------------
(***************************************************************************)
(* The editing commands of lib/dispatch.mjs: /improve and /memory_review   *)
(* show the model some files and save its edits, whole new texts, as a     *)
(* proposal; /apply <id> CONFIRM writes them over the files, each after a  *)
(* copy of what it replaces.  Conversations do this side by side, and the  *)
(* operator edits the same files by hand.  A text is a number; the texts   *)
(* the files start with are numbered like the files.                       *)
(***************************************************************************)
EXTENDS Integers, Sequences, FiniteSets, SequencesExt

CONSTANTS
    Files,          \* 1..n: the files isAllowedSelfModPath allows
    Conversations,
    MaxProposals,   \* proposals saved
    MaxApplies, MaxHandEdits, MaxCrashes

ImproveAssumption ==
    /\ \E n \in 1..9 : Files = 1..n
    /\ MaxProposals \in Nat /\ MaxApplies \in Nat /\ MaxHandEdits \in Nat /\ MaxCrashes \in Nat

VARIABLES
    file,       \* the text of each file
    asking,     \* the conversations that wait for the model
    proposals,  \* the saved proposals, in order: sequences of a path and a text
    backup,     \* backups/<id>/: for each proposal, the texts copied, by path
    applying,   \* the application in progress: proposal, edit, whether its copy is made
    texts,      \* texts written so far
    applies, handEdits, crashes,
    recopied,   \* history: the copies that a later copy of the same proposal replaced
    dropped     \* history: the texts the operator replaced by hand, or put into a file
                \* between its copy and its replacement

vars == <<file, asking, proposals, backup, applying, texts, applies, handEdits, crashes,
          recopied, dropped>>

NoneApplied == [id |-> 0, edit |-> 0, copied |-> FALSE]
Missing == 0
Edits == {es \in BoundedSeq(Files, 2) : es # <<>>}

Init ==
    /\ file = [f \in Files |-> f] /\ asking = {} /\ proposals = <<>> /\ backup = <<>>
    /\ applying = NoneApplied /\ texts = Cardinality(Files)
    /\ applies = 0 /\ handEdits = 0 /\ crashes = 0 /\ recopied = {} /\ dropped = {}

(* An application is one step of the server: nothing else of it happens    *)
(* within, but the operator's editor is another process.                   *)
Quiet == applying = NoneApplied

-----------------------------------------------------------------------------
Ask(c) ==
    /\ Quiet /\ c \notin asking /\ asking' = asking \cup {c}
    /\ UNCHANGED <<file, proposals, backup, applying, texts, applies, handEdits, crashes,
                   recopied, dropped>>

(* The answer is saved whatever became of the files meanwhile; it may edit *)
(* a file twice.                                                           *)
SaveProposal(c, paths) ==
    /\ Quiet /\ c \in asking /\ Len(proposals) < MaxProposals /\ asking' = asking \ {c}
    /\ proposals' = Append(proposals, [i \in DOMAIN paths |-> [path |-> paths[i], text |-> texts + i]])
    /\ backup' = Append(backup, [f \in Files |-> Missing])
    /\ texts' = texts + Len(paths)
    /\ UNCHANGED <<file, applying, applies, handEdits, crashes, recopied, dropped>>

NoProposal(c) ==
    /\ Quiet /\ c \in asking /\ asking' = asking \ {c}
    /\ UNCHANGED <<file, proposals, backup, applying, texts, applies, handEdits, crashes,
                   recopied, dropped>>

(* /apply: for each edit the file is copied to backups/<id>/ and replaced. *)
Apply(id) ==
    /\ Quiet /\ applies < MaxApplies /\ applies' = applies + 1
    /\ applying' = [id |-> id, edit |-> 1, copied |-> FALSE]
    /\ UNCHANGED <<file, asking, proposals, backup, texts, handEdits, crashes, recopied, dropped>>

CopyFile ==
    LET id   == applying.id
        path == proposals[id][applying.edit].path
    IN  /\ ~Quiet /\ ~applying.copied /\ applying' = [applying EXCEPT !.copied = TRUE]
        /\ backup' = [backup EXCEPT ![id][path] = file[path]]
        /\ recopied' = recopied \cup ({backup[id][path]} \ {Missing, file[path]})
        /\ UNCHANGED <<file, asking, proposals, texts, applies, handEdits, crashes, dropped>>

ReplaceFile ==
    LET edits == proposals[applying.id]
        edit  == edits[applying.edit]
    IN  /\ ~Quiet /\ applying.copied
        /\ file' = [file EXCEPT ![edit.path] = edit.text]
        /\ applying' = IF applying.edit = Len(edits) THEN NoneApplied
                       ELSE [applying EXCEPT !.edit = @ + 1, !.copied = FALSE]
        /\ UNCHANGED <<asking, proposals, backup, texts, applies, handEdits, crashes,
                       recopied, dropped>>

(* The file whose old text has been read and that is written over next.    *)
Overwrites(f) == ~Quiet /\ applying.copied /\ proposals[applying.id][applying.edit].path = f

EditByHand(f) ==
    /\ handEdits < MaxHandEdits /\ handEdits' = handEdits + 1
    /\ texts' = texts + 1 /\ file' = [file EXCEPT ![f] = texts + 1]
    /\ dropped' = dropped \cup {file[f]} \cup (IF Overwrites(f) THEN {texts + 1} ELSE {})
    /\ UNCHANGED <<asking, proposals, backup, applying, applies, crashes, recopied>>

Crash ==
    /\ crashes < MaxCrashes /\ crashes' = crashes + 1
    /\ asking # {} \/ ~Quiet
    /\ asking' = {} /\ applying' = NoneApplied
    /\ UNCHANGED <<file, proposals, backup, texts, applies, handEdits, recopied, dropped>>

-----------------------------------------------------------------------------
Next ==
    \/ \E c \in Conversations :
          Ask(c) \/ NoProposal(c) \/ \E paths \in Edits : SaveProposal(c, paths)
    \/ \E id \in DOMAIN proposals : Apply(id)
    \/ CopyFile \/ ReplaceFile \/ Crash
    \/ \E f \in Files : EditByHand(f)

Spec == Init /\ [][Next]_vars

-----------------------------------------------------------------------------
(* No application loses a text: what stood in a file stands there still,   *)
(* or in a proposal or a backup, through crashes and whatever was proposed *)
(* meanwhile.  Lost is what the operator replaced by hand or saved into a  *)
(* file between its copy and its replacement, and a copy that applying the *)
(* same proposal again, or its second edit of the file, replaced by a later*)
(* one.                                                                    *)
TextsAreKept ==
    \A t \in 1..texts :
        \/ \E f \in Files : file[f] = t
        \/ \E id \in DOMAIN proposals :
              \/ \E f \in Files : backup[id][f] = t
              \/ \E j \in DOMAIN proposals[id] : proposals[id][j].text = t
        \/ t \in recopied \cup dropped
=============================================================================
