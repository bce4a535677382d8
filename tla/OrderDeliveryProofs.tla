------------------------ MODULE OrderDeliveryProofs -------------------------
(***************************************************************************)
(* Proofs about OrderDelivery.                                             *)
(***************************************************************************)
EXTENDS OrderDelivery, WellFoundedInduction, TLAPS

USE OrderAssumption

LEMMA MaxIsMember ==
    ASSUME NEW n \in Nat, NEW S, S \subseteq 1..n, S # {}
    PROVE  Max(S) \in S
<1> DEFINE R == OpToRel(<, Nat)
           T == {m \in Nat : \A k \in S : k <= m}
<1>1. n \in T
  OBVIOUS
<1>2. PICK m \in T : \A k \in T : ~(<<k, m>> \in R)
  <2> HIDE DEF R
  <2>1. IsWellFoundedOn(R, Nat)
    BY NatLessThanWellFounded DEF R
  <2>2. T \subseteq Nat /\ T # {}
    BY <1>1
  <2> HIDE DEF T
  <2> QED BY <2>1, <2>2, WFMin
<1>3. \A k \in T : ~(k < m)
  BY <1>2 DEF OpToRel
<1>4. m \in S
  <2>1. PICK k \in S : TRUE
    OBVIOUS
  <2>2. m > 0
    BY <2>1
  <2>3. CASE m \notin S
    <3>1. \A i \in S : i <= m - 1
      BY <2>3
    <3>2. m - 1 \in T
      BY <2>2, <3>1
    <3> QED BY <1>3, <2>2, <3>2
  <2> QED BY <2>3
<1>5. \A k \in S : m >= k
  OBVIOUS
<1> QED BY <1>4, <1>5 DEF Max

LEMMA LatestIsMember ==
    ASSUME TypeOK, NEW t \in Types, Naming(t) # {}
    PROVE  \E i \in DOMAIN dir[t] : Latest(t) = dir[t][i] /\ dir[t][i].candidate = Candidate
<1>1. dir[t] \in Seq(Payloads[t])
  BY DEF TypeOK
<1>2. Len(dir[t]) \in Nat /\ DOMAIN dir[t] = 1..Len(dir[t])
  BY <1>1
<1>3. Naming(t) \subseteq 1..Len(dir[t])
  BY <1>2 DEF Naming
<1>4. Max(Naming(t)) \in Naming(t)
  BY <1>2, <1>3, MaxIsMember
<1> QED BY <1>4 DEF Latest, Naming

-----------------------------------------------------------------------------
(* What a pass decides                                                     *)

Backed(p) == IF p.op = "upload"
             THEN Contains(dir["qc"], [candidate |-> p.ref, pass |-> TRUE])
             ELSE Contains(dir["upload"], p.ref)

Permitted(p) == staged # None /\ Backed(p) /\ ~Contains(dir["pending"], p)

LEMMA RecordsAre ==
    \A r : r \in Records <=>
        /\ r = <<r[1], r[2]>>
        /\ \/ r[1] = "intake" /\ r[2] \in Briefs
           \/ r[1] = "candidate" /\ r[2] \in Candidates
           \/ r[1] = "qc" /\ r[2] \in [candidate : Candidates, pass : BOOLEAN]
           \/ r[1] \in {"upload", "delivery"} /\ r[2] \in Uploads
           \/ r[1] = "pending" /\ r[2] \in Intents
<1>1. \A t, S, r : r \in {t} \X S <=> r = <<r[1], r[2]>> /\ r[1] = t /\ r[2] \in S
  OBVIOUS
<1>2. /\ Payloads["intake"] = Briefs /\ Payloads["candidate"] = Candidates
      /\ Payloads["qc"] = [candidate : Candidates, pass : BOOLEAN]
      /\ Payloads["upload"] = Uploads /\ Payloads["delivery"] = Uploads
      /\ Payloads["pending"] = Intents
  BY DEF Payloads
<1>3. \A t, r : r \in Of(t) <=> r = <<r[1], r[2]>> /\ r[1] = t /\ r[2] \in Payloads[t]
  BY <1>1 DEF Of
<1> TAKE r
<1>4. r \in Records <=> \E t \in {"intake", "candidate", "qc", "upload", "delivery", "pending"} : r \in Of(t)
  BY DEF Records
<1>5. r \in Records <=> \E t \in {"intake", "candidate", "qc", "upload", "delivery", "pending"} :
                            r = <<r[1], r[2]>> /\ r[1] = t /\ r[2] \in Payloads[t]
  BY <1>3, <1>4
<1> HIDE DEF Payloads
<1>6. CASE r[1] \in {"upload", "delivery"}
  BY <1>2, <1>5, <1>6
<1>7. CASE r[1] \notin {"upload", "delivery"}
  BY <1>2, <1>5, <1>7
<1> QED BY <1>6, <1>7

LEMMA CandidateTyped ==
    ASSUME TypeOK, HasCandidate
    PROVE  Candidate \in Candidates
<1>1. dir["candidate"] \in Seq(Candidates)
  BY DEF TypeOK, Types, Payloads
<1> QED BY <1>1 DEF HasCandidate, Candidate, Last

LEMMA UploadRecorded ==
    ASSUME TypeOK, HasUpload
    PROVE  Upload \in Uploads /\ Contains(dir["upload"], Upload)
<1>1. dir["upload"] \in Seq(Uploads)
  BY DEF TypeOK, Types, Payloads
<1>2. PICK i \in DOMAIN dir["upload"] : Upload = dir["upload"][i]
  BY LatestIsMember DEF HasUpload, Upload, Types
<1> QED BY <1>1, <1>2 DEF Contains

LEMMA PassRecorded ==
    ASSUME TypeOK, QcPassed
    PROVE  Contains(dir["qc"], [candidate |-> Candidate, pass |-> TRUE])
<1> DEFINE Verdicts == [candidate : Candidates, pass : BOOLEAN]
<1>1. dir["qc"] \in Seq(Verdicts)
  BY DEF TypeOK, Types, Payloads
<1>2. PICK i \in DOMAIN dir["qc"] : Latest("qc") = dir["qc"][i] /\ dir["qc"][i].candidate = Candidate
  BY LatestIsMember DEF QcPassed, QcDone, Types
<1>3. dir["qc"][i] \in Verdicts
  <2> HIDE DEF Verdicts
  <2> QED BY <1>1, <1>2
<1>4. dir["qc"][i].pass = TRUE
  BY <1>2, <1>3 DEF QcPassed
<1>5. dir["qc"][i] = [candidate |-> Candidate, pass |-> TRUE]
  BY <1>2, <1>3, <1>4
<1>6. \E k \in 1..Len(dir["qc"]) : dir["qc"][k] = [candidate |-> Candidate, pass |-> TRUE]
  <2> HIDE DEF Verdicts
  <2> QED BY <1>1, <1>5
<1> QED BY <1>6 DEF Contains

LEMMA Decisions ==
    ASSUME TypeOK, NEW o \in Polled, Action(o) # None
    PROVE  /\ Action(o) \in Records
           /\ Action(o)[1] = "pending" => Permitted(Action(o)[2])
<1> DEFINE a == Action(o)
<1>1. \/ a = <<"intake", o.brief>>
      \/ Prepared /\ a = <<"candidate", Generated(o.brief)>>
      \/ HasCandidate /\ a = <<"qc", [candidate |-> Candidate, pass |-> Deliverable]>>
      \/ /\ HasCandidate /\ QcPassed /\ ~HasUpload /\ ~Unresolved("upload", Candidate)
         /\ Deliverable /\ a = <<"pending", [op |-> "upload", ref |-> Candidate]>>
      \/ /\ HasCandidate /\ HasUpload /\ ~HasDelivery /\ ~Unresolved("deliver", Upload)
         /\ Deliverable /\ a = <<"pending", [op |-> "deliver", ref |-> Upload]>>
  BY DEF Action
<1> HIDE DEF a
<1>2. CASE a = <<"intake", o.brief>>
  BY <1>2, RecordsAre DEF a, Polled
<1>3. CASE Prepared /\ a = <<"candidate", Generated(o.brief)>>
  <2>1. Generated(o.brief) \in Candidates
    <3>1. staged \in Assets
      BY <1>3 DEF Prepared, TypeOK
    <3>2. Len(dir["candidate"]) \in Nat
      BY DEF TypeOK, Types
    <3> QED BY <3>1, <3>2 DEF Generated, Candidates, Polled
  <2> QED BY <1>3, <2>1, RecordsAre DEF a
<1>4. CASE HasCandidate /\ a = <<"qc", [candidate |-> Candidate, pass |-> Deliverable]>>
  <2>1. Deliverable \in BOOLEAN
    BY DEF Deliverable
  <2>2. [candidate |-> Candidate, pass |-> Deliverable] \in [candidate : Candidates, pass : BOOLEAN]
    BY <1>4, <2>1, CandidateTyped
  <2> QED BY <1>4, <2>2, RecordsAre DEF a
<1>5. CASE /\ HasCandidate /\ QcPassed /\ ~HasUpload /\ ~Unresolved("upload", Candidate)
           /\ Deliverable /\ a = <<"pending", [op |-> "upload", ref |-> Candidate]>>
  <2>1. [op |-> "upload", ref |-> Candidate] \in Intents
    BY <1>5, CandidateTyped DEF Intents
  <2>2. ~Uploaded(Candidate)
    BY <1>5 DEF HasUpload, Naming, Uploaded
  <2>3. ~Contains(dir["pending"], [op |-> "upload", ref |-> Candidate])
    BY <1>5, <2>2 DEF Unresolved, Pending
  <2>4. Backed([op |-> "upload", ref |-> Candidate])
    BY <1>5, PassRecorded DEF Backed
  <2>5. Permitted([op |-> "upload", ref |-> Candidate])
    BY <1>5, <2>3, <2>4 DEF Permitted, Deliverable
  <2> QED BY <1>5, <2>1, <2>5, RecordsAre DEF a
<1>6. CASE /\ HasCandidate /\ HasUpload /\ ~HasDelivery /\ ~Unresolved("deliver", Upload)
           /\ Deliverable /\ a = <<"pending", [op |-> "deliver", ref |-> Upload]>>
  <2>1. [op |-> "deliver", ref |-> Upload] \in Intents
    BY <1>6, UploadRecorded DEF Intents
  <2>2. ~Contains(dir["pending"], [op |-> "deliver", ref |-> Upload])
    BY <1>6 DEF Unresolved, Pending, HasDelivery
  <2> QED BY <1>6, <2>1, <2>2, RecordsAre, UploadRecorded DEF a, Permitted, Backed, Deliverable
<1> QED BY <1>1, <1>2, <1>3, <1>4, <1>5, <1>6

-----------------------------------------------------------------------------
(* What an artifact write does                                             *)

LEMMA Stores ==
    ASSUME TypeOK, NEW rec \in Records, dir' = Stored(rec)
    PROVE  /\ DOMAIN dir' = Types /\ \A t \in Types : dir'[t] \in Seq(Payloads[t])
           /\ Contains(dir'[rec[1]], rec[2])
           /\ \A t \in Types : \A x : Contains(dir[t], x) => Contains(dir'[t], x)
           /\ \A t \in Types : \A x : Contains(dir'[t], x)
                 => Contains(dir[t], x) \/ (t = rec[1] /\ x = rec[2])
<1>1. rec[1] \in Types /\ rec[2] \in Payloads[rec[1]]
  <2>1. /\ Payloads["intake"] = Briefs /\ Payloads["candidate"] = Candidates
        /\ Payloads["qc"] = [candidate : Candidates, pass : BOOLEAN]
        /\ Payloads["upload"] = Uploads /\ Payloads["delivery"] = Uploads
        /\ Payloads["pending"] = Intents
    BY DEF Payloads
  <2>2. rec[1] \in {"intake", "candidate", "qc", "upload", "delivery", "pending"}
    BY RecordsAre
  <2>3. rec[2] \in Payloads[rec[1]]
    BY <2>1, <2>2, RecordsAre
  <2> QED BY <2>2, <2>3 DEF Types
<1>2. DOMAIN dir = Types /\ \A t \in Types : dir[t] \in Seq(Payloads[t])
  BY DEF TypeOK
<1>3. CASE Contains(dir[rec[1]], rec[2])
  <2>1. dir' = dir
    BY <1>3 DEF Stored
  <2> QED BY <1>2, <1>3, <2>1
<1>4. CASE ~Contains(dir[rec[1]], rec[2])
  <2>0. dir' = [dir EXCEPT ![rec[1]] = Append(@, rec[2])]
    BY <1>4 DEF Stored
  <2> DEFINE S == Payloads[rec[1]]
             s == dir[rec[1]]
  <2>1. s \in Seq(S) /\ rec[2] \in S
    BY <1>1, <1>2
  <2>2. DOMAIN dir' = Types /\ dir'[rec[1]] = Append(s, rec[2])
    BY <1>1, <1>2, <2>0
  <2>3. \A t \in Types : t # rec[1] => dir'[t] = dir[t]
    BY <1>2, <2>0
  <2> HIDE DEF S, s
  <2>4. /\ Append(s, rec[2]) \in Seq(S) /\ Len(Append(s, rec[2])) = Len(s) + 1
        /\ Append(s, rec[2])[Len(s) + 1] = rec[2]
        /\ \A i \in 1..Len(s) : Append(s, rec[2])[i] = s[i]
        /\ Len(s) \in Nat
    BY <2>1
  <2>5. /\ Contains(Append(s, rec[2]), rec[2])
        /\ \A x : Contains(s, x) => Contains(Append(s, rec[2]), x)
        /\ \A x : Contains(Append(s, rec[2]), x) => Contains(s, x) \/ x = rec[2]
    BY <2>4 DEF Contains
  <2>6. S = Payloads[rec[1]] /\ s = dir[rec[1]]
    BY DEF S, s
  <2>7. \A t \in Types : dir'[t] \in Seq(Payloads[t])
    BY <1>2, <2>2, <2>3, <2>4, <2>6
  <2>8. Contains(dir'[rec[1]], rec[2])
    BY <2>2, <2>5
  <2>9. \A t \in Types : \A x : Contains(dir[t], x) => Contains(dir'[t], x)
    BY <2>2, <2>3, <2>5, <2>6
  <2>10. \A t \in Types : \A x : Contains(dir'[t], x)
                                => Contains(dir[t], x) \/ (t = rec[1] /\ x = rec[2])
    <3> TAKE t \in Types
    <3> TAKE x
    <3>1. CASE t = rec[1]
      BY <2>2, <2>5, <2>6, <3>1
    <3>2. CASE t # rec[1]
      BY <2>3, <3>2
    <3> QED BY <3>1, <3>2
  <2> QED BY <2>2, <2>7, <2>8, <2>9, <2>10
<1> QED BY <1>3, <1>4

LEMMA AppendMember ==
    ASSUME NEW S, NEW s \in Seq(S), NEW e \in S, NEW P, P = Append(s, e)
    PROVE  /\ P \in Seq(S) /\ DOMAIN P = 1..(Len(s) + 1) /\ Len(s) \in Nat /\ DOMAIN s = 1..Len(s)
           /\ P[Len(s) + 1] = e /\ \A i \in 1..Len(s) : P[i] = s[i]
  OBVIOUS

-----------------------------------------------------------------------------
(* Types                                                                   *)

LEMMA IntentHeld ==
    ASSUME TypeOK, NEW d \in Daemons, daemon[d].pc = "call"
    PROVE  /\ daemon[d].rec \in Records /\ daemon[d].rec[1] = "pending"
           /\ staged \in Assets /\ stagedFor \in Briefs
           /\ LET p == daemon[d].rec[2]
              IN  /\ p = [op |-> p.op, ref |-> p.ref]
                  /\ \/ p.op = "upload" /\ p.ref \in Candidates
                     \/ p.op = "deliver" /\ p.ref \in Uploads
<1>1. daemon[d].rec \in Records /\ daemon[d].rec[1] = "pending" /\ staged # None
  BY DEF TypeOK
<1>2. daemon[d].rec[2] \in Intents
  BY <1>1, RecordsAre
<1> QED BY <1>1, <1>2 DEF TypeOK, Intents

LEMMA Completes ==
    ASSUME TypeOK, NEW d \in Daemons, daemon[d].pc = "call"
    PROVE  /\ Completion(daemon[d].rec[2]) \in Records
           /\ Completion(daemon[d].rec[2])[1] \in {"upload", "delivery"}
<1> DEFINE p == daemon[d].rec[2]
<1>1. CASE p.op = "upload"
  <2>1. Completion(p) = <<"upload", [candidate |-> p.ref, url |-> Len(uploads) + 1]>>
    BY <1>1 DEF Completion
  <2>2. Len(uploads) + 1 \in Nat \ {0}
    BY DEF TypeOK
  <2>3. [candidate |-> p.ref, url |-> Len(uploads) + 1] \in Uploads
    BY <1>1, <2>2, IntentHeld DEF Uploads
  <2> QED BY <2>1, <2>3, RecordsAre
<1>2. CASE p.op = "deliver"
  <2>1. Completion(p) = <<"delivery", p.ref>>
    BY <1>2 DEF Completion
  <2> QED BY <1>2, <2>1, IntentHeld, RecordsAre
<1> QED BY <1>1, <1>2, IntentHeld

LEMMA EffectTyped ==
    ASSUME TypeOK, NEW d \in Daemons, daemon[d].pc = "call", Effect(d)
    PROVE  /\ uploads' \in Seq([candidate : Candidates, asset : Assets, for : Briefs])
           /\ deliveries' \in Seq(Uploads)
<1> DEFINE p == daemon[d].rec[2]
           S == [candidate : Candidates, asset : Assets, for : Briefs]
<1>1. uploads \in Seq(S) /\ deliveries \in Seq(Uploads)
  BY DEF TypeOK
<1>2. CASE p.op = "upload"
  <2>1. [candidate |-> p.ref, asset |-> staged, for |-> stagedFor] \in S
    BY <1>2, IntentHeld
  <2>2. uploads' = Append(uploads, [candidate |-> p.ref, asset |-> staged, for |-> stagedFor])
        /\ deliveries' = deliveries
    BY <1>2 DEF Effect
  <2>3. uploads' \in Seq(S)
    <3> HIDE DEF S, p
    <3> QED BY <1>1, <2>1, <2>2
  <2> QED BY <1>1, <2>2, <2>3
<1>3. CASE p.op = "deliver"
  <2>1. p.ref \in Uploads
    BY <1>3, IntentHeld
  <2>2. deliveries' = Append(deliveries, p.ref) /\ uploads' = uploads
    BY <1>3 DEF Effect
  <2>3. deliveries' \in Seq(Uploads)
    <3> HIDE DEF S, p
    <3> QED BY <1>1, <2>1, <2>2
  <2> QED BY <1>1, <2>2, <2>3
<1> QED BY <1>2, <1>3, IntentHeld

LEMMA TypeStep ==
    ASSUME TypeOK, Next
    PROVE  TypeOK'
<1> USE DEF Spend, Become
<1>1. ASSUME NEW b \in Briefs, ChangeBrief(b) PROVE TypeOK'
  BY <1>1 DEF ChangeBrief, TypeOK, Polled, history
<1>2. CASE MarkDelivered
  BY <1>2 DEF MarkDelivered, TypeOK, Polled, history
<1>3. ASSUME NEW a \in Assets, Stage(a) PROVE TypeOK'
  BY <1>3 DEF Stage, TypeOK, Polled
<1>4. ASSUME NEW d \in Daemons PROVE
         Pass(d) \/ CallRefused(d) \/ CallUnanswered(d) \/ Crash(d) \/ CrashInWrite(d) => TypeOK'
  <2>0. /\ daemon \in [Daemons -> PassType] /\ daemon[d] \in PassType
        /\ daemon[d].pc \in {"poll", "load", "write", "call"}
        /\ Idle \in PassType /\ Idle.pc = "poll"
    BY DEF TypeOK, PassType, Idle
  <2>1. CASE Poll(d)
    <3>1. order \in Polled
      BY DEF TypeOK
    <3> DEFINE f == [Idle EXCEPT !.pc = "load", !.order = order]
    <3>2. f \in PassType /\ f.pc = "load" /\ f.order \in Polled
      BY <3>1 DEF Idle, PassType
    <3>3. daemon' = [daemon EXCEPT ![d] = f]
      BY <2>1 DEF Poll
    <3> HIDE DEF f
    <3> QED BY <2>0, <2>1, <3>2, <3>3 DEF Poll, TypeOK, history
  <2>2. CASE Reconcile(d)
    <3> DEFINE rec == Action(daemon[d].order)
               f   == [daemon[d] EXCEPT !.pc = "write", !.rec = rec]
    <3>1. daemon[d].order \in Polled
      BY <2>2 DEF Reconcile, TypeOK
    <3>2. rec # None => rec \in Records /\ (rec[1] = "pending" => staged # None)
      BY <3>1, Decisions DEF Permitted
    <3>3. rec # None => f \in PassType /\ f.pc = "write" /\ f.rec = rec
      BY <2>0, <3>2 DEF PassType
    <3>4. \/ daemon' = [daemon EXCEPT ![d] = Idle]
          \/ rec # None /\ daemon' = [daemon EXCEPT ![d] = f]
      BY <2>2 DEF Reconcile
    <3> HIDE DEF rec, f
    <3> QED BY <2>0, <2>2, <3>2, <3>3, <3>4 DEF Reconcile, TypeOK, history
  <2>3. CASE AppendArtifact(d)
    <3> DEFINE rec == daemon[d].rec
               f   == [daemon[d] EXCEPT !.pc = "call"]
    <3>1. daemon[d].pc = "write" /\ rec \in Records /\ (rec[1] = "pending" => staged # None)
      BY <2>3 DEF AppendArtifact, TypeOK
    <3>2. f \in PassType /\ f.pc = "call" /\ f.rec = rec
      BY <2>0 DEF PassType
    <3>3. \/ daemon' = [daemon EXCEPT ![d] = Idle]
          \/ rec[1] = "pending" /\ daemon' = [daemon EXCEPT ![d] = f]
      BY <2>3 DEF AppendArtifact
    <3>4. DOMAIN dir' = Types /\ \A t \in Types : dir'[t] \in Seq(Payloads[t])
      BY <2>3, <3>1, Stores DEF AppendArtifact, TypeOK
    <3> HIDE DEF rec, f
    <3> QED BY <2>0, <2>3, <3>1, <3>2, <3>3, <3>4 DEF AppendArtifact, TypeOK, history
  <2>4. CASE CallSucceeds(d)
    <3> DEFINE f == [daemon[d] EXCEPT !.pc = "write", !.rec = Completion(daemon[d].rec[2])]
    <3>1. daemon[d].pc = "call" /\ daemon' = [daemon EXCEPT ![d] = f]
      BY <2>4 DEF CallSucceeds
    <3>2. Completion(daemon[d].rec[2]) \in Records /\ Completion(daemon[d].rec[2])[1] # "pending"
      BY <3>1, Completes
    <3>3. f \in PassType /\ f.pc = "write" /\ f.rec = Completion(daemon[d].rec[2])
      BY <2>0, <3>2 DEF PassType
    <3>4. /\ uploads' \in Seq([candidate : Candidates, asset : Assets, for : Briefs])
          /\ deliveries' \in Seq(Uploads)
      BY <2>4, <3>1, EffectTyped DEF CallSucceeds
    <3> HIDE DEF f
    <3> QED BY <2>0, <2>4, <3>1, <3>2, <3>3, <3>4 DEF CallSucceeds, TypeOK
  <2>5. CASE CallRefused(d)
    BY <2>0, <2>5 DEF CallRefused, TypeOK, history
  <2>6. CASE CallUnanswered(d)
    <3>1. /\ uploads' \in Seq([candidate : Candidates, asset : Assets, for : Briefs])
          /\ deliveries' \in Seq(Uploads)
      BY <2>6, EffectTyped DEF CallUnanswered
    <3> QED BY <2>0, <2>6, <3>1 DEF CallUnanswered, TypeOK
  <2>7. CASE Crash(d)
    BY <2>0, <2>7 DEF Crash, TypeOK, history
  <2>8. CASE CrashInWrite(d)
    BY <2>0, <2>8 DEF CrashInWrite, TypeOK, history
  <2> QED BY <2>1, <2>2, <2>3, <2>4, <2>5, <2>6, <2>7, <2>8 DEF Pass
<1> QED BY <1>1, <1>2, <1>3, <1>4 DEF Next

(* Every variable keeps its type, a daemon that writes or calls has the    *)
(* record it needs, and calls are made with a staged file, for any number  *)
(* of daemons, briefs, assets and faults.                                  *)
THEOREM TypeCorrect == Spec => []TypeOK
<1>1. Init => TypeOK
  <2> SUFFICES ASSUME Init PROVE TypeOK
    OBVIOUS
  <2>1. Idle \in PassType /\ Idle.pc = "poll"
    BY DEF Idle, PassType
  <2>2. order \in Polled
    BY DEF Init, Polled
  <2>3. DOMAIN dir = Types /\ \A t \in Types : dir[t] \in Seq(Payloads[t])
    BY DEF Init
  <2>4. \A S : <<>> \in Seq(S)
    OBVIOUS
  <2> QED BY <2>1, <2>2, <2>3, <2>4 DEF Init, TypeOK
<1>2. TypeOK /\ [Next]_vars => TypeOK'
  <2>1. TypeOK /\ UNCHANGED vars => TypeOK'
    BY DEF TypeOK, vars
  <2> QED BY <2>1, TypeStep
<1> QED BY <1>1, <1>2, PTL DEF Spec

-----------------------------------------------------------------------------
(* What a step can do to intents and effects                               *)

Holding(f) == f.pc \in {"write", "call"} /\ f.rec[1] = "pending"

LEMMA Kinds ==
    ASSUME TypeOK, Next
    PROVE  \/ /\ UNCHANGED <<dir, uploads, deliveries>>
              /\ \A e \in Daemons : Holding(daemon'[e])
                    => \/ daemon'[e] = daemon[e]
                       \/ daemon'[e].pc = "write" /\ Permitted(daemon'[e].rec[2])
           \/ \E d \in Daemons : AppendArtifact(d)
           \/ \E d \in Daemons :
                 /\ daemon[d].pc = "call" /\ Effect(d) /\ UNCHANGED dir
                 /\ \A e \in Daemons : Holding(daemon'[e]) => e # d /\ daemon'[e] = daemon[e]
<1> DEFINE Quiet == /\ UNCHANGED <<dir, uploads, deliveries>>
                    /\ \A e \in Daemons : Holding(daemon'[e])
                          => \/ daemon'[e] = daemon[e]
                             \/ daemon'[e].pc = "write" /\ Permitted(daemon'[e].rec[2])
           Called(d) == /\ daemon[d].pc = "call" /\ Effect(d) /\ UNCHANGED dir
                        /\ \A e \in Daemons : Holding(daemon'[e]) => e # d /\ daemon'[e] = daemon[e]
<1> USE DEF Become, Idle
<1>0. daemon \in [Daemons -> PassType]
  BY DEF TypeOK
<1>1. ASSUME NEW b \in Briefs, ChangeBrief(b) PROVE Quiet
  BY <1>1 DEF ChangeBrief, history
<1>2. ASSUME MarkDelivered PROVE Quiet
  BY <1>2 DEF MarkDelivered, history
<1>3. ASSUME NEW a \in Assets, Stage(a) PROVE Quiet
  BY <1>3 DEF Stage
<1>4. ASSUME NEW d \in Daemons,
             Poll(d) \/ Reconcile(d) \/ CallRefused(d) \/ Crash(d) \/ CrashInWrite(d)
      PROVE  Quiet
  <2>1. UNCHANGED <<dir, uploads, deliveries>>
    BY <1>4 DEF Poll, Reconcile, CallRefused, Crash, CrashInWrite, history
  <2>2. daemon[d] \in PassType
    BY <1>0
  <2>3. \A e \in Daemons : e # d => daemon'[e] = daemon[e]
    BY <1>0, <1>4 DEF Poll, Reconcile, CallRefused, Crash, CrashInWrite
  <2>4. CASE Poll(d)
    <3>1. daemon'[d].pc = "load"
      BY <1>0, <2>4 DEF Poll
    <3> QED BY <2>1, <2>3, <3>1 DEF Holding
  <2>5. CASE Reconcile(d)
    <3> DEFINE rec == Action(daemon[d].order)
    <3>1. daemon[d].order \in Polled
      BY <2>5 DEF Reconcile, TypeOK
    <3>2. rec # None => (rec[1] = "pending" => Permitted(rec[2]))
      BY <3>1, Decisions
    <3>3. \/ daemon' = [daemon EXCEPT ![d] = Idle]
          \/ rec # None /\ daemon' = [daemon EXCEPT ![d] = [daemon[d] EXCEPT !.pc = "write", !.rec = rec]]
      BY <2>5 DEF Reconcile
    <3> DEFINE f == [daemon[d] EXCEPT !.pc = "write", !.rec = rec]
    <3> HIDE DEF rec
    <3>4. f.pc = "write" /\ f.rec = rec
      BY <2>2 DEF PassType
    <3> HIDE DEF f
    <3>5. daemon'[d].pc = "poll" \/ (daemon'[d] = f /\ rec # None)
      BY <1>0, <3>3 DEF f
    <3> QED BY <2>1, <2>3, <3>2, <3>4, <3>5 DEF Holding
  <2>6. CASE CallRefused(d) \/ Crash(d) \/ CrashInWrite(d)
    <3>1. daemon' = [daemon EXCEPT ![d] = Idle]
      BY <2>6 DEF CallRefused, Crash, CrashInWrite
    <3>2. daemon'[d].pc = "poll"
      BY <1>0, <3>1
    <3> QED BY <2>1, <2>3, <3>2 DEF Holding
  <2> QED BY <1>4, <2>4, <2>5, <2>6
<1>5. ASSUME NEW d \in Daemons, CallSucceeds(d) \/ CallUnanswered(d)
      PROVE  Called(d)
  <2>1. daemon[d].pc = "call" /\ Effect(d) /\ UNCHANGED dir /\ daemon[d] \in PassType
    BY <1>0, <1>5 DEF CallSucceeds, CallUnanswered
  <2>2. \A e \in Daemons : e # d => daemon'[e] = daemon[e]
    BY <1>0, <1>5 DEF CallSucceeds, CallUnanswered
  <2> DEFINE c == Completion(daemon[d].rec[2])
             f == [daemon[d] EXCEPT !.pc = "write", !.rec = c]
  <2>3. daemon' = [daemon EXCEPT ![d] = Idle] \/ daemon' = [daemon EXCEPT ![d] = f]
    BY <1>5 DEF CallSucceeds, CallUnanswered
  <2>4. c[1] # "pending"
    BY <2>1, Completes
  <2> HIDE DEF c
  <2>5. f.rec = c
    BY <2>1 DEF PassType
  <2> HIDE DEF f
  <2>6. daemon'[d].pc = "poll" \/ daemon'[d].rec[1] # "pending"
    BY <1>0, <2>3, <2>4, <2>5
  <2>7. ~Holding(daemon'[d])
    BY <2>6 DEF Holding
  <2> QED BY <2>1, <2>2, <2>7
<1> HIDE DEF Quiet, Called, Become, Idle
<1>6. Quiet \/ (\E d \in Daemons : AppendArtifact(d)) \/ (\E d \in Daemons : Called(d))
  <2>1. CASE \E b \in Briefs : ChangeBrief(b)
    BY <1>1, <2>1
  <2>2. CASE \E a \in Assets : Stage(a)
    BY <1>3, <2>2
  <2>3. CASE \E d \in Daemons : Pass(d) \/ CallRefused(d) \/ CallUnanswered(d)
                                   \/ Crash(d) \/ CrashInWrite(d)
    <3>1. PICK d \in Daemons : \/ Poll(d) \/ Reconcile(d) \/ CallRefused(d) \/ Crash(d) \/ CrashInWrite(d)
                             \/ CallSucceeds(d) \/ CallUnanswered(d)
                             \/ AppendArtifact(d)
      BY <2>3 DEF Pass
    <3>2. CASE Poll(d) \/ Reconcile(d) \/ CallRefused(d) \/ Crash(d) \/ CrashInWrite(d)
      BY <1>4, <3>2
    <3>3. CASE CallSucceeds(d) \/ CallUnanswered(d)
      BY <1>5, <3>3
    <3>4. CASE AppendArtifact(d)
      BY <3>4
    <3> QED BY <3>1, <3>2, <3>3, <3>4
  <2>4. CASE MarkDelivered
    BY <1>2, <2>4
  <2> QED BY <2>1, <2>2, <2>3, <2>4 DEF Next
<1> QED BY <1>6 DEF Quiet, Called

LEMMA Appended ==
    ASSUME TypeOK, NEW d \in Daemons, AppendArtifact(d)
    PROVE  /\ UNCHANGED <<uploads, deliveries>>
           /\ \A t \in Types : \A x : Contains(dir[t], x) => Contains(dir'[t], x)
           /\ \A e \in Daemons : e # d => daemon'[e] = daemon[e]
           /\ Holding(daemon'[d]) => /\ daemon[d].pc = "write" /\ Holding(daemon[d])
                                     /\ daemon'[d].pc = "call" /\ daemon'[d].rec = daemon[d].rec
                                     /\ Contains(dir'["pending"], daemon[d].rec[2])
<1> DEFINE rec == daemon[d].rec
           f   == [daemon[d] EXCEPT !.pc = "call"]
<1>1. UNCHANGED <<uploads, deliveries>>
  BY DEF AppendArtifact, history
<1>2. daemon \in [Daemons -> PassType] /\ daemon[d].pc = "write" /\ rec \in Records
  BY DEF AppendArtifact, TypeOK
<1>3. /\ dir' = dir \/ dir' = Stored(rec)
      /\ rec \notin torn => dir' = Stored(rec)
  BY DEF AppendArtifact
<1>4. \A t \in Types : \A x : Contains(dir[t], x) => Contains(dir'[t], x)
  BY <1>2, <1>3, Stores
<1>5. \/ daemon' = [daemon EXCEPT ![d] = Idle]
      \/ daemon' = [daemon EXCEPT ![d] = f] /\ rec[1] = "pending" /\ rec \notin torn
  BY DEF AppendArtifact, Become
<1>6. f.pc = "call" /\ f.rec = rec
  BY <1>2 DEF PassType
<1>7. Idle.pc = "poll"
  BY DEF Idle
<1> HIDE DEF f
<1>8. \A e \in Daemons : e # d => daemon'[e] = daemon[e]
  BY <1>2, <1>5
<1>9. ASSUME Holding(daemon'[d])
      PROVE  daemon'[d] = f /\ rec[1] = "pending" /\ rec \notin torn
  BY <1>2, <1>5, <1>7, <1>9 DEF Holding
<1>10. ASSUME Holding(daemon'[d]) PROVE Contains(dir'["pending"], rec[2])
  BY <1>2, <1>3, <1>9, <1>10, Stores
<1> QED BY <1>1, <1>2, <1>4, <1>6, <1>8, <1>9, <1>10 DEF Holding

LEMMA NewEffect ==
    ASSUME TypeOK, NEW d \in Daemons, daemon[d].pc = "call", Effect(d)
    PROVE  LET p == daemon[d].rec[2]
               n == Len(uploads)
               m == Len(deliveries)
           IN  /\ n \in Nat /\ DOMAIN uploads = 1..n /\ m \in Nat /\ DOMAIN deliveries = 1..m
               /\ p = [op |-> p.op, ref |-> p.ref]
               /\ \/ /\ p.op = "upload" /\ deliveries' = deliveries
                     /\ DOMAIN uploads' = 1..(n + 1) /\ uploads'[n + 1].candidate = p.ref
                     /\ \A i \in 1..n : uploads'[i] = uploads[i]
                  \/ /\ p.op = "deliver" /\ uploads' = uploads
                     /\ DOMAIN deliveries' = 1..(m + 1) /\ deliveries'[m + 1] = p.ref
                     /\ \A i \in 1..m : deliveries'[i] = deliveries[i]
<1> DEFINE p == daemon[d].rec[2]
           Sent == [candidate : Candidates, asset : Assets, for : Briefs]
<1>1. /\ staged \in Assets /\ stagedFor \in Briefs
      /\ p = [op |-> p.op, ref |-> p.ref]
      /\ \/ p.op = "upload" /\ p.ref \in Candidates
         \/ p.op = "deliver" /\ p.ref \in Uploads
  BY IntentHeld
<1>2. uploads \in Seq(Sent) /\ deliveries \in Seq(Uploads)
  BY DEF TypeOK
<1>3. CASE p.op = "upload"
  <2> DEFINE u == [candidate |-> p.ref, asset |-> staged, for |-> stagedFor]
  <2>1. uploads' = Append(uploads, u) /\ deliveries' = deliveries
    BY <1>3 DEF Effect
  <2>2. u \in Sent /\ u.candidate = p.ref
    BY <1>1, <1>3
  <2> HIDE DEF u, Sent
  <2> QED BY <1>1, <1>2, <1>3, <2>1, <2>2, AppendMember
<1>4. CASE p.op = "deliver"
  <2>1. deliveries' = Append(deliveries, p.ref) /\ uploads' = uploads
    BY <1>4 DEF Effect
  <2> HIDE DEF Sent
  <2> QED BY <1>1, <1>2, <1>4, <2>1, AppendMember
<1> QED BY <1>1, <1>3, <1>4

-----------------------------------------------------------------------------
(* Intents, checks and replays                                             *)

(* A daemon that makes a call has its intent in the directory.             *)
CallsRecorded ==
    \A d \in Daemons : daemon[d].pc = "call" => Contains(dir["pending"], daemon[d].rec[2])

IntentInv == TypeOK /\ IntentsPrecedeEffects /\ CallsRecorded

LEMMA IntentStep ==
    ASSUME IntentInv, Next
    PROVE  IntentsPrecedeEffects' /\ CallsRecorded'
<1>1. TypeOK /\ IntentsPrecedeEffects /\ CallsRecorded /\ TypeOK'
  BY TypeStep DEF IntentInv
<1>2. \A e \in Daemons : daemon'[e].pc = "call" => Holding(daemon'[e])
  BY <1>1 DEF TypeOK, Holding
<1>3. CASE /\ UNCHANGED <<dir, uploads, deliveries>>
           /\ \A e \in Daemons : Holding(daemon'[e])
                 => \/ daemon'[e] = daemon[e]
                    \/ daemon'[e].pc = "write" /\ Permitted(daemon'[e].rec[2])
  <2>1. IntentsPrecedeEffects'
    BY <1>1, <1>3 DEF IntentsPrecedeEffects, Pending
  <2>2. CallsRecorded'
    BY <1>1, <1>2, <1>3 DEF CallsRecorded
  <2> QED BY <2>1, <2>2
<1>4. ASSUME NEW d \in Daemons, AppendArtifact(d)
      PROVE  IntentsPrecedeEffects' /\ CallsRecorded'
  <2>1. /\ UNCHANGED <<uploads, deliveries>>
        /\ \A x : Contains(dir["pending"], x) => Contains(dir'["pending"], x)
        /\ \A e \in Daemons : e # d => daemon'[e] = daemon[e]
        /\ Holding(daemon'[d]) => /\ daemon'[d].rec = daemon[d].rec
                                  /\ Contains(dir'["pending"], daemon[d].rec[2])
    BY <1>1, <1>4, Appended DEF Types
  <2>2. IntentsPrecedeEffects'
    BY <1>1, <2>1 DEF IntentsPrecedeEffects, Pending
  <2>3. CallsRecorded'
    BY <1>1, <1>2, <2>1 DEF CallsRecorded
  <2> QED BY <2>2, <2>3
<1>5. ASSUME NEW d \in Daemons, daemon[d].pc = "call", Effect(d), UNCHANGED dir,
             \A e \in Daemons : Holding(daemon'[e]) => e # d /\ daemon'[e] = daemon[e]
      PROVE  IntentsPrecedeEffects' /\ CallsRecorded'
  <2> DEFINE p == daemon[d].rec[2]
             n == Len(uploads)
             m == Len(deliveries)
  <2>1. /\ n \in Nat /\ DOMAIN uploads = 1..n /\ m \in Nat /\ DOMAIN deliveries = 1..m
        /\ p = [op |-> p.op, ref |-> p.ref]
        /\ \/ /\ p.op = "upload" /\ deliveries' = deliveries
              /\ DOMAIN uploads' = 1..(n + 1) /\ uploads'[n + 1].candidate = p.ref
              /\ \A i \in 1..n : uploads'[i] = uploads[i]
           \/ /\ p.op = "deliver" /\ uploads' = uploads
              /\ DOMAIN deliveries' = 1..(m + 1) /\ deliveries'[m + 1] = p.ref
              /\ \A i \in 1..m : deliveries'[i] = deliveries[i]
    BY <1>1, <1>5, NewEffect
  <2>2. Pending(p.op, p.ref)
    BY <1>1, <1>5, <2>1 DEF CallsRecorded, Pending
  <2> HIDE DEF p, n, m
  <2>3. IntentsPrecedeEffects'
    <3>1. \A op, ref : Pending(op, ref)' <=> Pending(op, ref)
      BY <1>5 DEF Pending
    <3>2. CASE p.op = "upload"
      <4>1. \A i \in 1..(n + 1) : i = n + 1 \/ i \in 1..n
        BY <2>1
      <4>2. \A i \in 1..n : Pending("upload", uploads[i].candidate)
        BY <1>1, <2>1 DEF IntentsPrecedeEffects
      <4> QED BY <1>1, <2>1, <2>2, <3>1, <3>2, <4>1, <4>2 DEF IntentsPrecedeEffects
    <3>3. CASE p.op = "deliver"
      <4>1. \A i \in 1..(m + 1) : i = m + 1 \/ i \in 1..m
        BY <2>1
      <4>2. \A i \in 1..m : Pending("deliver", deliveries[i])
        BY <1>1, <2>1 DEF IntentsPrecedeEffects
      <4> QED BY <1>1, <2>1, <2>2, <3>1, <3>3, <4>1, <4>2 DEF IntentsPrecedeEffects
    <3> QED BY <2>1, <3>2, <3>3
  <2>4. CallsRecorded'
    BY <1>1, <1>2, <1>5 DEF CallsRecorded
  <2> QED BY <2>3, <2>4
<1> QED BY <1>1, <1>3, <1>4, <1>5, Kinds

(* D-0005 for any number of daemons, briefs, assets and faults: every      *)
(* upload and every delivery the marketplace saw has its intent on disk,   *)
(* so no crash can leave an effect the next pass does not know about.      *)
THEOREM IntentsFirst == Spec => []IntentsPrecedeEffects
<1>1. Init => IntentsPrecedeEffects /\ CallsRecorded
  <2> SUFFICES ASSUME Init PROVE IntentsPrecedeEffects /\ CallsRecorded
    OBVIOUS
  <2>1. \A d \in Daemons : daemon[d].pc = "poll"
    BY DEF Init, Idle
  <2> QED BY <2>1 DEF Init, IntentsPrecedeEffects, CallsRecorded
<1>2. TypeOK /\ TypeOK' /\ IntentsPrecedeEffects /\ CallsRecorded /\ [Next]_vars
         => IntentsPrecedeEffects' /\ CallsRecorded'
  <2>1. IntentsPrecedeEffects /\ CallsRecorded /\ UNCHANGED vars
           => IntentsPrecedeEffects' /\ CallsRecorded'
    BY DEF IntentsPrecedeEffects, CallsRecorded, Pending, vars
  <2> QED BY <2>1, IntentStep DEF IntentInv
<1> QED BY <1>1, <1>2, TypeCorrect, PTL DEF Spec

(* An intent a daemon holds has passed its check.                          *)
HeldBacked == \A d \in Daemons : Holding(daemon[d]) => Backed(daemon[d].rec[2])

LEMMA CheckedStep ==
    ASSUME TypeOK, OnlyCheckedIsSent, HeldBacked, Next
    PROVE  OnlyCheckedIsSent' /\ HeldBacked'
<1>0. \A d \in Daemons : daemon[d].pc = "call" => Holding(daemon[d])
  BY DEF TypeOK, Holding
<1>1. CASE /\ UNCHANGED <<dir, uploads, deliveries>>
           /\ \A e \in Daemons : Holding(daemon'[e])
                 => \/ daemon'[e] = daemon[e]
                    \/ daemon'[e].pc = "write" /\ Permitted(daemon'[e].rec[2])
  <2>1. OnlyCheckedIsSent'
    BY <1>1 DEF OnlyCheckedIsSent
  <2>2. \A q : Backed(q) => Backed(q)'
    BY <1>1 DEF Backed
  <2>3. \A e \in Daemons : Holding(daemon'[e]) => Backed(daemon'[e].rec[2])
    BY <1>1 DEF HeldBacked, Permitted
  <2> QED BY <1>1, <2>1, <2>3 DEF HeldBacked, Holding, Backed
<1>2. ASSUME NEW d \in Daemons, AppendArtifact(d)
      PROVE  OnlyCheckedIsSent' /\ HeldBacked'
  <2>1. /\ UNCHANGED <<uploads, deliveries>>
        /\ \A t \in Types : \A x : Contains(dir[t], x) => Contains(dir'[t], x)
        /\ \A e \in Daemons : e # d => daemon'[e] = daemon[e]
        /\ Holding(daemon'[d]) => Holding(daemon[d]) /\ daemon'[d].rec = daemon[d].rec
    BY <1>2, Appended
  <2>2. OnlyCheckedIsSent'
    BY <2>1 DEF OnlyCheckedIsSent, Types
  <2>3. \A q : Backed(q) => Backed(q)'
    BY <2>1 DEF Backed, Types
  <2>4. \A e \in Daemons : Holding(daemon'[e])
           => Holding(daemon[e]) /\ daemon'[e].rec = daemon[e].rec
    BY <2>1
  <2>5. \A e \in Daemons : Holding(daemon'[e]) => Backed(daemon[e].rec[2])'
    BY <2>3, <2>4 DEF HeldBacked
  <2> QED BY <2>2, <2>5 DEF HeldBacked, Holding
<1>3. ASSUME NEW d \in Daemons, daemon[d].pc = "call", Effect(d), UNCHANGED dir,
             \A e \in Daemons : Holding(daemon'[e]) => e # d /\ daemon'[e] = daemon[e]
      PROVE  OnlyCheckedIsSent' /\ HeldBacked'
  <2> DEFINE p == daemon[d].rec[2]
             n == Len(uploads)
             m == Len(deliveries)
  <2>1. /\ n \in Nat /\ DOMAIN uploads = 1..n /\ m \in Nat /\ DOMAIN deliveries = 1..m
        /\ \/ /\ p.op = "upload" /\ deliveries' = deliveries
              /\ DOMAIN uploads' = 1..(n + 1) /\ uploads'[n + 1].candidate = p.ref
              /\ \A i \in 1..n : uploads'[i] = uploads[i]
           \/ /\ p.op = "deliver" /\ uploads' = uploads
              /\ DOMAIN deliveries' = 1..(m + 1) /\ deliveries'[m + 1] = p.ref
              /\ \A i \in 1..m : deliveries'[i] = deliveries[i]
    BY <1>3, NewEffect
  <2>2. Backed(p)
    BY <1>0, <1>3 DEF HeldBacked
  <2> HIDE DEF p, n, m
  <2>3. \A i : i \in 1..(n + 1) <=> i = n + 1 \/ i \in 1..n
    BY <2>1
  <2>4. \A i : i \in 1..(m + 1) <=> i = m + 1 \/ i \in 1..m
    BY <2>1
  <2>5. ASSUME p.op = "upload" PROVE OnlyCheckedIsSent'
    BY <1>3, <2>1, <2>2, <2>3, <2>5 DEF OnlyCheckedIsSent, Backed
  <2>6. ASSUME p.op = "deliver" PROVE OnlyCheckedIsSent'
    BY <1>3, <2>1, <2>2, <2>4, <2>6 DEF OnlyCheckedIsSent, Backed
  <2>7. OnlyCheckedIsSent'
    BY <2>1, <2>5, <2>6
  <2>8. \A e \in Daemons : Holding(daemon'[e]) => Backed(daemon'[e].rec[2])
    BY <1>3 DEF HeldBacked
  <2>9. HeldBacked'
    BY <1>3, <2>8 DEF HeldBacked, Holding, Backed
  <2> QED BY <2>7, <2>9
<1> QED BY <1>1, <1>2, <1>3, Kinds

(* For any number of daemons, whatever changes and crashes in between: an  *)
(* upload is of a candidate whose own QC record says it passed, and a      *)
(* delivery is of an upload whose answer was recorded.                     *)
THEOREM NothingUnchecked == Spec => []OnlyCheckedIsSent
<1>1. Init => OnlyCheckedIsSent /\ HeldBacked
  <2> SUFFICES ASSUME Init PROVE OnlyCheckedIsSent /\ HeldBacked
    OBVIOUS
  <2>1. \A d \in Daemons : daemon[d].pc = "poll"
    BY DEF Init, Idle
  <2> QED BY <2>1 DEF Init, OnlyCheckedIsSent, HeldBacked, Holding
<1>2. TypeOK /\ OnlyCheckedIsSent /\ HeldBacked /\ [Next]_vars
         => OnlyCheckedIsSent' /\ HeldBacked'
  <2>1. OnlyCheckedIsSent /\ HeldBacked /\ UNCHANGED vars => OnlyCheckedIsSent' /\ HeldBacked'
    BY DEF OnlyCheckedIsSent, HeldBacked, Holding, Backed, vars
  <2> QED BY <2>1, CheckedStep
<1> QED BY <1>1, <1>2, TypeCorrect, PTL DEF Spec

-----------------------------------------------------------------------------
(* The effect an intent stands for has been made.                          *)
Made(p) == IF p.op = "upload" THEN \E i \in DOMAIN uploads : uploads[i].candidate = p.ref
                              ELSE \E i \in DOMAIN deliveries : deliveries[i] = p.ref

(* With one daemon, an intent is about to be written only if it is not on  *)
(* disk, and its call is made only if its effect has not happened.         *)
Fresh(d) ==
    /\ Holding(daemon[d]) /\ daemon[d].pc = "write" => ~Contains(dir["pending"], daemon[d].rec[2])
    /\ daemon[d].pc = "call" => ~Made(daemon[d].rec[2])

FreshPasses == \A d \in Daemons : Fresh(d)

LEMMA ReplayStep ==
    ASSUME NEW d, Daemons = {d}, IntentInv, NoReplay, FreshPasses, Next
    PROVE  NoReplay' /\ FreshPasses'
<1> SUFFICES NoReplay' /\ Fresh(d)'
  BY DEF FreshPasses
<1>0. TypeOK /\ IntentsPrecedeEffects /\ d \in Daemons /\ TypeOK' /\ Fresh(d)
  BY TypeStep DEF IntentInv, FreshPasses
<1>1. daemon'[d].pc = "call" => Holding(daemon'[d])
  BY <1>0 DEF TypeOK, Holding
<1>2. CASE /\ UNCHANGED <<dir, uploads, deliveries>>
           /\ \A e \in Daemons : Holding(daemon'[e])
                 => \/ daemon'[e] = daemon[e]
                    \/ daemon'[e].pc = "write" /\ Permitted(daemon'[e].rec[2])
  <2>1. NoReplay'
    BY <1>2 DEF NoReplay
  <2>2. CASE ~Holding(daemon'[d])
    BY <1>1, <2>1, <2>2 DEF Fresh, Holding
  <2>3. CASE daemon'[d] = daemon[d]
    BY <1>0, <1>2, <2>1, <2>3 DEF Fresh, Holding, Made
  <2>4. CASE daemon'[d].pc = "write" /\ Permitted(daemon'[d].rec[2])
    BY <1>2, <2>1, <2>4 DEF Fresh, Holding, Permitted
  <2> QED BY <1>0, <1>2, <2>1, <2>2, <2>3, <2>4
<1>3. CASE AppendArtifact(d)
  <2>1. /\ UNCHANGED <<uploads, deliveries>>
        /\ Holding(daemon'[d]) => /\ daemon[d].pc = "write" /\ Holding(daemon[d])
                                  /\ daemon'[d].pc = "call" /\ daemon'[d].rec = daemon[d].rec
    BY <1>0, <1>3, Appended
  <2>2. NoReplay'
    BY <2>1 DEF NoReplay
  <2>3. CASE ~Holding(daemon'[d])
    BY <1>1, <2>2, <2>3 DEF Fresh, Holding
  <2>4. CASE Holding(daemon'[d])
    <3> DEFINE p == daemon[d].rec[2]
    <3>1. ~Contains(dir["pending"], p)
      BY <1>0, <2>1, <2>4 DEF Fresh
    <3>2. p = [op |-> p.op, ref |-> p.ref] /\ p.op \in {"upload", "deliver"}
      <4>1. daemon[d].rec \in Records /\ daemon[d].rec[1] = "pending"
        BY <1>0, <2>1, <2>4 DEF TypeOK, Holding
      <4>2. p \in Intents
        BY <4>1, RecordsAre
      <4> QED BY <4>2 DEF Intents
    <3>3. Made(p) => Pending(p.op, p.ref)
      BY <1>0, <3>2 DEF Made, IntentsPrecedeEffects
    <3>4. ~Made(p)
      BY <3>1, <3>2, <3>3 DEF Pending
    <3> QED BY <2>1, <2>2, <2>4, <3>4 DEF Fresh, Made
  <2> QED BY <2>3, <2>4, <2>2
<1>4. CASE /\ daemon[d].pc = "call" /\ Effect(d) /\ UNCHANGED dir
           /\ \A e \in Daemons : Holding(daemon'[e]) => e # d /\ daemon'[e] = daemon[e]
  <2> DEFINE p == daemon[d].rec[2]
             n == Len(uploads)
             m == Len(deliveries)
  <2>1. /\ n \in Nat /\ DOMAIN uploads = 1..n /\ m \in Nat /\ DOMAIN deliveries = 1..m
        /\ \/ /\ p.op = "upload" /\ deliveries' = deliveries
              /\ DOMAIN uploads' = 1..(n + 1) /\ uploads'[n + 1].candidate = p.ref
              /\ \A i \in 1..n : uploads'[i] = uploads[i]
           \/ /\ p.op = "deliver" /\ uploads' = uploads
              /\ DOMAIN deliveries' = 1..(m + 1) /\ deliveries'[m + 1] = p.ref
              /\ \A i \in 1..m : deliveries'[i] = deliveries[i]
    BY <1>0, <1>4, NewEffect
  <2>2. ~Made(p)
    BY <1>0, <1>4 DEF Fresh
  <2>3. ~Holding(daemon'[d])
    BY <1>0, <1>4
  <2>4. Fresh(d)'
    BY <1>1, <2>2, <2>3 DEF Fresh, Holding
  <2> HIDE DEF p, n, m
  <2>5. CASE p.op = "upload"
    <3>1. \A i \in 1..n : uploads[i].candidate # p.ref
      BY <2>1, <2>2, <2>5 DEF Made
    <3>2. \A i : i \in 1..(n + 1) <=> i = n + 1 \/ i \in 1..n
      BY <2>1
    <3> QED BY <2>1, <2>4, <2>5, <3>1, <3>2 DEF NoReplay
  <2>6. CASE p.op = "deliver"
    <3>1. \A i \in 1..m : deliveries[i] # p.ref
      BY <2>1, <2>2, <2>6 DEF Made
    <3>2. \A i : i \in 1..(m + 1) <=> i = m + 1 \/ i \in 1..m
      BY <2>1
    <3> QED BY <2>1, <2>4, <2>6, <3>1, <3>2 DEF NoReplay
  <2> QED BY <2>1, <2>5, <2>6
<1> QED BY <1>0, <1>2, <1>3, <1>4, Kinds

(* D-0005, no automatic replay: one daemon never uploads a candidate twice *)
(* nor delivers an upload twice, however many crashes, failed calls, lost  *)
(* replies, torn files and changed briefs.                                 *)
THEOREM OneDaemonNeverReplays ==
    ASSUME NEW d, Daemons = {d}
    PROVE  Spec => []NoReplay
<1>1. Init => IntentsPrecedeEffects /\ CallsRecorded /\ NoReplay /\ FreshPasses
  <2> SUFFICES ASSUME Init
               PROVE  IntentsPrecedeEffects /\ CallsRecorded /\ NoReplay /\ FreshPasses
    OBVIOUS
  <2>1. \A e \in Daemons : daemon[e].pc = "poll"
    BY DEF Init, Idle
  <2> QED BY <2>1 DEF Init, IntentsPrecedeEffects, CallsRecorded, NoReplay, FreshPasses, Fresh, Holding
<1>2. TypeOK /\ TypeOK' /\ IntentsPrecedeEffects /\ CallsRecorded /\ NoReplay /\ FreshPasses /\ [Next]_vars
         => IntentsPrecedeEffects' /\ CallsRecorded' /\ NoReplay' /\ FreshPasses'
  <2>1. IntentsPrecedeEffects /\ CallsRecorded /\ NoReplay /\ FreshPasses /\ UNCHANGED vars
           => IntentsPrecedeEffects' /\ CallsRecorded' /\ NoReplay' /\ FreshPasses'
    BY DEF IntentsPrecedeEffects, CallsRecorded, Pending, NoReplay, FreshPasses, Fresh, Holding, Made, vars
  <2> QED BY <2>1, IntentStep, ReplayStep DEF IntentInv
<1> QED BY <1>1, <1>2, TypeCorrect, PTL DEF Spec
=============================================================================
