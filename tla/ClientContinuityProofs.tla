------------------------ MODULE ClientContinuityProofs ------------------------
(***************************************************************************)
(* Theorems about ClientContinuity for any number of conversations,        *)
(* requests, deletions, crashes and passing weeks: what the turns, the     *)
(* deletions and the fallback keep to.                                     *)
(***************************************************************************)
EXTENDS ClientContinuity, SequenceTheorems, FiniteSetTheorems, TLAPS

RowType == [role : {"user", "assistant", "receipt"}, req : Requests]
ReqType == [pc : Stages, before : Nat, era : 0 .. MaxEra]
DelType == [pc : {"idle", "read", "write", "delete", "lock", "append", "unlock"}, keys : Seq(Convs),
            rows : SUBSET Requests, hit : BOOLEAN, spared : SUBSET Requests]

TypeInv ==
    /\ era \in 0 .. MaxEra /\ faults \in 0 .. MaxFaults /\ due \in {"due", "timer", "no"}
    /\ req \in [Requests -> ReqType]
    /\ queue \in [Convs -> Seq(Requests)] /\ file \in [Convs -> Seq(RowType)]
    /\ history \subseteq Requests /\ used \subseteq Requests
    /\ log \in [Convs -> Nat] /\ hits \in [Convs -> Nat]
    /\ lock \in Deleters \cup {None} /\ deleter \in [Deleters -> DelType]
    /\ \A d \in Deleters : deleter[d].pc = "idle" <=> deleter[d].keys = <<>>
    /\ erased \subseteq Requests /\ victims \subseteq Requests /\ overlap \in BOOLEAN

-----------------------------------------------------------------------------
(* What the actions come to                                                *)

(* A request arrives: a tool request, a turn that starts or one that waits.*)
Arriving(r, p) ==
    /\ req[r].pc = "new" /\ (p = "tool" <=> r \in Tools)
    /\ req' = [req EXCEPT ![r] = [pc |-> p, before |-> Len(file[ConvOf[r]]), era |-> era]]
    /\ p # "tool" => (p = "model" <=> queue[ConvOf[r]] = <<>>)
    /\ queue' = IF p = "tool" THEN queue ELSE [queue EXCEPT ![ConvOf[r]] = Append(@, r)]
    /\ file' = IF p = "model" THEN [file EXCEPT ![ConvOf[r]] = Append(@, Row("user", r))] ELSE file
    /\ IF p = "model" THEN Touched ELSE UNCHANGED overlap
    /\ due' \in {due, "timer"}
    /\ UNCHANGED <<era, history, used, deletion, faults>>

(* A turn ends, or waits for the fallback.                                 *)
Closing(r, answered) ==
    /\ req[r].pc \in {"model", "fallback", "tool"} /\ Close(r, answered)
    /\ used' = used \/ (req[r].pc = "fallback" /\ used' = used \cup {r})
Falling(r) ==
    /\ req[r].pc = "model" /\ ~Capped(ConvOf[r])
    /\ req' = [req EXCEPT ![r].pc = "fallback"]
    /\ UNCHANGED <<era, queue, file, history, used, due, deletion, faults, overlap>>

(* The server deletes the conversation at the head of k.                   *)
Deleting(d, k, spared) ==
    /\ deleter[d].pc \in {"idle", "delete"} /\ DeleteNow(d, k, spared)
    /\ due' \in {due, "no"}

LEMMA ArriveOutcomes ==
    ASSUME NEW r, Arrive(r)
    PROVE  \E p \in {"tool", "model", "queued"} : Arriving(r, p)
<1>1. CASE r \in Tools
  <2>1. Arriving(r, "tool")
    BY <1>1 DEF Arrive, Arriving
  <2> QED BY <2>1
<1>2. CASE r \notin Tools /\ Clear(ConvOf[r])
  <2>1. Arriving(r, "model")
    BY <1>2 DEF Arrive, Arriving, Clear, BeginTurn
  <2> QED BY <2>1
<1>3. CASE r \notin Tools /\ ~Clear(ConvOf[r])
  <2>1. Arriving(r, "queued")
    BY <1>3 DEF Arrive, Arriving, Clear
  <2> QED BY <2>1
<1> QED BY <1>1, <1>2, <1>3

LEMMA TurnOutcomes ==
    ASSUME NEW r, Turn(r)
    PROVE  Falling(r) \/ \E answered \in BOOLEAN : Closing(r, answered)
<1>1. CASE Answers(r)
  BY <1>1 DEF Answers, Closing
<1>2. CASE Fails(r)
  BY <1>2 DEF Fails, Closing
<1>3. CASE FailsOver(r)
  BY <1>3 DEF FailsOver, Closing, Falling
<1>4. CASE FallbackAnswers(r)
  BY <1>4 DEF FallbackAnswers, Closing
<1>5. CASE FallbackFails(r)
  BY <1>5 DEF FallbackFails, Closing
<1> QED BY <1>1, <1>2, <1>3, <1>4, <1>5 DEF Turn

LEMMA Ordered ==
    ASSUME NEW S \in SUBSET Convs
    PROVE  SetToSeq(S) \in Seq(S)
<1>1. IsFiniteSet(S)
  BY ContinuityAssumption, FS_Subset
<1>2. PICK n \in Nat : ExistsBijection(1 .. n, S)
  BY <1>1, FS_NatBijection
<1>3. Cardinality(S) = n
  BY <1>2, FS_CountingElements
<1>4. PICK f : f \in Bijection(1 .. n, S)
  BY <1>2 DEF ExistsBijection
<1>5. f \in [1 .. n -> S] /\ IsInjective(f)
  BY <1>4 DEF Bijection, Injection, IsInjective
<1>6. SetToSeq(S) \in [1 .. n -> S]
  BY <1>3, <1>5 DEF SetToSeq
<1> QED BY <1>6

(* The requests a prune must spare, and the keys it starts with.           *)
Active == {r \in Requests : req[r].pc = "done" /\ ~Old(r)}
Keys   == SetToSeq({c \in Convs : Expired(c)})

LEMMA DeleteOutcomes ==
    ASSUME TypeInv, (\E c \in Convs : DeleteRoute(c)) \/ Prune \/ \E d \in Deleters : DeleteNext(d)
    PROVE  \/ due' = "no" /\ UNCHANGED <<era, req, queue, file, history, used, deletion, faults, overlap>>
           \/ \E d \in Deleters, k \in Seq(Convs), spared \in SUBSET Requests :
                /\ k # <<>> /\ Deleting(d, k, spared)
                /\ \/ spared = {}
                   \/ d = "prune" /\ k = Keys /\ spared = Active
                   \/ k = deleter[d].keys /\ spared = deleter[d].spared
<1>1. ASSUME NEW c \in Convs, DeleteRoute(c)
      PROVE  <<c>> \in Seq(Convs) /\ <<c>> # <<>> /\ "route" \in Deleters /\ Deleting("route", <<c>>, {})
  BY <1>1 DEF DeleteRoute, Deleting, NoDeletion, Deleters
<1>2. CASE Prune
  <2>1. Keys \in Seq(Convs)
    BY Ordered DEF Keys
  <2>2. CASE Keys = <<>>
    BY <1>2, <2>2 DEF Prune, Keys
  <2>3. CASE Keys # <<>>
    <3>1. "prune" \in Deleters /\ Active \in SUBSET Requests /\ Deleting("prune", Keys, Active)
      BY <1>2, <2>3 DEF Prune, Deleting, Keys, Active, NoDeletion, Deleters
    <3> QED BY <2>1, <2>3, <3>1
  <2> QED BY <2>2, <2>3
<1>3. ASSUME NEW d \in Deleters, DeleteNext(d)
      PROVE  /\ deleter[d].keys \in Seq(Convs) /\ deleter[d].keys # <<>> /\ deleter[d].spared \in SUBSET Requests
             /\ Deleting(d, deleter[d].keys, deleter[d].spared)
  BY <1>3 DEF DeleteNext, Deleting, TypeInv, DelType
<1> QED BY <1>1, <1>2, <1>3

-----------------------------------------------------------------------------
(* A turn's rows are appended                                              *)

Grown(f, g, r) ==
    /\ g \in Seq(RowType) /\ Len(f) <= Len(g) /\ \A i \in 1 .. Len(f) : g[i] = f[i]
    /\ \A i \in 1 .. Len(g) : i > Len(f) => g[i].req = r

LEMMA GrownAppend ==
    ASSUME NEW f \in Seq(RowType), NEW g, NEW r \in Requests, Grown(f, g, r),
           NEW role \in {"user", "assistant", "receipt"}
    PROVE  /\ Grown(f, g \o <<>>, r)
           /\ Grown(f, g \o <<Row(role, r)>>, r)
           /\ Grown(f, Append(g, Row(role, r)), r)
<1> DEFINE row == Row(role, r)
<1>1. row \in RowType /\ row.req = r /\ g \in Seq(RowType) /\ Len(f) \in Nat /\ Len(g) \in Nat
  BY DEF Row, RowType, Grown
<1> HIDE DEF row
<1>2. g \o <<>> = g /\ g \o <<row>> = Append(g, row)
  BY <1>1
<1>3. Append(g, row) \in Seq(RowType) /\ Len(Append(g, row)) = Len(g) + 1
      /\ (\A i \in 1 .. Len(g) : Append(g, row)[i] = g[i]) /\ Append(g, row)[Len(g) + 1] = row
  BY <1>1
<1>4. Grown(f, Append(g, row), r)
  BY <1>1, <1>3 DEF Grown
<1> QED BY <1>2, <1>4 DEF row

LEMMA GrownItself == ASSUME NEW f \in Seq(RowType), NEW r PROVE Grown(f, f, r)
BY DEF Grown

LEMMA ClosedGrows ==
    ASSUME TypeInv, NEW r \in Requests, NEW answered
    PROVE  Grown(file[ConvOf[r]], Closed(r, answered), r)
<1> DEFINE f == file[ConvOf[r]]
           f1 == f \o (IF answered THEN <<Row("assistant", r)>> ELSE <<>>)
           f2 == f1 \o <<Row("receipt", r)>>
           written == Len(f2) - req[r].before
           f3 == f2 \o (IF written <= 0 THEN <<Row("user", r)>> ELSE <<>>)
           f4 == f3 \o (IF written < 2 THEN <<Row("assistant", r)>> ELSE <<>>)
<1>0. f \in Seq(RowType)
  BY ContinuityAssumption DEF TypeInv
<1>1. Grown(f, f1, r)
  BY <1>0, GrownItself, GrownAppend
<1>2. Grown(f, f2, r)
  <2> HIDE DEF f1
  <2> QED BY <1>0, <1>1, GrownAppend
<1>3. Grown(f, f3, r)
  <2> HIDE DEF f2, written
  <2> QED BY <1>0, <1>2, GrownAppend
<1>4. Grown(f, f4, r)
  <2> HIDE DEF f3, written
  <2> QED BY <1>0, <1>3, GrownAppend
<1> QED BY <1>4 DEF Closed

-----------------------------------------------------------------------------
(* The queues hold the turns in flight, each once, in the conversation of  *)
(* its request; the first of them has been started.                        *)
QueueInv ==
    /\ \A r \in Requests : IF r \in Tools THEN req[r].pc \in {"new", "tool", "done", "lost"}
                           ELSE req[r].pc # "tool"
    /\ \A c \in Convs : \A i \in DOMAIN queue[c] :
          /\ queue[c][i] \notin Tools /\ ConvOf[queue[c][i]] = c
          /\ req[queue[c][i]].pc \in (IF i = 1 THEN {"model", "fallback"} ELSE {"queued"})
          /\ \A k \in DOMAIN queue[c] : queue[c][k] = queue[c][i] => k = i
    /\ \A r \in Requests : req[r].pc \in {"queued", "model", "fallback"}
          => \E i \in DOMAIN queue[ConvOf[r]] : queue[ConvOf[r]][i] = r

LEMMA HeadRuns ==
    ASSUME TypeInv, QueueInv, NEW r \in Requests \ Tools, req[r].pc \in {"model", "fallback"}
    PROVE  /\ ConvOf[r] \in Convs /\ queue[ConvOf[r]] \in Seq(Requests) /\ queue[ConvOf[r]] # <<>>
           /\ queue[ConvOf[r]][1] = r /\ Len(queue[ConvOf[r]]) \in Nat \ {0}
<1>1. ConvOf[r] \in Convs /\ queue[ConvOf[r]] \in Seq(Requests)
  BY ContinuityAssumption DEF TypeInv
<1>2. PICK i \in DOMAIN queue[ConvOf[r]] : queue[ConvOf[r]][i] = r
  BY DEF QueueInv
<1>3. i = 1
  BY <1>1, <1>2 DEF QueueInv
<1>4. queue[ConvOf[r]] # <<>>
  BY <1>1, <1>2
<1> QED BY <1>1, <1>2, <1>3, <1>4

(* The turn that starts when r ends.                                       *)
Starts(r, x) == NextTurn(r) /\ x = Head(Rest(r))

LEMMA RestTyped ==
    ASSUME TypeInv, QueueInv, NEW r \in Requests, req[r].pc \in {"model", "fallback", "tool"}
    PROVE  LET q == queue[ConvOf[r]]
           IN  /\ ConvOf[r] \in Convs /\ q \in Seq(Requests) /\ Rest(r) \in Seq(Requests)
               /\ r \in Tools => Rest(r) = q
               /\ r \notin Tools => /\ q # <<>> /\ q[1] = r /\ Len(q) = Len(Rest(r)) + 1
                                    /\ \A i \in 1 .. Len(Rest(r)) : Rest(r)[i] = q[i + 1]
<1> DEFINE q == queue[ConvOf[r]]
<1>1. ConvOf[r] \in Convs /\ q \in Seq(Requests)
  BY ContinuityAssumption DEF TypeInv
<1>2. CASE r \in Tools
  BY <1>1, <1>2 DEF Rest
<1>3. CASE r \notin Tools
  <2>1. req[r].pc \in {"model", "fallback"}
    BY <1>3 DEF QueueInv
  <2>2. q # <<>> /\ q[1] = r /\ Len(q) \in Nat
    BY <1>1, <1>3, <2>1, HeadRuns
  <2>3. Rest(r) = Tail(q)
    BY <1>3 DEF Rest
  <2> HIDE DEF q
  <2>4. Tail(q) \in Seq(Requests) /\ Len(Tail(q)) = Len(q) - 1
        /\ \A i \in 1 .. Len(Tail(q)) : Tail(q)[i] = q[i + 1]
    BY <1>1, <2>2, HeadTailProperties
  <2> QED BY <1>1, <1>3, <2>2, <2>3, <2>4 DEF q
<1> QED BY <1>2, <1>3

LEMMA StartsQueued ==
    ASSUME TypeInv, QueueInv, NEW r \in Requests, req[r].pc \in {"model", "fallback", "tool"},
           NEW n, Starts(r, n)
    PROVE  /\ n \in Requests \ Tools /\ n # r /\ req[n].pc = "queued" /\ ConvOf[n] = ConvOf[r]
           /\ Rest(r) # <<>> /\ Rest(r)[1] = n /\ r \notin Tools
<1> DEFINE q == queue[ConvOf[r]]
<1>1. /\ ConvOf[r] \in Convs /\ q \in Seq(Requests) /\ Rest(r) \in Seq(Requests) /\ r \notin Tools
      /\ Rest(r) # <<>> /\ n = Rest(r)[1] /\ q[1] = r /\ Len(q) = Len(Rest(r)) + 1
      /\ \A i \in 1 .. Len(Rest(r)) : Rest(r)[i] = q[i + 1]
  BY RestTyped DEF Starts, NextTurn
<1>2. 1 \in 1 .. Len(Rest(r)) /\ 1 \in DOMAIN q /\ 2 \in DOMAIN q /\ n = q[2] /\ n \in Requests
  BY <1>1
<1> QED BY <1>1, <1>2 DEF QueueInv

LEMMA ClosingParts ==
    ASSUME TypeInv, QueueInv, NEW r \in Requests, NEW answered, Closing(r, answered)
    PROVE  LET c == ConvOf[r]
           IN  /\ c \in Convs /\ queue' = [queue EXCEPT ![c] = Rest(r)] /\ history' = history \cup {r}
               /\ req[r].pc \in {"model", "fallback", "tool"}
               /\ Touched /\ UNCHANGED <<era, due, deletion, faults>>
               /\ req' \in [Requests -> ReqType]
               /\ \A x \in Requests :
                     /\ req'[x].era = req[x].era
                     /\ req'[x].pc = IF x = r THEN "done" ELSE IF Starts(r, x) THEN "model" ELSE req[x].pc
               /\ \A n : Starts(r, n) =>
                     file' = [file EXCEPT ![c] = Append(Closed(r, answered), Row("user", n))]
               /\ ~NextTurn(r) => file' = [file EXCEPT ![c] = Closed(r, answered)]
<1> DEFINE c == ConvOf[r]
           over == [req EXCEPT ![r].pc = "done", ![r].before = 0]
<1>1. c \in Convs /\ req \in [Requests -> ReqType] /\ req[r].pc \in {"model", "fallback", "tool"}
  BY ContinuityAssumption DEF TypeInv, Closing
<1>2. /\ over \in [Requests -> ReqType]
      /\ \A x \in Requests : /\ over[x].era = req[x].era
                             /\ over[x].pc = IF x = r THEN "done" ELSE req[x].pc
  BY <1>1 DEF ReqType, Stages
<1>3. /\ queue' = [queue EXCEPT ![c] = Rest(r)] /\ history' = history \cup {r}
      /\ Touched /\ UNCHANGED <<era, due, deletion, faults>>
  BY DEF Closing, Close
<1> HIDE DEF over
<1>4. CASE NextTurn(r)
  <2> DEFINE n == Head(Rest(r))
  <2>1. Starts(r, n) /\ n \in Requests /\ n # r /\ \A x : Starts(r, x) => x = n
    <3>1. Starts(r, n) /\ \A x : Starts(r, x) => x = n
      BY <1>4 DEF Starts
    <3> QED BY <1>1, <3>1, StartsQueued
  <2>2. /\ req' = [over EXCEPT ![n].pc = "model"]
        /\ file' = [file EXCEPT ![c] = Append(Closed(r, answered), Row("user", n))]
    BY <1>4 DEF Closing, Close, over, BeginTurn
  <2> HIDE DEF n
  <2>3. /\ req' \in [Requests -> ReqType]
        /\ \A x \in Requests : /\ req'[x].era = over[x].era
                               /\ req'[x].pc = IF x = n THEN "model" ELSE over[x].pc
    BY <1>2, <2>1, <2>2 DEF ReqType, Stages
  <2> QED BY <1>1, <1>2, <1>3, <1>4, <2>1, <2>2, <2>3
<1>5. CASE ~NextTurn(r)
  <2>1. req' = over /\ file' = [file EXCEPT ![c] = Closed(r, answered)]
    BY <1>5 DEF Closing, Close, over
  <2>2. \A x : ~Starts(r, x)
    BY <1>5 DEF Starts
  <2> QED BY <1>1, <1>2, <1>3, <1>5, <2>1, <2>2
<1> QED BY <1>4, <1>5

LEMMA ArrivingParts ==
    ASSUME TypeInv, NEW r \in Requests, NEW p \in {"tool", "model", "queued"}, Arriving(r, p)
    PROVE  /\ ConvOf[r] \in Convs /\ file[ConvOf[r]] \in Seq(RowType) /\ queue[ConvOf[r]] \in Seq(Requests)
           /\ req' \in [Requests -> ReqType] /\ req'[r].era = era
           /\ \A x \in Requests : req'[x].pc = IF x = r THEN p ELSE req[x].pc
           /\ \A x \in Requests : x # r => req'[x].era = req[x].era
<1>1. ConvOf[r] \in Convs /\ file[ConvOf[r]] \in Seq(RowType) /\ queue[ConvOf[r]] \in Seq(Requests)
  BY ContinuityAssumption DEF TypeInv
<1>2. [pc |-> p, before |-> Len(file[ConvOf[r]]), era |-> era] \in ReqType
  BY <1>1 DEF ReqType, Stages, TypeInv
<1>3. req' = [req EXCEPT ![r] = [pc |-> p, before |-> Len(file[ConvOf[r]]), era |-> era]]
  BY DEF Arriving
<1> QED BY <1>1, <1>2, <1>3 DEF TypeInv

LEMMA ArrivingQueues ==
    ASSUME TypeInv, QueueInv, NEW r \in Requests, NEW p \in {"tool", "model", "queued"}, Arriving(r, p)
    PROVE  QueueInv'
<1> DEFINE c == ConvOf[r]
<1>1. /\ c \in Convs /\ queue[c] \in Seq(Requests) /\ queue \in [Convs -> Seq(Requests)]
      /\ req[r].pc = "new" /\ (p = "tool" <=> r \in Tools)
      /\ p # "tool" => (p = "model" <=> queue[c] = <<>>)
      /\ queue' = IF p = "tool" THEN queue ELSE [queue EXCEPT ![c] = Append(queue[c], r)]
      /\ \A x \in Requests : req'[x].pc = IF x = r THEN p ELSE req[x].pc
  BY ArrivingParts DEF Arriving, TypeInv
<1>2. ASSUME NEW d \in Convs, NEW i \in DOMAIN queue[d] PROVE queue[d][i] \in Requests /\ queue[d][i] # r
  <2>1. queue[d] \in Seq(Requests)
    BY <1>1
  <2>2. queue[d][i] \in Requests
    BY <1>2, <2>1
  <2>3. req[queue[d][i]].pc # "new"
    BY <1>2 DEF QueueInv
  <2> QED BY <1>1, <2>2, <2>3
<1>3. \A x \in Requests : IF x \in Tools THEN req'[x].pc \in {"new", "tool", "done", "lost"}
                           ELSE req'[x].pc # "tool"
  BY <1>1 DEF QueueInv
<1>4. CASE p = "tool"
  BY <1>1, <1>2, <1>3, <1>4 DEF QueueInv
<1>5. CASE p # "tool"
  <2> DEFINE q == queue[c]
             n == Len(q) + 1
  <2>1. /\ q \in Seq(Requests) /\ queue'[c] \in Seq(Requests) /\ DOMAIN queue'[c] = 1 .. n /\ n \in Nat \ {0}
        /\ (\A i \in 1 .. n : i # n => i \in DOMAIN q /\ queue'[c][i] = q[i]) /\ queue'[c][n] = r
        /\ (p = "model" <=> n = 1) /\ DOMAIN q = 1 .. Len(q) /\ Len(q) = n - 1
    BY <1>1, <1>5
  <2>2. \A d \in Convs : d # c => queue'[d] = queue[d]
    BY <1>1, <1>5
  <2> HIDE DEF n
  <2>3. ASSUME NEW d \in Convs, NEW i \in DOMAIN queue'[d]
        PROVE  /\ queue'[d][i] \notin Tools /\ ConvOf[queue'[d][i]] = d
               /\ req'[queue'[d][i]].pc \in (IF i = 1 THEN {"model", "fallback"} ELSE {"queued"})
               /\ \A k \in DOMAIN queue'[d] : queue'[d][k] = queue'[d][i] => k = i
    <3>1. CASE d # c
      BY <1>1, <1>2, <2>2, <3>1 DEF QueueInv
    <3>2. CASE d = c /\ i = n
      BY <1>1, <1>2, <1>5, <2>1, <3>2
    <3>3. CASE d = c /\ i # n
      <4>1. i \in DOMAIN q /\ queue'[d][i] = q[i] /\ q = queue[d]
        BY <2>1, <2>3, <3>3
      <4>2. q[i] \notin Tools /\ ConvOf[q[i]] = d /\ q[i] \in Requests /\ q[i] # r
            /\ req[q[i]].pc \in (IF i = 1 THEN {"model", "fallback"} ELSE {"queued"})
            /\ \A k \in DOMAIN q : q[k] = q[i] => k = i
        BY <1>1, <1>2, <3>3, <4>1 DEF QueueInv
      <4>3. \A k \in DOMAIN queue'[d] : queue'[d][k] = queue'[d][i] => k = i
        <5>1. ASSUME NEW k \in DOMAIN queue'[d], queue'[d][k] = queue'[d][i] PROVE k = i
          <6> HIDE DEF q, c
          <6>1. k \in 1 .. n /\ queue'[d] = queue'[c]
            BY <2>1, <3>3, <5>1
          <6>2. k # n
            BY <2>1, <4>1, <4>2, <5>1, <6>1
          <6>3. k \in DOMAIN q /\ q[k] = q[i]
            BY <2>1, <4>1, <5>1, <6>1, <6>2
          <6> QED BY <4>2, <6>3
        <5> QED BY <5>1
      <4> QED BY <1>1, <4>1, <4>2, <4>3
    <3> QED BY <3>1, <3>2, <3>3
  <2>4. ASSUME NEW x \in Requests, req'[x].pc \in {"queued", "model", "fallback"}
        PROVE  \E i \in DOMAIN queue'[ConvOf[x]] : queue'[ConvOf[x]][i] = x
    <3>1. CASE x = r
      BY <2>1, <3>1
    <3>2. CASE x # r
      <4>1. PICK i \in DOMAIN queue[ConvOf[x]] : queue[ConvOf[x]][i] = x
        BY <1>1, <2>4, <3>2 DEF QueueInv
      <4>2. ConvOf[x] \in Convs
        BY ContinuityAssumption
      <4>3. i \in DOMAIN queue'[ConvOf[x]] /\ queue'[ConvOf[x]][i] = x
        BY <2>1, <2>2, <4>1, <4>2
      <4> QED BY <4>3
    <3> QED BY <3>1, <3>2
  <2> QED BY <1>3, <2>3, <2>4 DEF QueueInv
<1> QED BY <1>4, <1>5

LEMMA ClosingQueues ==
    ASSUME TypeInv, QueueInv, NEW r \in Requests, NEW answered, Closing(r, answered)
    PROVE  QueueInv'
<1> DEFINE c == ConvOf[r]
           q == queue[c]
           t == Rest(r)
<1>1. /\ c \in Convs /\ queue' = [queue EXCEPT ![c] = t]
      /\ req[r].pc \in {"model", "fallback", "tool"} /\ queue \in [Convs -> Seq(Requests)]
      /\ \A x \in Requests :
            req'[x].pc = IF x = r THEN "done" ELSE IF Starts(r, x) THEN "model" ELSE req[x].pc
  BY ClosingParts DEF TypeInv
<1>2. /\ q \in Seq(Requests) /\ t \in Seq(Requests) /\ queue'[c] = t
      /\ r \in Tools => t = q
      /\ r \notin Tools => /\ q # <<>> /\ q[1] = r /\ Len(q) = Len(t) + 1
                           /\ \A i \in 1 .. Len(t) : t[i] = q[i + 1]
  BY <1>1, RestTyped
<1>3. \A n : Starts(r, n) => n \in Requests \ Tools /\ n # r /\ req[n].pc = "queued" /\ ConvOf[n] = c
                             /\ t # <<>> /\ t[1] = n /\ r \notin Tools
  BY <1>1, StartsQueued
<1>4. r \notin Tools /\ t # <<>> => Starts(r, t[1])
  BY <1>2 DEF Starts, NextTurn
<1>5. \A d \in Convs : d # c => queue'[d] = queue[d]
  BY <1>1
<1>6. \A d \in Convs : \A i \in DOMAIN queue[d] : queue[d][i] \in Requests /\ queue[d] \in Seq(Requests)
  BY <1>1
<1> HIDE DEF q, t
<1>7. \A x \in Requests : IF x \in Tools THEN req'[x].pc \in {"new", "tool", "done", "lost"}
                           ELSE req'[x].pc # "tool"
  BY <1>1, <1>3 DEF QueueInv
<1>8. ASSUME NEW d \in Convs, NEW i \in DOMAIN queue'[d]
      PROVE  /\ queue'[d][i] \notin Tools /\ ConvOf[queue'[d][i]] = d
             /\ req'[queue'[d][i]].pc \in (IF i = 1 THEN {"model", "fallback"} ELSE {"queued"})
             /\ \A k \in DOMAIN queue'[d] : queue'[d][k] = queue'[d][i] => k = i
  <2>1. CASE d # c
    <3>1. queue'[d][i] # r /\ ~Starts(r, queue'[d][i]) /\ queue'[d] = queue[d] /\ queue[d][i] \in Requests
      BY <1>3, <1>5, <1>6, <1>8, <2>1 DEF QueueInv
    <3> QED BY <1>1, <1>8, <3>1 DEF QueueInv
  <2>2. CASE d = c /\ r \in Tools
    <3>1. queue'[d] = queue[d] /\ queue[d][i] # r /\ \A n : ~Starts(r, n)
      BY <1>2, <1>3, <1>8, <2>2 DEF QueueInv, q
    <3> QED BY <1>1, <1>6, <1>8, <3>1 DEF QueueInv
  <2>3. CASE d = c /\ r \notin Tools
    <3>0. queue'[d] = t /\ queue[d] = q /\ Len(t) \in Nat /\ DOMAIN t = 1 .. Len(t) /\ DOMAIN q = 1 .. Len(t) + 1
          /\ i \in DOMAIN t
      BY <1>2, <1>8, <2>3 DEF q
    <3>1. /\ i \in 1 .. Len(t) /\ Len(t) \in Nat /\ queue'[d] = t /\ queue[d] = q /\ DOMAIN t = 1 .. Len(t)
          /\ i + 1 \in DOMAIN q /\ t[i] = q[i + 1] /\ 1 \in DOMAIN q /\ q[1] = r /\ i + 1 # 1
          /\ \A k \in DOMAIN t : k + 1 \in DOMAIN q /\ t[k] = q[k + 1] /\ k \in Int
      <4>1. \A k \in DOMAIN t : k + 1 \in DOMAIN q /\ t[k] = q[k + 1] /\ k \in Int /\ k + 1 # 1
        BY <1>2, <2>3, <3>0
      <4> QED BY <1>2, <2>3, <3>0, <4>1
    <3>2. t[i] \notin Tools /\ ConvOf[t[i]] = d /\ req[t[i]].pc = "queued" /\ t[i] # r /\ t[i] \in Requests
      BY <1>6, <3>1 DEF QueueInv
    <3>3. \A k \in DOMAIN t : t[k] = t[i] => k = i
      <4>1. \A k \in DOMAIN t : t[k] = t[i] => k + 1 = i + 1
        BY <3>1 DEF QueueInv
      <4> QED BY <3>1, <4>1
    <3>4. CASE i = 1
      <4>1. Starts(r, t[i])
        BY <1>4, <2>3, <3>1, <3>4
      <4> QED BY <1>1, <3>1, <3>2, <3>3, <3>4, <4>1
    <3>5. CASE i # 1
      <4>1. ~Starts(r, t[i])
        <5>1. 1 \in DOMAIN t
          BY <3>1
        <5> QED BY <1>3, <3>1, <3>3, <3>5, <5>1
      <4> QED BY <1>1, <3>1, <3>2, <3>3, <3>5, <4>1
    <3> QED BY <3>4, <3>5
  <2> QED BY <2>1, <2>2, <2>3
<1>9. ASSUME NEW x \in Requests, req'[x].pc \in {"queued", "model", "fallback"}
      PROVE  \E i \in DOMAIN queue'[ConvOf[x]] : queue'[ConvOf[x]][i] = x
  <2>1. x # r /\ req[x].pc \in {"queued", "model", "fallback"} /\ ConvOf[x] \in Convs
    BY <1>1, <1>3, <1>9, ContinuityAssumption
  <2>2. PICK i \in DOMAIN queue[ConvOf[x]] : queue[ConvOf[x]][i] = x
    BY <2>1 DEF QueueInv
  <2>3. CASE ConvOf[x] # c \/ r \in Tools
    <3>1. queue'[ConvOf[x]] = queue[ConvOf[x]]
      BY <1>2, <1>5, <2>1, <2>3 DEF q
    <3> QED BY <2>2, <3>1
  <2>4. CASE ConvOf[x] = c /\ r \notin Tools
    <3>1. i # 1 /\ i \in 1 .. Len(q) /\ Len(q) = Len(t) + 1 /\ Len(t) \in Nat /\ q[i] = x
      BY <1>2, <2>1, <2>2, <2>4 DEF q
    <3>2. i - 1 \in 1 .. Len(t) /\ t[i - 1] = q[(i - 1) + 1] /\ (i - 1) + 1 = i /\ DOMAIN t = 1 .. Len(t)
      BY <1>2, <2>4, <3>1
    <3>3. i - 1 \in DOMAIN queue'[ConvOf[x]] /\ queue'[ConvOf[x]][i - 1] = x
      BY <1>2, <2>4, <3>1, <3>2
    <3> QED BY <3>3
  <2> QED BY <2>3, <2>4
<1> QED BY <1>7, <1>8, <1>9 DEF QueueInv

LEMMA FallingQueues ==
    ASSUME TypeInv, QueueInv, NEW r \in Requests, Falling(r)
    PROVE  QueueInv'
<1>1. /\ queue' = queue /\ req[r].pc = "model" /\ queue \in [Convs -> Seq(Requests)]
      /\ \A x \in Requests : req'[x].pc = IF x = r THEN "fallback" ELSE req[x].pc
  BY DEF Falling, TypeInv, ReqType
<1>2. \A d \in Convs : \A i \in DOMAIN queue[d] : queue[d][i] \in Requests
  BY <1>1
<1> QED BY <1>1, <1>2 DEF QueueInv

LEMMA CrashQueues == ASSUME TypeInv, QueueInv, Crash PROVE QueueInv'
<1>1. queue' = [c \in Convs |-> <<>>]
      /\ \A x \in Requests : req'[x].pc = IF x \in InFlight THEN "lost" ELSE req[x].pc
  BY DEF Crash, TypeInv, ReqType
<1>2. \A x \in Requests : x \in InFlight <=> req[x].pc \in {"queued", "model", "fallback", "tool"}
  BY DEF InFlight
<1>3. \A c \in Convs : DOMAIN queue'[c] = {}
  BY <1>1
<1> QED BY <1>1, <1>2, <1>3 DEF QueueInv

LEMMA SameQueues == ASSUME QueueInv, UNCHANGED <<req, queue>> PROVE QueueInv'
BY DEF QueueInv

-----------------------------------------------------------------------------
(* Types                                                                   *)

Named(v) == v.pc = "idle" <=> v.keys = <<>>

LEMMA DeleterTyped ==
    ASSUME TypeInv, NEW d \in Deleters, NEW v \in DelType, Named(v), deleter' = [deleter EXCEPT ![d] = v]
    PROVE  deleter' \in [Deleters -> DelType] /\ \A e \in Deleters : deleter'[e].pc = "idle" <=> deleter'[e].keys = <<>>
BY DEF TypeInv, Named

LEMMA NoDeletionTyped == NoDeletion \in DelType /\ Named(NoDeletion) /\ NoDeletion.spared = {}
<1>1. <<>> \in Seq(Convs)
  OBVIOUS
<1> QED BY <1>1 DEF NoDeletion, DelType, Named

LEMMA KeysTyped ==
    ASSUME TypeInv, NEW d \in Deleters, deleter[d].pc # "idle"
    PROVE  /\ deleter[d] \in DelType /\ deleter[d].keys \in Seq(Convs) /\ deleter[d].keys # <<>>
           /\ Head(deleter[d].keys) \in Convs /\ Tail(deleter[d].keys) \in Seq(Convs)
           /\ 1 \in DOMAIN deleter[d].keys /\ deleter[d].keys[1] = Head(deleter[d].keys)
<1>1. deleter[d] \in DelType /\ deleter[d].keys \in Seq(Convs) /\ deleter[d].keys # <<>>
  BY DEF TypeInv, DelType
<1> QED BY <1>1, HeadTailProperties

LEMMA ArrivingTyped ==
    ASSUME TypeInv, NEW r \in Requests, NEW p \in {"tool", "model", "queued"}, Arriving(r, p)
    PROVE  TypeInv'
<1> DEFINE c == ConvOf[r]
<1>1. c \in Convs /\ file[c] \in Seq(RowType) /\ queue[c] \in Seq(Requests) /\ req' \in [Requests -> ReqType]
  BY ArrivingParts
<1>2. Row("user", r) \in RowType
  BY DEF Row, RowType
<1>3. queue' \in [Convs -> Seq(Requests)]
  <2>1. Append(queue[c], r) \in Seq(Requests)
    BY <1>1
  <2>2. queue' = IF p = "tool" THEN queue ELSE [queue EXCEPT ![c] = Append(queue[c], r)]
    BY DEF Arriving
  <2> QED BY <1>1, <2>1, <2>2 DEF TypeInv
<1>4. file' \in [Convs -> Seq(RowType)]
  <2>1. Append(file[c], Row("user", r)) \in Seq(RowType)
    BY <1>1, <1>2
  <2>2. file' = IF p = "model" THEN [file EXCEPT ![c] = Append(file[c], Row("user", r))] ELSE file
    BY DEF Arriving
  <2> QED BY <1>1, <2>1, <2>2 DEF TypeInv
<1>5. due' \in {"due", "timer", "no"} /\ overlap' \in BOOLEAN
  BY DEF Arriving, TypeInv, Touched
<1>6. UNCHANGED <<era, history, used, deletion, faults>>
  BY DEF Arriving
<1> QED BY <1>1, <1>3, <1>4, <1>5, <1>6 DEF TypeInv, deletion

LEMMA ClosingTyped ==
    ASSUME TypeInv, QueueInv, NEW r \in Requests, NEW answered, Closing(r, answered)
    PROVE  TypeInv'
<1> DEFINE c == ConvOf[r]
<1>1. /\ c \in Convs /\ queue' = [queue EXCEPT ![c] = Rest(r)] /\ history' = history \cup {r}
      /\ Touched /\ UNCHANGED <<era, due, deletion, faults>> /\ req' \in [Requests -> ReqType]
      /\ req[r].pc \in {"model", "fallback", "tool"}
      /\ \A n : Starts(r, n) =>
            file' = [file EXCEPT ![c] = Append(Closed(r, answered), Row("user", n))]
      /\ ~NextTurn(r) => file' = [file EXCEPT ![c] = Closed(r, answered)]
  BY ClosingParts
<1>2. Rest(r) \in Seq(Requests)
  BY <1>1, RestTyped
<1>3. Closed(r, answered) \in Seq(RowType)
  BY ClosedGrows DEF Grown
<1>4. file' \in [Convs -> Seq(RowType)]
  <2>1. CASE NextTurn(r)
    <3>1. PICK n : Starts(r, n)
      BY <2>1 DEF Starts
    <3>2. n \in Requests
      BY <1>1, <3>1, StartsQueued
    <3>3. Append(Closed(r, answered), Row("user", n)) \in Seq(RowType)
      BY <1>3, <3>2 DEF Row, RowType
    <3>4. file' = [file EXCEPT ![c] = Append(Closed(r, answered), Row("user", n))]
      BY <1>1, <3>1
    <3>5. file \in [Convs -> Seq(RowType)] /\ c \in Convs
      BY <1>1 DEF TypeInv
    <3> HIDE DEF c
    <3> QED BY <3>3, <3>4, <3>5
  <2>2. CASE ~NextTurn(r)
    BY <1>1, <1>3, <2>2 DEF TypeInv
  <2> QED BY <2>1, <2>2
<1>5. used' \subseteq Requests
  BY DEF Closing, TypeInv
<1>6. overlap' \in BOOLEAN /\ queue' \in [Convs -> Seq(Requests)] /\ history' \subseteq Requests
  BY <1>1, <1>2 DEF Touched, TypeInv
<1> QED BY <1>1, <1>4, <1>5, <1>6 DEF TypeInv, deletion

LEMMA FallingTyped == ASSUME TypeInv, NEW r \in Requests, Falling(r) PROVE TypeInv'
<1>1. req' \in [Requests -> ReqType]
  BY DEF Falling, TypeInv, ReqType, Stages
<1> QED BY <1>1 DEF Falling, TypeInv, deletion

(* What the server deletes at once, and what it goes on with.              *)
Hit(c) == file[c] # <<>> \/ RowsOf(c) # {}

LEMMA DeletingParts ==
    ASSUME TypeInv, NEW d \in Deleters, NEW k \in Seq(Convs), k # <<>>, NEW spared \in SUBSET Requests,
           Deleting(d, k, spared)
    PROVE  LET c == Head(k)
           IN  /\ c \in Convs /\ file' = [file EXCEPT ![c] = <<>>] /\ history' = history \ RowsOf(c)
               /\ Touched /\ UNCHANGED <<era, req, queue, used, lock, log, faults>>
               /\ erased' = erased \cup Done(c) /\ victims' = victims \cup (spared \cap Done(c))
               /\ hits' = [hits EXCEPT ![c] = IF Hit(c) THEN @ + 1 ELSE @]
BY HeadTailProperties DEF Deleting, DeleteNow, Hit

LEMMA DeletingGoesOn ==
    ASSUME TypeInv, NEW d \in Deleters, NEW k \in Seq(Convs), k # <<>>, NEW spared \in SUBSET Requests,
           Deleting(d, k, spared)
    PROVE  \E v \in DelType :
              /\ Named(v) /\ deleter' = [deleter EXCEPT ![d] = v]
              /\ v.pc \in {"lock", "idle", "delete"} /\ (v.pc = "lock" <=> Hit(Head(k)))
              /\ v.pc = "lock" => v.keys = k
              /\ v.spared = {} \/ (v.spared = spared /\ v.keys \in {k, Tail(k)})
<1> DEFINE v == IF Hit(Head(k)) THEN [NoDeletion EXCEPT !.pc = "lock", !.keys = k, !.spared = spared]
                ELSE IF Tail(k) = <<>> THEN NoDeletion
                ELSE [NoDeletion EXCEPT !.pc = "delete", !.keys = Tail(k), !.spared = spared]
<1>1. Tail(k) \in Seq(Convs)
  BY HeadTailProperties
<1>2. deleter' = [deleter EXCEPT ![d] = v]
  BY DEF Deleting, DeleteNow, Hit
<1>3. /\ v \in DelType /\ Named(v)
      /\ v.pc \in {"lock", "idle", "delete"} /\ (v.pc = "lock" <=> Hit(Head(k)))
      /\ v.pc = "lock" => v.keys = k
      /\ v.spared = {} \/ (v.spared = spared /\ v.keys \in {k, Tail(k)})
  <2>1. CASE Hit(Head(k))
    BY <2>1 DEF NoDeletion, DelType, Named
  <2>2. CASE ~Hit(Head(k)) /\ Tail(k) = <<>>
    BY <2>2, NoDeletionTyped DEF NoDeletion
  <2>3. CASE ~Hit(Head(k)) /\ Tail(k) # <<>>
    BY <1>1, <2>3 DEF NoDeletion, DelType, Named
  <2> QED BY <2>1, <2>2, <2>3
<1> HIDE DEF v
<1> QED BY <1>2, <1>3

LEMMA DeletingTyped ==
    ASSUME TypeInv, NEW d \in Deleters, NEW k \in Seq(Convs), k # <<>>, NEW spared \in SUBSET Requests,
           Deleting(d, k, spared)
    PROVE  TypeInv'
<1> DEFINE c == Head(k)
<1>1. /\ c \in Convs /\ file' = [file EXCEPT ![c] = <<>>] /\ history' = history \ RowsOf(c)
      /\ Touched /\ UNCHANGED <<era, req, queue, used, lock, log, faults>>
      /\ erased' = erased \cup Done(c) /\ victims' = victims \cup (spared \cap Done(c))
      /\ hits' = [hits EXCEPT ![c] = IF Hit(c) THEN @ + 1 ELSE @]
  BY DeletingParts
<1>0. \E v \in DelType : Named(v) /\ deleter' = [deleter EXCEPT ![d] = v]
  BY DeletingGoesOn
<1>2. deleter' \in [Deleters -> DelType] /\ \A e \in Deleters : deleter'[e].pc = "idle" <=> deleter'[e].keys = <<>>
  BY <1>0, DeleterTyped
<1> HIDE DEF c
<1>3. file' \in [Convs -> Seq(RowType)] /\ hits' \in [Convs -> Nat]
  <2>1. <<>> \in Seq(RowType)
    OBVIOUS
  <2>2. hits \in [Convs -> Nat] /\ file \in [Convs -> Seq(RowType)] /\ hits[c] \in Nat
    BY <1>1 DEF TypeInv
  <2>3. hits' = hits \/ hits' = [hits EXCEPT ![c] = hits[c] + 1]
    <3>1. hits' = [hits EXCEPT ![c] = hits[c]] \/ hits' = [hits EXCEPT ![c] = hits[c] + 1]
      BY <1>1
    <3> QED BY <2>2, <3>1
  <2> QED BY <1>1, <2>1, <2>2, <2>3
<1>4. due' \in {"due", "timer", "no"} /\ overlap' \in BOOLEAN
  BY <1>1 DEF Deleting, TypeInv, Touched
<1>5. history' \subseteq Requests /\ erased' \subseteq Requests /\ victims' \subseteq Requests
  BY <1>1 DEF TypeInv, Done
<1> QED BY <1>1, <1>2, <1>3, <1>4, <1>5 DEF TypeInv

LEMMA CliTyped ==
    ASSUME TypeInv, (\E c \in Convs : CliRemoves(c)) \/ CliReads \/ CliRewrites
    PROVE  TypeInv'
<1>0. "cli" \in Deleters
  BY DEF Deleters
<1>1. ASSUME NEW c \in Convs, CliRemoves(c) PROVE TypeInv'
  <2> DEFINE v == [NoDeletion EXCEPT !.pc = "read", !.keys = <<c>>, !.hit = file[c] # <<>>]
  <2>1. v \in DelType /\ Named(v)
    <3>1. \A b \in BOOLEAN :
            /\ [NoDeletion EXCEPT !.pc = "read", !.keys = <<c>>, !.hit = b] \in DelType
            /\ [NoDeletion EXCEPT !.pc = "read", !.keys = <<c>>, !.hit = b].pc = "read"
            /\ [NoDeletion EXCEPT !.pc = "read", !.keys = <<c>>, !.hit = b].keys = <<c>>
      <4>1. <<c>> \in Seq(Convs)
        OBVIOUS
      <4> QED BY <4>1 DEF NoDeletion, DelType
    <3>2. (file[c] # <<>>) \in BOOLEAN
      OBVIOUS
    <3>3. v \in DelType /\ v.pc = "read" /\ v.keys = <<c>>
      BY <3>1, <3>2, Zenon
    <3> HIDE DEF v
    <3> QED BY <3>3 DEF Named
  <2>2. deleter' = [deleter EXCEPT !["cli"] = v]
    BY <1>1 DEF CliRemoves
  <2> HIDE DEF v
  <2>3. deleter' \in [Deleters -> DelType] /\ \A e \in Deleters : deleter'[e].pc = "idle" <=> deleter'[e].keys = <<>>
    BY <1>0, <2>1, <2>2, DeleterTyped
  <2>4. file' \in [Convs -> Seq(RowType)]
    <3>1. file' = [file EXCEPT ![c] = <<>>] /\ file \in [Convs -> Seq(RowType)]
      BY <1>1 DEF CliRemoves, TypeInv
    <3>2. <<>> \in Seq(RowType)
      OBVIOUS
    <3> QED BY <3>1, <3>2
  <2> QED BY <1>1, <2>3, <2>4 DEF CliRemoves, TypeInv, serverOnly, observed
<1>2. CASE CliReads
  <2> DEFINE v == [deleter["cli"] EXCEPT !.pc = "write", !.rows = history]
  <2>1. v \in DelType /\ Named(v)
    BY <1>0, <1>2, KeysTyped DEF CliReads, DelType, Named, TypeInv
  <2>2. deleter' = [deleter EXCEPT !["cli"] = v]
    BY <1>0, <1>2 DEF CliReads, TypeInv, DelType
  <2> HIDE DEF v
  <2>3. deleter' \in [Deleters -> DelType] /\ \A e \in Deleters : deleter'[e].pc = "idle" <=> deleter'[e].keys = <<>>
    BY <1>0, <2>1, <2>2, DeleterTyped
  <2> QED BY <1>2, <2>3 DEF CliReads, TypeInv, serverOnly, observed
<1>3. CASE CliRewrites
  <2> DEFINE me  == deleter["cli"]
             c   == Head(me.keys)
             out == {r \in me.rows : ConvOf[r] = c}
             v   == IF me.hit \/ out # {} THEN [NoDeletion EXCEPT !.pc = "lock", !.keys = me.keys]
                    ELSE NoDeletion
  <2>1. c \in Convs /\ me \in DelType /\ me.keys \in Seq(Convs) /\ me.keys # <<>>
    BY <1>0, <1>3, KeysTyped DEF CliRewrites
  <2>2. v \in DelType /\ Named(v)
    BY <2>1, NoDeletionTyped DEF NoDeletion, DelType, Named
  <2>3. /\ deleter' = [deleter EXCEPT !["cli"] = v]
        /\ history' = IF out # {} THEN me.rows \ out ELSE history
        /\ erased' = erased \cup Done(c)
        /\ hits' = [hits EXCEPT ![c] = hits[c]] \/ hits' = [hits EXCEPT ![c] = hits[c] + 1]
    BY <1>3 DEF CliRewrites
  <2>4. history' \subseteq Requests /\ erased' \subseteq Requests
    BY <2>1, <2>3 DEF TypeInv, DelType, Done
  <2> HIDE DEF v, c
  <2>5. deleter' \in [Deleters -> DelType] /\ \A e \in Deleters : deleter'[e].pc = "idle" <=> deleter'[e].keys = <<>>
    BY <1>0, <2>2, <2>3, DeleterTyped
  <2>6. hits' \in [Convs -> Nat]
    <3> HIDE DEF me, out
    <3>1. hits \in [Convs -> Nat] /\ c \in Convs
      BY <2>1 DEF TypeInv
    <3>2. hits' = [hits EXCEPT ![c] = hits[c]] \/ hits' = [hits EXCEPT ![c] = hits[c] + 1]
      BY <2>3
    <3> QED BY <3>1, <3>2
  <2> QED BY <1>3, <2>4, <2>5, <2>6 DEF CliRewrites, TypeInv, serverOnly
<1> QED BY <1>1, <1>2, <1>3

(* Under the lock of the deletion log a deletion goes from one place to    *)
(* the next, and then to its next key.                                     *)
LEMMA LoggingParts ==
    ASSUME TypeInv, NEW d \in Deleters, LockLog(d) \/ AppendLog(d) \/ UnlockLog(d) \/ LockTimesOut(d)
    PROVE  /\ UNCHANGED unlogged
           /\ deleter[d].pc # "idle"
           /\ \E v \in DelType :
                /\ Named(v) /\ deleter' = [deleter EXCEPT ![d] = v]
                /\ v = NoDeletion
                   \/ (v.spared = deleter[d].spared /\ v.keys \in {deleter[d].keys, Tail(deleter[d].keys)})
                /\ v.pc \in {"append", "unlock", "delete", "idle"}
<1>1. UNCHANGED unlogged /\ deleter[d].pc # "idle"
  BY DEF LockLog, AppendLog, UnlockLog, LockTimesOut
<1>2. /\ deleter[d] \in DelType /\ deleter[d].keys \in Seq(Convs) /\ deleter[d].keys # <<>>
      /\ Tail(deleter[d].keys) \in Seq(Convs)
  BY <1>1, KeysTyped
<1>3. CASE LockLog(d)
  <2> DEFINE v == [deleter[d] EXCEPT !.pc = "append"]
  <2>1. v \in DelType /\ Named(v) /\ v.spared = deleter[d].spared /\ v.keys = deleter[d].keys /\ v.pc = "append"
    BY <1>2 DEF DelType, Named
  <2>2. deleter' = [deleter EXCEPT ![d] = v]
    BY <1>3 DEF LockLog
  <2> QED BY <1>1, <2>1, <2>2
<1>4. CASE AppendLog(d)
  <2> DEFINE v == [deleter[d] EXCEPT !.pc = "unlock"]
  <2>1. v \in DelType /\ Named(v) /\ v.spared = deleter[d].spared /\ v.keys = deleter[d].keys /\ v.pc = "unlock"
    BY <1>2 DEF DelType, Named
  <2>2. deleter' = [deleter EXCEPT ![d] = v]
    BY <1>4 DEF AppendLog
  <2> QED BY <1>1, <2>1, <2>2
<1>5. CASE UnlockLog(d)
  <2> DEFINE v == IF Tail(deleter[d].keys) = <<>> THEN NoDeletion
                  ELSE [deleter[d] EXCEPT !.pc = "delete", !.keys = Tail(deleter[d].keys)]
  <2>1. v \in DelType /\ Named(v) /\ v.pc \in {"delete", "idle"}
        /\ (v = NoDeletion \/ (v.spared = deleter[d].spared /\ v.keys = Tail(deleter[d].keys)))
    BY <1>2, NoDeletionTyped DEF DelType, Named, NoDeletion
  <2>2. deleter' = [deleter EXCEPT ![d] = v]
    BY <1>5 DEF UnlockLog
  <2> HIDE DEF v
  <2>3. /\ v = NoDeletion
           \/ (v.spared = deleter[d].spared /\ v.keys \in {deleter[d].keys, Tail(deleter[d].keys)})
        /\ v.pc \in {"append", "unlock", "delete", "idle"}
    BY <2>1
  <2> QED BY <1>1, <2>1, <2>2, <2>3, Zenon
<1>6. CASE LockTimesOut(d)
  <2>1. NoDeletion.pc = "idle" /\ deleter' = [deleter EXCEPT ![d] = NoDeletion]
    BY <1>6 DEF LockTimesOut, NoDeletion
  <2> QED BY <1>1, <2>1, NoDeletionTyped
<1> QED BY <1>3, <1>4, <1>5, <1>6

LEMMA LoggingTyped ==
    ASSUME TypeInv, NEW d \in Deleters, LockLog(d) \/ AppendLog(d) \/ UnlockLog(d) \/ LockTimesOut(d)
    PROVE  TypeInv'
<1>1. UNCHANGED unlogged /\ deleter[d].pc # "idle"
      /\ \E v \in DelType : Named(v) /\ deleter' = [deleter EXCEPT ![d] = v]
  BY LoggingParts
<1>2. deleter' \in [Deleters -> DelType] /\ \A e \in Deleters : deleter'[e].pc = "idle" <=> deleter'[e].keys = <<>>
  BY <1>1, DeleterTyped
<1>3. lock' \in Deleters \cup {None}
  BY DEF LockLog, AppendLog, UnlockLog, LockTimesOut, TypeInv
<1>4. log' \in [Convs -> Nat]
  <2>1. log' = log \/ log' = [log EXCEPT ![Head(deleter[d].keys)] = log[Head(deleter[d].keys)] + 1]
    BY DEF LockLog, AppendLog, UnlockLog, LockTimesOut
  <2>2. Head(deleter[d].keys) \in Convs /\ log \in [Convs -> Nat]
    BY <1>1, KeysTyped DEF TypeInv
  <2> QED BY <2>1, <2>2
<1> QED BY <1>1, <1>2, <1>3, <1>4 DEF TypeInv, unlogged, serverOnly, observed

LEMMA RestTypes == ASSUME TypeInv, TimePasses \/ Crash \/ CliDies \/ UNCHANGED vars PROVE TypeInv'
<1>1. CASE TimePasses
  <2>1. \A r \in Requests : req[r] \in ReqType
    BY DEF TypeInv
  <2>2. used' \subseteq Requests /\ era' \in 0 .. MaxEra
    BY <1>1, ContinuityAssumption DEF TimePasses, TypeInv
  <2> QED BY <1>1, <2>2 DEF TimePasses, TypeInv, deletion
<1>2. CASE Crash
  <2>1. req' \in [Requests -> ReqType]
    BY <1>2 DEF Crash, TypeInv, ReqType, Stages
  <2>2. queue' \in [Convs -> Seq(Requests)]
    <3>1. <<>> \in Seq(Requests)
      OBVIOUS
    <3> QED BY <1>2, <3>1 DEF Crash
  <2>3. deleter' \in [Deleters -> DelType] /\ \A e \in Deleters : deleter'[e].pc = "idle" <=> deleter'[e].keys = <<>>
    <3>1. \A e \in Deleters : deleter'[e] = IF e = "cli" THEN deleter[e] ELSE NoDeletion
      BY <1>2 DEF Crash
    <3>2. deleter' = [e \in Deleters |-> IF e = "cli" THEN deleter[e] ELSE NoDeletion]
      BY <1>2 DEF Crash
    <3>3. \A e \in Deleters : deleter[e] \in DelType /\ (deleter[e].pc = "idle" <=> deleter[e].keys = <<>>)
      BY DEF TypeInv
    <3>4. deleter' \in [Deleters -> DelType]
      BY <3>2, <3>3, NoDeletionTyped
    <3> QED BY <3>1, <3>3, <3>4, NoDeletionTyped DEF Named
  <2>4. faults' \in 0 .. MaxFaults
    <3>1. faults' = faults + 1 /\ faults < MaxFaults /\ faults \in 0 .. MaxFaults /\ MaxFaults \in Nat
      BY <1>2, ContinuityAssumption DEF Crash, TypeInv
    <3> QED BY <3>1
  <2> QED BY <1>2, <2>1, <2>2, <2>3, <2>4 DEF Crash, TypeInv, observed
<1>3. CASE CliDies
  <2>1. "cli" \in Deleters /\ deleter' = [deleter EXCEPT !["cli"] = NoDeletion]
    BY <1>3 DEF CliDies, Deleters
  <2>2. deleter' \in [Deleters -> DelType] /\ \A e \in Deleters : deleter'[e].pc = "idle" <=> deleter'[e].keys = <<>>
    BY <2>1, NoDeletionTyped, DeleterTyped
  <2>3. faults' \in 0 .. MaxFaults
    BY <1>3, ContinuityAssumption DEF CliDies, TypeInv
  <2> QED BY <1>3, <2>2, <2>3 DEF CliDies, TypeInv, observed
<1>4. CASE UNCHANGED vars
  BY <1>4 DEF TypeInv, vars
<1> QED BY <1>1, <1>2, <1>3, <1>4

-----------------------------------------------------------------------------
(* Every step is one of these.                                             *)
Arrives(r) == \E p \in {"tool", "model", "queued"} : Arriving(r, p)
Closes(r)  == \E answered \in BOOLEAN : Closing(r, answered)
Deletes    == (\E c \in Convs : DeleteRoute(c)) \/ Prune \/ \E d \in Deleters : DeleteNext(d)
CliWorks   == (\E c \in Convs : CliRemoves(c)) \/ CliReads \/ CliRewrites
Logs(d)    == LockLog(d) \/ AppendLog(d) \/ UnlockLog(d) \/ LockTimesOut(d)
Rests      == TimePasses \/ Crash \/ CliDies \/ UNCHANGED vars

LEMMA Steps ==
    ASSUME [Next]_vars
    PROVE  \/ \E r \in Requests : Arrives(r) \/ Closes(r) \/ Falling(r)
           \/ Deletes \/ CliWorks \/ (\E d \in Deleters : Logs(d)) \/ Rests
<1>1. ASSUME NEW r \in Requests, Arrive(r) \/ Turn(r) PROVE Arrives(r) \/ Closes(r) \/ Falling(r)
  BY <1>1, ArriveOutcomes, TurnOutcomes DEF Arrives, Closes
<1>2. ASSUME NEW d \in Deleters, Delete(d) PROVE Deletes \/ Logs(d)
  BY <1>2 DEF Delete, Deletes, Logs
<1>3. CASE Cli
  BY <1>3 DEF Cli, CliWorks
<1>4. CASE Prune \/ \E c \in Convs : DeleteRoute(c)
  BY <1>4 DEF Deletes
<1>5. CASE \E c \in Convs : CliRemoves(c)
  BY <1>5 DEF CliWorks
<1> QED BY <1>1, <1>2, <1>3, <1>4, <1>5 DEF Next, Rests

Base == TypeInv /\ QueueInv

LEMMA BaseInit == Init => Base
<1> SUFFICES ASSUME Init PROVE Base
  OBVIOUS
<1>1. TypeInv
  <2>1. req \in [Requests -> ReqType]
    BY ContinuityAssumption DEF Init, ReqType, Stages
  <2>2. queue \in [Convs -> Seq(Requests)] /\ file \in [Convs -> Seq(RowType)]
    BY DEF Init
  <2>3. deleter \in [Deleters -> DelType] /\ \A d \in Deleters : deleter[d].pc = "idle" <=> deleter[d].keys = <<>>
    BY NoDeletionTyped DEF Init, Named
  <2>4. era \in 0 .. MaxEra /\ faults \in 0 .. MaxFaults
    BY ContinuityAssumption DEF Init
  <2>5. used \subseteq Requests /\ log \in [Convs -> Nat] /\ hits \in [Convs -> Nat]
    BY DEF Init
  <2> QED BY <2>1, <2>2, <2>3, <2>4, <2>5 DEF Init, TypeInv
<1>2. QueueInv
  <2>1. \A c \in Convs : DOMAIN queue[c] = {}
    BY DEF Init
  <2>2. \A r \in Requests : req[r].pc = "new"
    BY DEF Init
  <2> QED BY <2>1, <2>2 DEF QueueInv
<1> QED BY <1>1, <1>2 DEF Base

LEMMA BaseStep == Base /\ [Next]_vars => Base'
<1> SUFFICES ASSUME Base, [Next]_vars PROVE Base'
  OBVIOUS
<1>0. TypeInv /\ QueueInv
  BY DEF Base
<1>1. ASSUME NEW r \in Requests, Arrives(r) PROVE Base'
  BY <1>0, <1>1, ArrivingTyped, ArrivingQueues DEF Base, Arrives
<1>2. ASSUME NEW r \in Requests, Closes(r) PROVE Base'
  BY <1>0, <1>2, ClosingTyped, ClosingQueues DEF Base, Closes
<1>3. ASSUME NEW r \in Requests, Falling(r) PROVE Base'
  BY <1>0, <1>3, FallingTyped, FallingQueues DEF Base
<1>4. CASE Deletes
  <2>1. CASE due' = "no" /\ UNCHANGED <<era, req, queue, file, history, used, deletion, faults, overlap>>
    BY <1>0, <2>1, SameQueues DEF Base, TypeInv, deletion
  <2>2. ASSUME NEW d \in Deleters, NEW k \in Seq(Convs), NEW spared \in SUBSET Requests, k # <<>>,
               Deleting(d, k, spared)
        PROVE  Base'
    <3>1. UNCHANGED <<req, queue>>
      BY <1>0, <2>2, DeletingParts
    <3> QED BY <1>0, <2>2, <3>1, DeletingTyped, SameQueues DEF Base
  <2> QED BY <1>0, <1>4, <2>1, <2>2, DeleteOutcomes DEF Deletes
<1>5. CASE CliWorks
  <2>1. UNCHANGED <<req, queue>>
    BY <1>5 DEF CliWorks, CliRemoves, CliReads, CliRewrites, serverOnly
  <2> QED BY <1>0, <1>5, <2>1, CliTyped, SameQueues DEF Base, CliWorks
<1>6. ASSUME NEW d \in Deleters, Logs(d) PROVE Base'
  <2>1. UNCHANGED <<req, queue>>
    BY <1>0, <1>6, LoggingParts DEF Logs, unlogged, serverOnly
  <2> QED BY <1>0, <1>6, <2>1, LoggingTyped, SameQueues DEF Base, Logs
<1>7. CASE Rests
  <2>1. Crash \/ UNCHANGED <<req, queue>>
    BY <1>7 DEF Rests, TimePasses, CliDies, vars
  <2> QED BY <1>0, <1>7, <2>1, RestTypes, CrashQueues, SameQueues DEF Base, Rests
<1> QED BY <1>1, <1>2, <1>3, <1>4, <1>5, <1>6, <1>7, Steps

-----------------------------------------------------------------------------
(* The execution history                                                   *)

DoneNow == {r \in Requests : req[r].pc = "done"}

(* Until a server step comes between the operations of the command line,   *)
(* the rows it has read are all there are.                                 *)
LedgerInv ==
    ~overlap => /\ history = DoneNow \ erased /\ erased \subseteq DoneNow
                /\ deleter["cli"].pc = "write" => deleter["cli"].rows = history

LEMMA LedgerTurns ==
    ASSUME Base, LedgerInv, NEW r \in Requests, Arrives(r) \/ Closes(r) \/ Falling(r)
    PROVE  LedgerInv'
<1>0. TypeInv /\ QueueInv
  BY DEF Base
<1>1. ASSUME NEW p \in {"tool", "model", "queued"}, Arriving(r, p) PROVE LedgerInv'
  <2>1. \A x \in Requests : req'[x].pc = IF x = r THEN p ELSE req[x].pc
    BY <1>0, <1>1, ArrivingParts
  <2>2. DoneNow' = DoneNow
    BY <1>1, <2>1 DEF DoneNow, Arriving
  <2>3. UNCHANGED <<history, erased, deleter>> /\ (~overlap' => ~overlap)
    BY <1>1 DEF Arriving, deletion, Touched
  <2> QED BY <2>2, <2>3 DEF LedgerInv
<1>2. ASSUME NEW answered, Closing(r, answered) PROVE LedgerInv'
  <2>1. /\ history' = history \cup {r} /\ req[r].pc \in {"model", "fallback", "tool"}
        /\ Touched /\ UNCHANGED deletion
        /\ \A x \in Requests :
              req'[x].pc = IF x = r THEN "done" ELSE IF Starts(r, x) THEN "model" ELSE req[x].pc
    BY <1>0, <1>2, ClosingParts
  <2>2. \A x \in Requests : Starts(r, x) => req[x].pc = "queued"
    BY <1>0, <2>1, StartsQueued
  <2>3. DoneNow' = DoneNow \cup {r} /\ r \notin DoneNow
    BY <2>1, <2>2 DEF DoneNow
  <2>4. UNCHANGED <<erased, deleter>> /\ (~overlap' => ~overlap /\ deleter["cli"].pc # "write")
    BY <2>1 DEF deletion, Touched
  <2> QED BY <2>1, <2>3, <2>4 DEF LedgerInv
<1>3. CASE Falling(r)
  <2>1. \A x \in Requests : req'[x].pc = IF x = r THEN "fallback" ELSE req[x].pc
    BY <1>0, <1>3 DEF Falling, TypeInv, ReqType
  <2>2. DoneNow' = DoneNow
    BY <1>3, <2>1 DEF DoneNow, Falling
  <2> QED BY <1>3, <2>2 DEF LedgerInv, Falling, deletion
<1> QED BY <1>1, <1>2, <1>3 DEF Arrives, Closes

LEMMA LedgerDeletes == ASSUME Base, LedgerInv, Deletes PROVE LedgerInv'
<1>0. TypeInv
  BY DEF Base
<1>1. CASE due' = "no" /\ UNCHANGED <<era, req, queue, file, history, used, deletion, faults, overlap>>
  BY <1>1 DEF LedgerInv, DoneNow, deletion
<1>2. ASSUME NEW d \in Deleters, NEW k \in Seq(Convs), NEW spared \in SUBSET Requests, k # <<>>,
             Deleting(d, k, spared)
      PROVE  LedgerInv'
  <2> DEFINE c == Head(k)
  <2>1. /\ history' = history \ RowsOf(c) /\ Touched /\ req' = req /\ erased' = erased \cup Done(c)
        /\ \E v \in DelType : deleter' = [deleter EXCEPT ![d] = v] /\ v.pc # "write"
    <3>1. PICK v \in DelType : deleter' = [deleter EXCEPT ![d] = v] /\ v.pc \in {"lock", "idle", "delete"}
      BY <1>0, <1>2, DeletingGoesOn
    <3>2. v.pc # "write"
      BY <3>1
    <3> QED BY <1>0, <1>2, <3>1, <3>2, DeletingParts
  <2>2. ~overlap' => ~overlap /\ deleter["cli"].pc # "write"
    BY <2>1 DEF Touched
  <2>3. "cli" \in Deleters /\ deleter \in [Deleters -> DelType]
    BY <1>0 DEF Deleters, TypeInv
  <2>4. ~overlap' => deleter'["cli"].pc # "write"
    BY <2>1, <2>2, <2>3
  <2>5. DoneNow' = DoneNow
    BY <2>1 DEF DoneNow
  <2> HIDE DEF c
  <2>6. ~overlap' => history' = DoneNow' \ erased' /\ erased' \subseteq DoneNow'
    BY <2>1, <2>2, <2>5 DEF LedgerInv, RowsOf, Done, DoneNow
  <2> QED BY <2>4, <2>6 DEF LedgerInv
<1> QED BY <1>0, <1>1, <1>2, DeleteOutcomes DEF Deletes

LEMMA LedgerCli == ASSUME Base, LedgerInv, CliWorks PROVE LedgerInv'
<1>0. "cli" \in Deleters /\ deleter \in [Deleters -> DelType]
  BY DEF Base, TypeInv, Deleters
<1>1. overlap' = overlap /\ DoneNow' = DoneNow
  BY DEF CliWorks, CliRemoves, CliReads, CliRewrites, serverOnly, DoneNow
<1>2. ASSUME NEW c \in Convs, CliRemoves(c) PROVE LedgerInv'
  <2>1. deleter'["cli"].pc = "read" /\ UNCHANGED <<history, erased>>
    BY <1>0, <1>2 DEF CliRemoves, observed, NoDeletion
  <2> QED BY <1>1, <2>1 DEF LedgerInv
<1>3. CASE CliReads
  <2>1. deleter'["cli"].rows = history /\ UNCHANGED <<history, erased>>
    BY <1>0, <1>3 DEF CliReads, observed, DelType
  <2> QED BY <1>1, <2>1 DEF LedgerInv
<1>4. CASE CliRewrites
  <2> DEFINE me  == deleter["cli"]
             c   == Head(me.keys)
             out == {r \in me.rows : ConvOf[r] = c}
  <2>1. /\ me.pc = "write" /\ history' = IF out # {} THEN me.rows \ out ELSE history
        /\ erased' = erased \cup Done(c)
        /\ deleter' = [deleter EXCEPT !["cli"] =
              IF me.hit \/ out # {} THEN [NoDeletion EXCEPT !.pc = "lock", !.keys = me.keys] ELSE NoDeletion]
    BY <1>4 DEF CliRewrites
  <2>2. deleter'["cli"].pc # "write"
    BY <1>0, <2>1 DEF NoDeletion
  <2>3. ~overlap => me.rows = history
    BY <2>1 DEF LedgerInv
  <2> HIDE DEF me, c
  <2>4. ~overlap => history' = {r \in history : ConvOf[r] # c}
    BY <2>1, <2>3
  <2>5. ~overlap => history' = DoneNow \ erased' /\ erased' \subseteq DoneNow
    BY <2>1, <2>4 DEF LedgerInv, Done, DoneNow
  <2> QED BY <1>1, <2>2, <2>5 DEF LedgerInv
<1> QED BY <1>2, <1>3, <1>4 DEF CliWorks

LEMMA LedgerRest ==
    ASSUME Base, LedgerInv, (\E d \in Deleters : Logs(d)) \/ Rests
    PROVE  LedgerInv'
<1>0. TypeInv /\ "cli" \in Deleters /\ deleter \in [Deleters -> DelType]
  BY DEF Base, TypeInv, Deleters
<1>1. ASSUME NEW d \in Deleters, Logs(d) PROVE LedgerInv'
  <2>1. UNCHANGED unlogged /\ \E v \in DelType : deleter' = [deleter EXCEPT ![d] = v]
                                              /\ v.pc \in {"append", "unlock", "delete", "idle"}
    BY <1>0, <1>1, LoggingParts DEF Logs
  <2>2. deleter'["cli"] = deleter["cli"] \/ deleter'["cli"].pc # "write"
    BY <1>0, <2>1
  <2>3. UNCHANGED <<history, erased, overlap, req>>
    BY <2>1 DEF unlogged, serverOnly, observed
  <2> QED BY <2>2, <2>3 DEF LedgerInv, DoneNow
<1>2. CASE TimePasses \/ UNCHANGED vars
  BY <1>2 DEF TimePasses, vars, LedgerInv, DoneNow, deletion
<1>3. CASE Crash
  <2>1. \A x \in Requests : req'[x].pc = IF x \in InFlight THEN "lost" ELSE req[x].pc
    BY <1>0, <1>3 DEF Crash, TypeInv, ReqType
  <2>2. DoneNow' = DoneNow
    BY <2>1 DEF DoneNow, InFlight
  <2>3. deleter'["cli"] = deleter["cli"] /\ UNCHANGED <<history, erased, overlap>>
    BY <1>0, <1>3 DEF Crash, observed
  <2> QED BY <2>2, <2>3 DEF LedgerInv
<1>4. CASE CliDies
  BY <1>0, <1>4 DEF CliDies, LedgerInv, DoneNow, observed, NoDeletion
<1> QED BY <1>1, <1>2, <1>3, <1>4 DEF Rests

LEMMA LedgerStep == Base /\ LedgerInv /\ [Next]_vars => LedgerInv'
BY Steps, LedgerTurns, LedgerDeletes, LedgerCli, LedgerRest

LEMMA LedgerInit == Init => LedgerInv
BY DEF Init, LedgerInv, DoneNow, NoDeletion, Deleters

-----------------------------------------------------------------------------
(* Which rows a step adds to a conversation                                *)

LEMMA ArrivingRows ==
    ASSUME TypeInv, NEW r \in Requests, NEW p \in {"tool", "model", "queued"}, Arriving(r, p)
    PROVE  /\ \A d \in Convs : d # ConvOf[r] \/ p # "model" => file'[d] = file[d]
           /\ p = "model" => file'[ConvOf[r]] = Append(file[ConvOf[r]], Row("user", r))
           /\ \A d \in Convs : \A i \in DOMAIN file'[d] :
                 \/ i \in DOMAIN file[d] /\ file'[d][i] = file[d][i]
                 \/ d = ConvOf[r] /\ file'[d][i].req = r /\ p = "model"
<1> DEFINE c == ConvOf[r]
           row == Row("user", r)
<1>1. c \in Convs /\ file[c] \in Seq(RowType) /\ file \in [Convs -> Seq(RowType)]
  BY ArrivingParts DEF TypeInv
<1>2. file' = IF p = "model" THEN [file EXCEPT ![c] = Append(file[c], row)] ELSE file
  BY DEF Arriving
<1>3. row.req = r
  BY DEF Row
<1> HIDE DEF c, row
<1>4. /\ \A d \in Convs : d # c \/ p # "model" => file'[d] = file[d]
      /\ p = "model" => file'[c] = Append(file[c], row)
  BY <1>1, <1>2
<1>5. \A i \in DOMAIN Append(file[c], row) :
         \/ i \in DOMAIN file[c] /\ Append(file[c], row)[i] = file[c][i]
         \/ Append(file[c], row)[i] = row
  BY <1>1
<1>6. ASSUME NEW d \in Convs, NEW i \in DOMAIN file'[d]
      PROVE  \/ i \in DOMAIN file[d] /\ file'[d][i] = file[d][i]
             \/ d = c /\ file'[d][i].req = r /\ p = "model"
  BY <1>3, <1>4, <1>5, <1>6
<1> QED BY <1>4, <1>6 DEF c, row

LEMMA ClosingRows ==
    ASSUME TypeInv, QueueInv, NEW r \in Requests, NEW answered, Closing(r, answered)
    PROVE  LET c == ConvOf[r]
               g == Closed(r, answered)
           IN  /\ c \in Convs /\ file[c] \in Seq(RowType) /\ Grown(file[c], g, r)
               /\ \A d \in Convs : d # c => file'[d] = file[d]
               /\ \A n : Starts(r, n) => file'[c] = Append(g, Row("user", n))
               /\ ~NextTurn(r) => file'[c] = g
               /\ \A d \in Convs : \A i \in DOMAIN file'[d] :
                     \/ i \in DOMAIN file[d] /\ file'[d][i] = file[d][i]
                     \/ d = c /\ (file'[d][i].req = r \/ Starts(r, file'[d][i].req))
<1> DEFINE c == ConvOf[r]
           g == Closed(r, answered)
<1>1. c \in Convs /\ file[c] \in Seq(RowType) /\ file \in [Convs -> Seq(RowType)]
  BY ContinuityAssumption DEF TypeInv
<1>2. Grown(file[c], g, r)
  BY ClosedGrows
<1>3. /\ \A n : Starts(r, n) => file' = [file EXCEPT ![c] = Append(g, Row("user", n))]
      /\ ~NextTurn(r) => file' = [file EXCEPT ![c] = g]
  BY ClosingParts
<1>4. NextTurn(r) => Starts(r, Head(Rest(r)))
  BY DEF Starts
<1>5. \A n : Row("user", n).req = n
  BY DEF Row
<1> HIDE DEF c, g
<1>6. /\ \A d \in Convs : d # c => file'[d] = file[d]
      /\ \A n : Starts(r, n) => file'[c] = Append(g, Row("user", n))
      /\ ~NextTurn(r) => file'[c] = g
  BY <1>1, <1>3, <1>4
<1>7. /\ g \in Seq(RowType)
      /\ \A i \in DOMAIN g : (i \in DOMAIN file[c] /\ g[i] = file[c][i]) \/ g[i].req = r
  BY <1>1, <1>2 DEF Grown
<1>8. ASSUME NEW n, NEW i \in DOMAIN Append(g, Row("user", n))
      PROVE  (i \in DOMAIN g /\ Append(g, Row("user", n))[i] = g[i]) \/ Append(g, Row("user", n))[i].req = n
  <2> DEFINE row == Row("user", n)
  <2>1. row.req = n
    BY <1>5
  <2> HIDE DEF row
  <2>2. (i \in DOMAIN g /\ Append(g, row)[i] = g[i]) \/ Append(g, row)[i] = row
    <3>1. i \in DOMAIN Append(g, row)
      BY <1>8 DEF row
    <3>2. Len(g) \in Nat /\ DOMAIN g = 1 .. Len(g)
      BY <1>7
    <3>3. DOMAIN Append(g, row) = 1 .. (Len(g) + 1) /\ Append(g, row)[Len(g) + 1] = row
          /\ \A j \in 1 .. Len(g) : Append(g, row)[j] = g[j]
      BY <1>7, AppendProperties
    <3> QED BY <3>1, <3>2, <3>3
  <2> QED BY <2>1, <2>2 DEF row
<1>9. ASSUME NEW i \in DOMAIN file'[c]
      PROVE  (i \in DOMAIN file[c] /\ file'[c][i] = file[c][i])
             \/ file'[c][i].req = r \/ Starts(r, file'[c][i].req)
  <2>1. CASE NextTurn(r)
    <3>1. PICK n : Starts(r, n)
      BY <1>4, <2>1
    <3> QED BY <1>6, <1>7, <1>8, <1>9, <3>1
  <2>2. CASE ~NextTurn(r)
    BY <1>6, <1>7, <1>9, <2>2
  <2> QED BY <2>1, <2>2
<1>10. \A d \in Convs : \A i \in DOMAIN file'[d] :
          \/ i \in DOMAIN file[d] /\ file'[d][i] = file[d][i]
          \/ d = c /\ (file'[d][i].req = r \/ Starts(r, file'[d][i].req))
  BY <1>1, <1>6, <1>9
<1> QED BY <1>1, <1>2, <1>6, <1>10 DEF c, g

-----------------------------------------------------------------------------
(* The deletion log                                                        *)

(* What a deletion still has to log: each that removed something owes the  *)
(* log one row, until it has written it, died or given up.                 *)
OwesBy(v, c) == IF v.pc \in {"lock", "append"} /\ Head(v.keys) = c THEN 1 ELSE 0
Owes(D, c)   == OwesBy(D["prune"], c) + OwesBy(D["route"], c) + OwesBy(D["cli"], c)

LogInv ==
    /\ faults = 0 => (lock \in Deleters => deleter[lock].pc \in {"append", "unlock"})
    /\ \A c \in Convs : log[c] + Owes(deleter, c) <= hits[c] /\ (faults = 0 => log[c] + Owes(deleter, c) = hits[c])

LEMMA OwesOneAtMost == \A v, c : OwesBy(v, c) \in {0, 1}
BY DEF OwesBy

(* One deletion goes on: what it owes changes with the log and the hits.   *)
LEMMA LogMoves ==
    ASSUME TypeInv, LogInv, NEW d \in Deleters, NEW v, deleter' = [deleter EXCEPT ![d] = v],
           NEW c \in Convs, log'[c] \in Nat, hits'[c] \in Nat, faults' = faults,
           \/ log'[c] + OwesBy(v, c) + hits[c] = log[c] + OwesBy(deleter[d], c) + hits'[c]
           \/ faults # 0 /\ log'[c] = log[c] /\ hits'[c] = hits[c] /\ OwesBy(v, c) = 0
    PROVE  log'[c] + Owes(deleter', c) <= hits'[c] /\ (faults' = 0 => log'[c] + Owes(deleter', c) = hits'[c])
<1>1. DOMAIN deleter = Deleters /\ log[c] \in Nat /\ hits[c] \in Nat
  BY DEF TypeInv
<1>2. /\ OwesBy(deleter["prune"], c) \in {0, 1} /\ OwesBy(deleter["route"], c) \in {0, 1}
      /\ OwesBy(deleter["cli"], c) \in {0, 1} /\ OwesBy(v, c) \in {0, 1}
  BY OwesOneAtMost
<1>3. /\ log[c] + Owes(deleter, c) <= hits[c] /\ (faults = 0 => log[c] + Owes(deleter, c) = hits[c])
      /\ Owes(deleter, c) = OwesBy(deleter["prune"], c) + OwesBy(deleter["route"], c) + OwesBy(deleter["cli"], c)
      /\ Owes(deleter', c) = OwesBy(deleter'["prune"], c) + OwesBy(deleter'["route"], c) + OwesBy(deleter'["cli"], c)
  BY DEF LogInv, Owes
<1>4. CASE d = "prune"
  <2>1. deleter'["prune"] = v /\ deleter'["route"] = deleter["route"] /\ deleter'["cli"] = deleter["cli"]
    BY <1>1, <1>4 DEF Deleters
  <2> QED BY <1>1, <1>2, <1>3, <1>4, <2>1
<1>5. CASE d = "route"
  <2>1. deleter'["route"] = v /\ deleter'["prune"] = deleter["prune"] /\ deleter'["cli"] = deleter["cli"]
    BY <1>1, <1>5 DEF Deleters
  <2> QED BY <1>1, <1>2, <1>3, <1>5, <2>1
<1>6. CASE d = "cli"
  <2>1. deleter'["cli"] = v /\ deleter'["prune"] = deleter["prune"] /\ deleter'["route"] = deleter["route"]
    BY <1>1, <1>6 DEF Deleters
  <2> QED BY <1>1, <1>2, <1>3, <1>6, <2>1
<1> QED BY <1>4, <1>5, <1>6 DEF Deleters

(* A deletion that does not hold the lock may change at will.              *)
LEMMA LockMoves ==
    ASSUME TypeInv, LogInv, NEW d \in Deleters, NEW v, deleter' = [deleter EXCEPT ![d] = v],
           lock' = lock, faults' = faults,
           deleter[d].pc \notin {"append", "unlock"} \/ v.pc \in {"append", "unlock"}
    PROVE  faults' = 0 => (lock' \in Deleters => deleter'[lock'].pc \in {"append", "unlock"})
BY DEF TypeInv, LogInv

LEMMA LogDeletes == ASSUME Base, LogInv, Deletes PROVE LogInv'
<1>0. TypeInv
  BY DEF Base
<1>1. CASE due' = "no" /\ UNCHANGED <<era, req, queue, file, history, used, deletion, faults, overlap>>
  BY <1>1 DEF LogInv, Owes, deletion
<1>2. ASSUME NEW d \in Deleters, NEW k \in Seq(Convs), NEW spared \in SUBSET Requests, k # <<>>,
             Deleting(d, k, spared)
      PROVE  LogInv'
  <2> DEFINE h == Head(k)
  <2>1. /\ h \in Convs /\ UNCHANGED <<lock, log, faults>> /\ deleter[d].pc \in {"idle", "delete"}
        /\ hits' = [hits EXCEPT ![h] = IF Hit(h) THEN hits[h] + 1 ELSE hits[h]]
    BY <1>0, <1>2, DeletingParts DEF Deleting
  <2>2. PICK v \in DelType : /\ deleter' = [deleter EXCEPT ![d] = v] /\ v.pc \in {"lock", "idle", "delete"}
                             /\ (v.pc = "lock" <=> Hit(h)) /\ (v.pc = "lock" => v.keys = k)
    BY <1>0, <1>2, DeletingGoesOn
  <2>3. hits \in [Convs -> Nat] /\ log \in [Convs -> Nat]
    BY <1>0 DEF TypeInv
  <2>4. ASSUME NEW c \in Convs
        PROVE  log'[c] + Owes(deleter', c) <= hits'[c] /\ (faults' = 0 => log'[c] + Owes(deleter', c) = hits'[c])
    <3>1. OwesBy(deleter[d], c) = 0 /\ OwesBy(v, c) = IF Hit(h) /\ c = h THEN 1 ELSE 0
      BY <2>1, <2>2 DEF OwesBy
    <3> HIDE DEF h
    <3>2. log'[c] = log[c] /\ hits[c] \in Nat /\ log[c] \in Nat
          /\ hits'[c] = IF Hit(h) /\ c = h THEN hits[c] + 1 ELSE hits[c]
      BY <2>1, <2>3
    <3>3. /\ log'[c] \in Nat /\ hits'[c] \in Nat /\ faults' = faults
          /\ log'[c] + OwesBy(v, c) + hits[c] = log[c] + OwesBy(deleter[d], c) + hits'[c]
      BY <2>1, <3>1, <3>2
    <3> QED BY <1>0, <2>2, <3>3, LogMoves
  <2> QED BY <1>0, <2>1, <2>2, <2>4, LockMoves DEF LogInv
<1> QED BY <1>0, <1>1, <1>2, DeleteOutcomes DEF Deletes

LEMMA LogCli == ASSUME Base, LogInv, CliWorks PROVE LogInv'
<1>0. TypeInv /\ "cli" \in Deleters /\ hits \in [Convs -> Nat] /\ log \in [Convs -> Nat]
  BY DEF Base, TypeInv, Deleters
<1>1. ASSUME NEW c \in Convs, CliRemoves(c) PROVE LogInv'
  <2> DEFINE v == [NoDeletion EXCEPT !.pc = "read", !.keys = <<c>>, !.hit = file[c] # <<>>]
  <2>1. /\ deleter' = [deleter EXCEPT !["cli"] = v] /\ UNCHANGED <<lock, log, hits, faults>>
        /\ v.pc = "read" /\ deleter["cli"].pc = "idle"
    BY <1>1 DEF CliRemoves, serverOnly, observed, NoDeletion
  <2> HIDE DEF v
  <2>2. ASSUME NEW x \in Convs
        PROVE  log'[x] + Owes(deleter', x) <= hits'[x] /\ (faults' = 0 => log'[x] + Owes(deleter', x) = hits'[x])
    <3>1. OwesBy(v, x) = 0 /\ OwesBy(deleter["cli"], x) = 0
      BY <2>1 DEF OwesBy
    <3>2. /\ log'[x] \in Nat /\ hits'[x] \in Nat /\ faults' = faults
          /\ log'[x] + OwesBy(v, x) + hits[x] = log[x] + OwesBy(deleter["cli"], x) + hits'[x]
      BY <1>0, <2>1, <3>1
    <3> QED BY <1>0, <2>1, <3>2, LogMoves
  <2> QED BY <1>0, <2>1, <2>2, LockMoves DEF LogInv
<1>2. CASE CliReads
  <2> DEFINE v == [deleter["cli"] EXCEPT !.pc = "write", !.rows = history]
  <2>1. /\ deleter' = [deleter EXCEPT !["cli"] = v] /\ UNCHANGED <<lock, log, hits, faults>>
        /\ v.pc = "write" /\ deleter["cli"].pc = "read"
    BY <1>0, <1>2 DEF CliReads, serverOnly, observed, TypeInv, DelType
  <2> HIDE DEF v
  <2>2. ASSUME NEW x \in Convs
        PROVE  log'[x] + Owes(deleter', x) <= hits'[x] /\ (faults' = 0 => log'[x] + Owes(deleter', x) = hits'[x])
    <3>1. OwesBy(v, x) = 0 /\ OwesBy(deleter["cli"], x) = 0
      BY <2>1 DEF OwesBy
    <3>2. /\ log'[x] \in Nat /\ hits'[x] \in Nat /\ faults' = faults
          /\ log'[x] + OwesBy(v, x) + hits[x] = log[x] + OwesBy(deleter["cli"], x) + hits'[x]
      BY <1>0, <2>1, <3>1
    <3> QED BY <1>0, <2>1, <3>2, LogMoves
  <2> QED BY <1>0, <2>1, <2>2, LockMoves DEF LogInv
<1>3. CASE CliRewrites
  <2> DEFINE me  == deleter["cli"]
             h   == Head(me.keys)
             out == {r \in me.rows : ConvOf[r] = h}
             hit == me.hit \/ out # {}
             v   == IF hit THEN [NoDeletion EXCEPT !.pc = "lock", !.keys = me.keys] ELSE NoDeletion
  <2>1. /\ deleter' = [deleter EXCEPT !["cli"] = v] /\ UNCHANGED <<lock, log, faults>> /\ me.pc = "write"
        /\ hits' = [hits EXCEPT ![h] = IF hit THEN hits[h] + 1 ELSE hits[h]]
    BY <1>3 DEF CliRewrites, serverOnly
  <2>2. h \in Convs
    BY <1>0, <2>1, KeysTyped
  <2>3. IF hit THEN v.pc = "lock" /\ v.keys = me.keys ELSE v.pc = "idle"
    BY DEF NoDeletion
  <2>4. ASSUME NEW c \in Convs
        PROVE  log'[c] + Owes(deleter', c) <= hits'[c] /\ (faults' = 0 => log'[c] + Owes(deleter', c) = hits'[c])
    <3>1. OwesBy(me, c) = 0 /\ OwesBy(v, c) = IF hit /\ c = h THEN 1 ELSE 0
      <4> HIDE DEF v, hit
      <4> QED BY <2>1, <2>3 DEF OwesBy
    <3> HIDE DEF v, hit, h
    <3>2. log'[c] = log[c] /\ hits[c] \in Nat /\ log[c] \in Nat
          /\ hits'[c] = IF hit /\ c = h THEN hits[c] + 1 ELSE hits[c]
      BY <1>0, <2>1, <2>2
    <3>3. /\ log'[c] \in Nat /\ hits'[c] \in Nat /\ faults' = faults
          /\ log'[c] + OwesBy(v, c) + hits[c] = log[c] + OwesBy(deleter["cli"], c) + hits'[c]
      BY <2>1, <3>1, <3>2
    <3> QED BY <1>0, <2>1, <3>3, LogMoves
  <2> HIDE DEF v, hit, h
  <2> QED BY <1>0, <2>1, <2>4, LockMoves DEF LogInv
<1> QED BY <1>1, <1>2, <1>3 DEF CliWorks

LEMMA LogLogs == ASSUME Base, LogInv, NEW d \in Deleters, Logs(d) PROVE LogInv'
<1> DEFINE me == deleter[d]
<1>0. /\ TypeInv /\ hits \in [Convs -> Nat] /\ log \in [Convs -> Nat] /\ deleter \in [Deleters -> DelType]
      /\ UNCHANGED <<hits, faults>> /\ me.pc # "idle"
  BY LoggingParts DEF Base, TypeInv, Logs, unlogged, serverOnly, observed
<1>1. me \in DelType /\ Head(me.keys) \in Convs
  BY <1>0, KeysTyped
<1>2. CASE LockLog(d)
  <2> DEFINE v == [me EXCEPT !.pc = "append"]
  <2>1. deleter' = [deleter EXCEPT ![d] = v] /\ lock' = d /\ log' = log /\ me.pc = "lock"
    BY <1>2 DEF LockLog
  <2>2. v.pc = "append" /\ v.keys = me.keys
    BY <1>1 DEF DelType
  <2> HIDE DEF v
  <2>3. ASSUME NEW c \in Convs
        PROVE  log'[c] + Owes(deleter', c) <= hits'[c] /\ (faults' = 0 => log'[c] + Owes(deleter', c) = hits'[c])
    <3>1. OwesBy(v, c) = OwesBy(me, c)
      BY <2>1, <2>2 DEF OwesBy
    <3>2. /\ log'[c] \in Nat /\ hits'[c] \in Nat /\ faults' = faults
          /\ log'[c] + OwesBy(v, c) + hits[c] = log[c] + OwesBy(deleter[d], c) + hits'[c]
      <4>1. OwesBy(v, c) \in {0, 1} /\ log'[c] = log[c] /\ hits'[c] = hits[c] /\ log[c] \in Nat /\ hits[c] \in Nat
        BY <1>0, <2>1, OwesOneAtMost
      <4> QED BY <1>0, <3>1, <4>1
    <3> QED BY <1>0, <2>1, <3>2, LogMoves
  <2>4. deleter'[lock'].pc = "append"
    BY <1>0, <2>1, <2>2
  <2> QED BY <2>3, <2>4 DEF LogInv
<1>3. CASE AppendLog(d)
  <2> DEFINE v == [me EXCEPT !.pc = "unlock"]
             h == Head(me.keys)
  <2>1. /\ deleter' = [deleter EXCEPT ![d] = v] /\ lock' = lock /\ me.pc = "append"
        /\ log' = [log EXCEPT ![h] = log[h] + 1]
    BY <1>3 DEF AppendLog, unlogged
  <2>2. v.pc = "unlock" /\ v.keys = me.keys
    BY <1>1 DEF DelType
  <2> HIDE DEF v
  <2>3. ASSUME NEW c \in Convs
        PROVE  log'[c] + Owes(deleter', c) <= hits'[c] /\ (faults' = 0 => log'[c] + Owes(deleter', c) = hits'[c])
    <3>1. OwesBy(v, c) = 0 /\ OwesBy(deleter[d], c) = IF c = h THEN 1 ELSE 0
      BY <2>1, <2>2 DEF OwesBy
    <3>2. log'[c] = (IF c = h THEN log[c] + 1 ELSE log[c]) /\ hits'[c] = hits[c] /\ log[c] \in Nat /\ hits[c] \in Nat
      BY <1>0, <2>1
    <3> HIDE DEF h
    <3>3. /\ log'[c] \in Nat /\ hits'[c] \in Nat /\ faults' = faults
          /\ log'[c] + OwesBy(v, c) + hits[c] = log[c] + OwesBy(deleter[d], c) + hits'[c]
      BY <1>0, <3>1, <3>2
    <3> QED BY <1>0, <2>1, <3>3, LogMoves
  <2> QED BY <1>0, <2>1, <2>2, <2>3, LockMoves DEF LogInv
<1>4. CASE UnlockLog(d)
  <2> DEFINE v == IF Tail(me.keys) = <<>> THEN NoDeletion
                  ELSE [me EXCEPT !.pc = "delete", !.keys = Tail(me.keys)]
  <2>1. deleter' = [deleter EXCEPT ![d] = v] /\ lock' = None /\ log' = log /\ me.pc = "unlock"
    BY <1>4 DEF UnlockLog
  <2>2. v.pc \in {"idle", "delete"}
    BY <1>1 DEF DelType, NoDeletion
  <2> HIDE DEF v
  <2>3. ASSUME NEW c \in Convs
        PROVE  log'[c] + Owes(deleter', c) <= hits'[c] /\ (faults' = 0 => log'[c] + Owes(deleter', c) = hits'[c])
    <3>1. OwesBy(v, c) = 0 /\ OwesBy(deleter[d], c) = 0
      BY <2>1, <2>2 DEF OwesBy
    <3>2. /\ log'[c] \in Nat /\ hits'[c] \in Nat /\ faults' = faults
          /\ log'[c] + OwesBy(v, c) + hits[c] = log[c] + OwesBy(deleter[d], c) + hits'[c]
      BY <1>0, <2>1, <3>1
    <3> QED BY <1>0, <2>1, <3>2, LogMoves
  <2>4. lock' \notin Deleters
    BY <2>1, ContinuityAssumption
  <2> QED BY <2>3, <2>4 DEF LogInv
<1>5. CASE LockTimesOut(d)
  <2>1. deleter' = [deleter EXCEPT ![d] = NoDeletion] /\ lock' = lock /\ log' = log /\ Abandoned
    BY <1>5 DEF LockTimesOut, unlogged
  <2>2. faults # 0
    BY <2>1 DEF Abandoned, LogInv
  <2>3. ASSUME NEW c \in Convs
        PROVE  log'[c] + Owes(deleter', c) <= hits'[c] /\ (faults' = 0 => log'[c] + Owes(deleter', c) = hits'[c])
    <3>1. OwesBy(NoDeletion, c) = 0
      BY DEF OwesBy, NoDeletion
    <3>2. log'[c] = log[c] /\ hits'[c] = hits[c] /\ log[c] \in Nat /\ hits[c] \in Nat
      BY <1>0, <2>1
    <3> QED BY <1>0, <2>1, <2>2, <3>1, <3>2, LogMoves
  <2> QED BY <1>0, <2>2, <2>3 DEF LogInv
<1> QED BY <1>2, <1>3, <1>4, <1>5 DEF Logs

(* A crash, of which there is one then, forgets what was to be logged.     *)
LEMMA LogRest ==
    ASSUME Base, LogInv, Rests \/ \E r \in Requests : Arrives(r) \/ Closes(r) \/ Falling(r)
    PROVE  LogInv'
<1>0. TypeInv /\ QueueInv /\ "cli" \in Deleters /\ deleter \in [Deleters -> DelType]
  BY DEF Base, TypeInv, Deleters
<1>1. CASE UNCHANGED <<deleter, lock, log, hits, faults>>
  BY <1>1 DEF LogInv
<1>2. ASSUME NEW r \in Requests, Arrives(r) \/ Closes(r) \/ Falling(r)
      PROVE  UNCHANGED <<deleter, lock, log, hits, faults>>
  <2>1. ASSUME NEW p \in {"tool", "model", "queued"}, Arriving(r, p) PROVE UNCHANGED <<deletion, faults>>
    BY <2>1 DEF Arriving
  <2>2. ASSUME NEW answered, Closing(r, answered) PROVE UNCHANGED <<deletion, faults>>
    BY <1>0, <2>2, ClosingParts
  <2>3. CASE Falling(r)
    BY <2>3 DEF Falling, deletion
  <2> QED BY <1>2, <2>1, <2>2, <2>3 DEF Arrives, Closes, deletion
<1>3. CASE TimePasses \/ UNCHANGED vars
  BY <1>1, <1>3 DEF TimePasses, vars, deletion
<1>4. CASE Crash \/ CliDies
  <2>1. UNCHANGED <<log, hits>> /\ faults' = faults + 1 /\ faults \in Nat
    <3>1. UNCHANGED <<log, hits>> /\ faults' = faults + 1
      BY <1>4 DEF Crash, CliDies, observed
    <3>2. faults \in 0 .. MaxFaults /\ MaxFaults \in Nat
      BY <1>0, ContinuityAssumption DEF TypeInv
    <3> QED BY <3>1, <3>2
  <2>2. \A e \in Deleters : deleter'[e] \in {deleter[e], NoDeletion}
    BY <1>0, <1>4 DEF Crash, CliDies
  <2>3. ASSUME NEW c \in Convs PROVE log'[c] + Owes(deleter', c) <= hits'[c]
    <3>1. ASSUME NEW e \in Deleters
          PROVE  /\ OwesBy(deleter[e], c) \in {0, 1} /\ OwesBy(deleter'[e], c) \in {0, 1}
                 /\ OwesBy(deleter'[e], c) <= OwesBy(deleter[e], c)
      <4>1. OwesBy(NoDeletion, c) = 0
        BY DEF OwesBy, NoDeletion
      <4>2. OwesBy(deleter[e], c) \in {0, 1}
        BY OwesOneAtMost
      <4>3. deleter'[e] = deleter[e] \/ deleter'[e] = NoDeletion
        BY <2>2
      <4> QED BY <4>1, <4>2, <4>3
    <3>2. log[c] + Owes(deleter, c) <= hits[c] /\ log[c] \in Nat /\ hits[c] \in Nat
      BY <1>0 DEF LogInv, TypeInv
    <3>3. "prune" \in Deleters /\ "route" \in Deleters
      BY DEF Deleters
    <3> QED BY <1>0, <2>1, <3>1, <3>2, <3>3 DEF Owes
  <2>4. faults' # 0
    BY <2>1
  <2> QED BY <2>3, <2>4 DEF LogInv
<1> QED BY <1>1, <1>2, <1>3, <1>4 DEF Rests

LEMMA LogStep == Base /\ LogInv /\ [Next]_vars => LogInv'
BY Steps, LogDeletes, LogCli, LogLogs, LogRest

LEMMA LogInit == Init => LogInv
<1> SUFFICES ASSUME Init PROVE LogInv
  OBVIOUS
<1>1. lock \notin Deleters
  BY ContinuityAssumption DEF Init
<1>2. \A e \in Deleters : deleter[e].pc = "idle"
  BY DEF Init, NoDeletion
<1>3. \A c \in Convs : Owes(deleter, c) = 0
  BY <1>2 DEF Owes, OwesBy, Deleters
<1> QED BY <1>1, <1>3 DEF Init, LogInv

(* A deletion that removed something is in the deletion log, as often as   *)
(* it did, unless a process died, or it is about to be logged: by the      *)
(* route, by the prune and by the command line, whichever waits for the    *)
(* lock of the log.                                                        *)
LEMMA LogSaysAll == Base /\ LogInv => DeletionsOnRecord
<1> SUFFICES ASSUME Base, LogInv, NEW c \in Convs, log[c] < hits[c], faults \in Nat, ~(faults > 0)
             PROVE  \E d \in Deleters : deleter[d].pc \in {"lock", "append"} /\ Head(deleter[d].keys) = c
  BY DEF DeletionsOnRecord, Base, TypeInv
<1>1. log[c] + Owes(deleter, c) = hits[c] /\ log[c] \in Nat /\ hits[c] \in Nat
  BY DEF LogInv, Base, TypeInv
<1>2. /\ OwesBy(deleter["prune"], c) \in {0, 1} /\ OwesBy(deleter["route"], c) \in {0, 1}
      /\ OwesBy(deleter["cli"], c) \in {0, 1}
  BY OwesOneAtMost
<1>3. OwesBy(deleter["prune"], c) = 1 \/ OwesBy(deleter["route"], c) = 1 \/ OwesBy(deleter["cli"], c) = 1
  BY <1>1, <1>2 DEF Owes
<1> QED BY <1>3 DEF OwesBy, Deleters

-----------------------------------------------------------------------------
(* What is old, and what a prune removes                                   *)

(* A request in flight belongs to this era: time passes when none is.      *)
AgesInv == \A r \in Requests : req[r].era <= era /\ (r \in InFlight => req[r].era = era)

LEMMA AgesTurns ==
    ASSUME Base, AgesInv, NEW r \in Requests, Arrives(r) \/ Closes(r) \/ Falling(r)
    PROVE  AgesInv'
<1>0. TypeInv /\ QueueInv /\ era \in Nat
  BY ContinuityAssumption DEF Base, TypeInv
<1>1. ASSUME NEW p \in {"tool", "model", "queued"}, Arriving(r, p) PROVE AgesInv'
  <2>1. /\ req'[r].era = era /\ era' = era
        /\ \A x \in Requests : req'[x].pc = IF x = r THEN p ELSE req[x].pc
        /\ \A x \in Requests : x # r => req'[x].era = req[x].era
    BY <1>0, <1>1, ArrivingParts DEF Arriving
  <2> QED BY <1>0, <2>1 DEF AgesInv, InFlight
<1>2. ASSUME NEW answered, Closing(r, answered) PROVE AgesInv'
  <2>1. /\ era' = era /\ req[r].pc \in {"model", "fallback", "tool"}
        /\ \A x \in Requests :
              /\ req'[x].era = req[x].era
              /\ req'[x].pc = IF x = r THEN "done" ELSE IF Starts(r, x) THEN "model" ELSE req[x].pc
    BY <1>0, <1>2, ClosingParts
  <2>2. \A x \in Requests : Starts(r, x) => req[x].pc = "queued"
    BY <1>0, <2>1, StartsQueued
  <2> QED BY <2>1, <2>2 DEF AgesInv, InFlight
<1>3. CASE Falling(r)
  <2>1. /\ era' = era /\ req[r].pc = "model"
        /\ \A x \in Requests : /\ req'[x].era = req[x].era
                               /\ req'[x].pc = IF x = r THEN "fallback" ELSE req[x].pc
    BY <1>0, <1>3 DEF Falling, TypeInv, ReqType
  <2> QED BY <2>1 DEF AgesInv, InFlight
<1> QED BY <1>1, <1>2, <1>3 DEF Arrives, Closes

LEMMA AgesStep == Base /\ AgesInv /\ [Next]_vars => AgesInv'
<1> SUFFICES ASSUME Base, AgesInv, [Next]_vars PROVE AgesInv'
  OBVIOUS
<1>0. TypeInv /\ era \in Nat /\ \A r \in Requests : req[r].era \in Nat
  BY ContinuityAssumption DEF Base, TypeInv, ReqType
<1>1. CASE UNCHANGED <<era, req>>
  BY <1>1 DEF AgesInv, InFlight
<1>2. CASE Deletes
  <2>1. CASE due' = "no" /\ UNCHANGED <<era, req, queue, file, history, used, deletion, faults, overlap>>
    BY <1>1, <2>1
  <2>2. ASSUME NEW d \in Deleters, NEW k \in Seq(Convs), NEW spared \in SUBSET Requests, k # <<>>,
               Deleting(d, k, spared)
        PROVE  AgesInv'
    BY <1>0, <1>1, <2>2, DeletingParts
  <2> QED BY <1>0, <1>2, <2>1, <2>2, DeleteOutcomes DEF Deletes
<1>3. CASE CliWorks
  BY <1>1, <1>3 DEF CliWorks, CliRemoves, CliReads, CliRewrites, serverOnly
<1>4. ASSUME NEW d \in Deleters, Logs(d) PROVE AgesInv'
  BY <1>0, <1>1, <1>4, LoggingParts DEF Logs, unlogged, serverOnly
<1>5. CASE TimePasses
  <2>1. era' = era + 1 /\ req' = req /\ InFlight = {}
    BY <1>5 DEF TimePasses
  <2>2. InFlight' = {}
    BY <2>1 DEF InFlight
  <2> QED BY <1>0, <2>1, <2>2 DEF AgesInv
<1>6. CASE Crash
  <2>1. /\ era' = era
        /\ \A x \in Requests : /\ req'[x].era = req[x].era
                               /\ req'[x].pc = IF x \in InFlight THEN "lost" ELSE req[x].pc
    BY <1>0, <1>6 DEF Crash, TypeInv, ReqType
  <2> QED BY <2>1 DEF AgesInv, InFlight
<1>7. CASE CliDies \/ UNCHANGED vars
  BY <1>1, <1>7 DEF CliDies, vars
<1> QED BY <1>2, <1>3, <1>4, <1>5, <1>6, <1>7, AgesTurns, Steps DEF Rests

LEMMA AgesInit == Init => AgesInv
BY DEF Init, AgesInv, InFlight

(* Where something of this era was deleted, nothing older is left, or what *)
(* is left would look expired though its conversation is in use; and no    *)
(* deletion has a request to spare in a conversation it will delete.       *)
EmptyWhileRead == deleter["cli"].pc \in {"read", "write"} => file[Head(deleter["cli"].keys)] = <<>>
NothingOlder(c) ==
    /\ \A x \in RowsOf(c) : ~Old(x)
    /\ \A i \in DOMAIN file[c] : ~Old(file[c][i].req)
Spares(v) == \A i \in DOMAIN v.keys : \A r \in v.spared : ConvOf[r] # v.keys[i]

FreshInv ==
    ~overlap => /\ EmptyWhileRead
                /\ \A r \in erased : ~Old(r) => NothingOlder(ConvOf[r])
                /\ \A d \in Deleters : Spares(deleter[d])
                /\ victims = {}

(* A prune that begins picks no conversation with a request to be spared.  *)
LEMMA ActiveNotExpired ==
    ASSUME Base, LedgerInv, FreshInv, ~overlap, NEW r \in Active
    PROVE  ~Expired(ConvOf[r])
<1>1. r \in Requests /\ ~Old(r) /\ r \in DoneNow
  BY DEF Active, DoneNow
<1>2. CASE r \in history
  BY <1>1, <1>2 DEF Expired, RowsOf
<1>3. CASE r \in erased
  <2>1. NothingOlder(ConvOf[r])
    BY <1>1, <1>3 DEF FreshInv
  <2>2. ConvOf[r] \in Convs /\ file[ConvOf[r]] \in Seq(RowType)
    BY <1>1, ContinuityAssumption DEF Base, TypeInv
  <2>3. file[ConvOf[r]] # <<>> => 1 \in DOMAIN file[ConvOf[r]]
    BY <2>2
  <2> QED BY <2>1, <2>3 DEF Expired, NothingOlder
<1> QED BY <1>1, <1>2, <1>3 DEF LedgerInv

LEMMA KeysSpare ==
    ASSUME Base, LedgerInv, FreshInv, ~overlap, NEW i \in DOMAIN Keys, NEW r \in Active
    PROVE  ConvOf[r] # Keys[i]
<1>1. Keys \in Seq({c \in Convs : Expired(c)})
  BY Ordered DEF Keys
<1>2. Expired(Keys[i])
  BY <1>1
<1> QED BY <1>2, ActiveNotExpired

LEMMA RowsTyped ==
    ASSUME TypeInv, NEW c \in Convs, NEW i \in DOMAIN file[c]
    PROVE  file[c][i].req \in Requests
<1>1. file[c] \in Seq(RowType)
  BY DEF TypeInv
<1>2. file[c][i] \in RowType
  BY <1>1
<1> QED BY <1>2 DEF RowType

LEMMA FreshTurns ==
    ASSUME Base, LedgerInv, AgesInv, FreshInv, NEW r \in Requests, Arrives(r) \/ Closes(r) \/ Falling(r)
    PROVE  FreshInv'
<1>0. TypeInv /\ QueueInv /\ era \in Nat
  BY ContinuityAssumption DEF Base, TypeInv
<1>1. ASSUME NEW p \in {"tool", "model", "queued"}, Arriving(r, p) PROVE FreshInv'
  <2> SUFFICES ASSUME ~overlap' PROVE FreshInv'
    BY DEF FreshInv
  <2>1. /\ req[r].pc = "new" /\ req'[r].era = era /\ era' = era /\ history' = history
        /\ UNCHANGED <<deleter, erased, victims>> /\ ~overlap
        /\ p = "model" => deleter["cli"].pc \notin {"read", "write"}
        /\ \A x \in Requests : x # r => req'[x].era = req[x].era
    BY <1>0, <1>1, ArrivingParts DEF Arriving, deletion, Touched
  <2>2. r \notin erased /\ \A x \in Requests : Old(x)' => Old(x)
    <3>1. ~Old(r)'
      BY <1>0, <2>1 DEF Old
    <3> QED BY <2>1, <3>1 DEF LedgerInv, DoneNow, Old
  <2>3. \A d \in Convs : \A i \in DOMAIN file'[d] :
           \/ i \in DOMAIN file[d] /\ file'[d][i] = file[d][i]
           \/ file'[d][i].req = r
    BY <1>0, <1>1, ArrivingRows
  <2>4. EmptyWhileRead'
    <3>1. p # "model" => file' = file
      BY <1>1 DEF Arriving
    <3> QED BY <2>1, <3>1 DEF FreshInv, EmptyWhileRead
  <2>5. \A y \in erased' : ~Old(y)' => NothingOlder(ConvOf[y])'
    <3> SUFFICES ASSUME NEW y \in erased, ~Old(y)' PROVE NothingOlder(ConvOf[y])'
      BY <2>1
    <3>1. y # r /\ y \in Requests /\ ConvOf[y] \in Convs
      BY <1>0, <2>2, ContinuityAssumption DEF TypeInv
    <3>2. ~Old(y)
      BY <2>1, <3>1 DEF Old
    <3>3. NothingOlder(ConvOf[y])
      BY <2>1, <3>2 DEF FreshInv
    <3>4. ~Old(r)' /\ \A x \in Requests : ~Old(x) => ~Old(x)'
      BY <1>0, <2>1, <2>2 DEF Old
    <3>5. \A x \in RowsOf(ConvOf[y])' : ~Old(x)'
      BY <1>0, <2>1, <3>3, <3>4 DEF NothingOlder, RowsOf, TypeInv
    <3>6. \A i \in DOMAIN file[ConvOf[y]] : file[ConvOf[y]][i].req \in Requests
      BY <1>0, <3>1, RowsTyped
    <3>7. ASSUME NEW i \in DOMAIN file'[ConvOf[y]] PROVE ~Old(file[ConvOf[y]][i].req)'
      <4> DEFINE x == file'[ConvOf[y]][i].req
      <4>1. x = r \/ (x \in Requests /\ ~Old(x))
        BY <2>3, <3>1, <3>3, <3>6, <3>7 DEF NothingOlder
      <4>2. ~(req'[x].era < era')
        BY <3>4, <4>1 DEF Old
      <4> QED BY <4>2 DEF Old
    <3> QED BY <3>5, <3>7 DEF NothingOlder
  <2> QED BY <2>1, <2>4, <2>5 DEF FreshInv, Spares
<1>2. ASSUME NEW answered, Closing(r, answered) PROVE FreshInv'
  <2> SUFFICES ASSUME ~overlap' PROVE FreshInv'
    BY DEF FreshInv
  <2>1. /\ era' = era /\ history' = history \cup {r} /\ UNCHANGED <<deleter, erased, victims>>
        /\ ~overlap /\ deleter["cli"].pc \notin {"read", "write"}
        /\ req[r].pc \in {"model", "fallback", "tool"}
        /\ \A x \in Requests : req'[x].era = req[x].era
    BY <1>0, <1>2, ClosingParts DEF deletion, Touched
  <2>2. /\ ~Old(r) /\ \A x \in Requests : Old(x)' <=> Old(x)
        /\ \A n : Starts(r, n) => n \in Requests /\ ~Old(n)
    <3>1. \A n : Starts(r, n) => n \in Requests /\ n \in InFlight
      BY <1>0, <2>1, StartsQueued DEF InFlight
    <3>2. r \in InFlight
      BY <2>1 DEF InFlight
    <3> QED BY <1>0, <2>1, <3>1, <3>2 DEF AgesInv, Old
  <2>3. \A d \in Convs : \A i \in DOMAIN file'[d] :
           \/ i \in DOMAIN file[d] /\ file'[d][i] = file[d][i]
           \/ file'[d][i].req = r \/ Starts(r, file'[d][i].req)
    BY <1>0, <1>2, ClosingRows
  <2>4. EmptyWhileRead'
    BY <2>1 DEF EmptyWhileRead
  <2>5. \A y \in erased' : ~Old(y)' => NothingOlder(ConvOf[y])'
    <3> SUFFICES ASSUME NEW y \in erased, ~Old(y)' PROVE NothingOlder(ConvOf[y])'
      BY <2>1
    <3>1. y \in Requests /\ ConvOf[y] \in Convs
      BY <1>0, ContinuityAssumption DEF TypeInv
    <3>2. NothingOlder(ConvOf[y])
      BY <2>1, <2>2, <3>1 DEF FreshInv
    <3>3. \A x \in RowsOf(ConvOf[y])' : ~Old(x)'
      BY <1>0, <2>1, <2>2, <3>2 DEF NothingOlder, RowsOf, TypeInv
    <3>4. \A i \in DOMAIN file[ConvOf[y]] : file[ConvOf[y]][i].req \in Requests
      BY <1>0, <3>1, RowsTyped
    <3>5. ASSUME NEW i \in DOMAIN file'[ConvOf[y]] PROVE ~Old(file[ConvOf[y]][i].req)'
      <4> DEFINE x == file'[ConvOf[y]][i].req
      <4>1. x \in Requests /\ ~Old(x)
        BY <2>2, <2>3, <3>1, <3>2, <3>4, <3>5 DEF NothingOlder
      <4>2. ~(req'[x].era < era')
        BY <2>1, <4>1 DEF Old
      <4> QED BY <4>2 DEF Old
    <3> QED BY <3>3, <3>5 DEF NothingOlder
  <2> QED BY <2>1, <2>4, <2>5 DEF FreshInv, Spares
<1>3. CASE Falling(r)
  <2>1. /\ UNCHANGED <<era, file, history, deleter, erased, victims, overlap>>
        /\ \A x \in Requests : req'[x].era = req[x].era
    BY <1>0, <1>3 DEF Falling, TypeInv, ReqType, deletion
  <2>2. \A y \in erased : ConvOf[y] \in Convs /\ y \in Requests
    BY <1>0, ContinuityAssumption DEF TypeInv
  <2>3. \A c \in Convs : \A i \in DOMAIN file[c] : file[c][i].req \in Requests
    BY <1>0, RowsTyped
  <2>4. \A y \in erased : ~Old(y)' => ~Old(y)
    BY <2>1, <2>2 DEF Old
  <2>5. \A c \in Convs : NothingOlder(c) => NothingOlder(c)'
    <3> SUFFICES ASSUME NEW c \in Convs, NothingOlder(c) PROVE NothingOlder(c)'
      OBVIOUS
    <3>1. \A x \in RowsOf(c)' : ~Old(x)'
      BY <1>0, <2>1 DEF NothingOlder, RowsOf, TypeInv, Old
    <3>2. \A i \in DOMAIN file'[c] : ~(req'[file'[c][i].req].era < era')
      BY <2>1, <2>3 DEF NothingOlder, Old
    <3> QED BY <3>1, <3>2 DEF NothingOlder, Old
  <2> QED BY <2>1, <2>2, <2>4, <2>5 DEF FreshInv, Spares, EmptyWhileRead
<1> QED BY <1>1, <1>2, <1>3 DEF Arrives, Closes

(* A deletion empties what it deletes: what was erased there before is     *)
(* still among nothing older.                                              *)
LEMMA FreshErased ==
    ASSUME Base, FreshInv, ~overlap, UNCHANGED <<era, req>>, NEW c \in Convs, erased' \subseteq erased \cup Done(c),
           \A d \in Convs : file'[d] = file[d] \/ file'[d] = <<>>,
           history' \subseteq history, erased' # erased => RowsOf(c)' = {} /\ file'[c] = <<>>
    PROVE  \A r \in erased' : ~Old(r)' => NothingOlder(ConvOf[r])'
<1> SUFFICES ASSUME NEW r \in erased', ~Old(r)' PROVE NothingOlder(ConvOf[r])'
  OBVIOUS
<1>0. TypeInv
  BY DEF Base
<1>1. ~Old(r) /\ r \in Requests /\ ConvOf[r] \in Convs
  BY <1>0, ContinuityAssumption DEF Old, TypeInv, Done
<1>2. CASE r \in erased
  <2>1. NothingOlder(ConvOf[r])
    BY <1>1, <1>2 DEF FreshInv
  <2>2. \A x \in RowsOf(ConvOf[r])' : ~Old(x)'
    BY <2>1 DEF NothingOlder, RowsOf, Old
  <2>3. file'[ConvOf[r]] = file[ConvOf[r]] \/ DOMAIN file'[ConvOf[r]] = {}
    BY <1>1
  <2>4. \A i \in DOMAIN file'[ConvOf[r]] : ~Old(file[ConvOf[r]][i].req)'
    BY <2>1, <2>3 DEF NothingOlder, Old
  <2> QED BY <2>2, <2>4 DEF NothingOlder
<1>3. CASE r \notin erased
  <2>1. ConvOf[r] = c /\ RowsOf(c)' = {} /\ DOMAIN file'[c] = {}
    BY <1>3 DEF Done
  <2> QED BY <2>1 DEF NothingOlder, RowsOf
<1> QED BY <1>2, <1>3

LEMMA FreshDeletes == ASSUME Base, LedgerInv, AgesInv, FreshInv, Deletes PROVE FreshInv'
<1>0. TypeInv /\ "cli" \in Deleters /\ deleter \in [Deleters -> DelType]
  BY DEF Base, TypeInv, Deleters
<1>1. CASE due' = "no" /\ UNCHANGED <<era, req, queue, file, history, used, deletion, faults, overlap>>
  BY <1>1 DEF FreshInv, EmptyWhileRead, NothingOlder, Spares, RowsOf, Old, deletion
<1>2. ASSUME NEW d \in Deleters, NEW k \in Seq(Convs), NEW spared \in SUBSET Requests, k # <<>>,
             Deleting(d, k, spared), ~overlap',
             \A i \in DOMAIN k : \A r \in spared : ~overlap => ConvOf[r] # k[i]
      PROVE  FreshInv'
  <2> DEFINE c == Head(k)
  <2>1. /\ c \in Convs /\ file' = [file EXCEPT ![c] = <<>>] /\ history' = history \ RowsOf(c)
        /\ Touched /\ UNCHANGED <<era, req>>
        /\ erased' = erased \cup Done(c) /\ victims' = victims \cup (spared \cap Done(c))
    BY <1>0, <1>2, DeletingParts
  <2>2. PICK v \in DelType : /\ deleter' = [deleter EXCEPT ![d] = v] /\ v.pc \in {"lock", "idle", "delete"}
                             /\ v.spared = {} \/ (v.spared = spared /\ v.keys \in {k, Tail(k)})
    BY <1>0, <1>2, DeletingGoesOn
  <2>3. ~overlap /\ deleter["cli"].pc \notin {"read", "write"}
    BY <1>2, <2>1 DEF Touched
  <2>4. EmptyWhileRead'
    <3>1. deleter'["cli"].pc \notin {"read", "write"}
      BY <1>0, <2>2, <2>3
    <3> QED BY <3>1 DEF EmptyWhileRead
  <2>5. 1 \in DOMAIN k /\ k[1] = c /\ \A i \in DOMAIN Tail(k) : i + 1 \in DOMAIN k /\ Tail(k)[i] = k[i + 1]
    BY <1>2, HeadTailProperties
  <2>6. \A e \in Deleters : Spares(deleter'[e])
    <3>1. Spares(v)
      BY <1>2, <2>2, <2>3, <2>5 DEF Spares
    <3>2. \A e \in Deleters : Spares(deleter[e])
      BY <2>3 DEF FreshInv
    <3>3. \A e \in Deleters : deleter'[e] = v \/ deleter'[e] = deleter[e]
      BY <1>0, <2>2
    <3> QED BY <3>1, <3>2, <3>3
  <2>7. victims' = {}
    <3> HIDE DEF c
    <3>1. \A r \in spared : ConvOf[r] # c
      BY <1>2, <2>3, <2>5
    <3> QED BY <2>1, <2>3, <3>1 DEF FreshInv, Done
  <2>8. \A r \in erased' : ~Old(r)' => NothingOlder(ConvOf[r])'
    <3> HIDE DEF c
    <3>1. \A e \in Convs : file'[e] = file[e] \/ file'[e] = <<>>
      BY <1>0, <2>1 DEF TypeInv
    <3>2. RowsOf(c)' = {} /\ file'[c] = <<>>
      BY <1>0, <2>1 DEF RowsOf, TypeInv
    <3> QED BY <2>1, <2>3, <3>1, <3>2, FreshErased
  <2> QED BY <2>4, <2>6, <2>7, <2>8 DEF FreshInv, Spares
<1>3. ASSUME NEW d \in Deleters, NEW k \in Seq(Convs), NEW spared \in SUBSET Requests, ~overlap,
             \/ spared = {}
             \/ d = "prune" /\ k = Keys /\ spared = Active
             \/ k = deleter[d].keys /\ spared = deleter[d].spared
      PROVE  \A i \in DOMAIN k : \A r \in spared : ConvOf[r] # k[i]
  <2>1. Spares(deleter[d])
    BY <1>3 DEF FreshInv
  <2> QED BY <1>3, <2>1, KeysSpare DEF Spares
<1>4. CASE overlap'
  BY <1>4 DEF FreshInv
<1> QED BY <1>0, <1>1, <1>2, <1>3, <1>4, DeleteOutcomes DEF Deletes

LEMMA FreshCli == ASSUME Base, LedgerInv, AgesInv, FreshInv, CliWorks PROVE FreshInv'
<1>0. TypeInv /\ "cli" \in Deleters /\ deleter \in [Deleters -> DelType] /\ file \in [Convs -> Seq(RowType)]
  BY DEF Base, TypeInv, Deleters
<1>1. UNCHANGED <<era, req, overlap, victims>>
  BY DEF CliWorks, CliRemoves, CliReads, CliRewrites, serverOnly, observed
<1>2. SUFFICES ASSUME ~overlap
               PROVE  /\ EmptyWhileRead' /\ \A r \in erased' : ~Old(r)' => NothingOlder(ConvOf[r])'
                      /\ \A e \in Deleters : Spares(deleter'[e])
  BY <1>1 DEF FreshInv, Spares
<1>3. ASSUME NEW c \in Convs, CliRemoves(c)
      PROVE  /\ EmptyWhileRead' /\ \A r \in erased' : ~Old(r)' => NothingOlder(ConvOf[r])'
             /\ \A e \in Deleters : Spares(deleter'[e])
  <2> DEFINE v == [NoDeletion EXCEPT !.pc = "read", !.keys = <<c>>, !.hit = file[c] # <<>>]
  <2>1. /\ deleter' = [deleter EXCEPT !["cli"] = v] /\ file' = [file EXCEPT ![c] = <<>>]
        /\ UNCHANGED <<history, erased>>
    BY <1>3 DEF CliRemoves, observed
  <2>2. v.keys = <<c>> /\ v.spared = {}
    BY DEF NoDeletion
  <2> HIDE DEF v
  <2>3. Head(v.keys) = c /\ file'[c] = <<>>
    BY <1>0, <2>1, <2>2
  <2>4. EmptyWhileRead'
    BY <1>0, <2>1, <2>3 DEF EmptyWhileRead
  <2>5. \A e \in Deleters : Spares(deleter'[e])
    BY <1>0, <1>2, <2>1, <2>2 DEF FreshInv, Spares
  <2>6. \A e \in Convs : file'[e] = file[e] \/ file'[e] = <<>>
    BY <1>0, <2>1
  <2> QED BY <1>1, <1>2, <2>1, <2>4, <2>5, <2>6, FreshErased
<1>4. CASE CliReads
  <2> DEFINE v == [deleter["cli"] EXCEPT !.pc = "write", !.rows = history]
  <2>1. deleter' = [deleter EXCEPT !["cli"] = v] /\ UNCHANGED <<file, history, erased>> /\ deleter["cli"].pc = "read"
    BY <1>0, <1>4 DEF CliReads, observed, DelType
  <2>2. v.keys = deleter["cli"].keys /\ v.spared = deleter["cli"].spared
    BY <1>0 DEF DelType
  <2> HIDE DEF v
  <2>3. EmptyWhileRead'
    BY <1>0, <1>2, <2>1, <2>2 DEF EmptyWhileRead, FreshInv
  <2>4. \A e \in Deleters : Spares(deleter'[e])
    BY <1>0, <1>2, <2>1, <2>2 DEF FreshInv, Spares
  <2>5. \A r \in erased' : ~Old(r)' => NothingOlder(ConvOf[r])'
    BY <1>1, <1>2, <2>1 DEF FreshInv, NothingOlder, RowsOf, Old
  <2> QED BY <2>3, <2>4, <2>5
<1>5. CASE CliRewrites
  <2>0. PICK c \in Convs : c = Head(deleter["cli"].keys)
    BY <1>0, <1>5, KeysTyped DEF CliRewrites
  <2> DEFINE me  == deleter["cli"]
             out == {r \in me.rows : ConvOf[r] = c}
             v   == IF me.hit \/ out # {} THEN [NoDeletion EXCEPT !.pc = "lock", !.keys = me.keys] ELSE NoDeletion
  <2>1. /\ deleter' = [deleter EXCEPT !["cli"] = v] /\ UNCHANGED file /\ me.pc = "write"
        /\ history' = IF out # {} THEN me.rows \ out ELSE history
        /\ erased' = erased \cup Done(c)
    BY <1>5, <2>0 DEF CliRewrites
  <2>2. v.spared = {} /\ v.pc \in {"idle", "lock"}
    BY DEF NoDeletion
  <2> HIDE DEF v
  <2>3. me.rows = history /\ file[c] = <<>>
    BY <1>0, <1>2, <2>0, <2>1 DEF LedgerInv, FreshInv, EmptyWhileRead
  <2>4. EmptyWhileRead'
    BY <1>0, <2>1, <2>2 DEF EmptyWhileRead
  <2>5. \A e \in Deleters : Spares(deleter'[e])
    BY <1>0, <1>2, <2>1, <2>2 DEF FreshInv, Spares
  <2> HIDE DEF me
  <2>6. history' \subseteq history /\ \A r \in history' : ConvOf[r] # c
    BY <2>1, <2>3
  <2>7. RowsOf(c)' = {} /\ file'[c] = <<>>
    BY <2>1, <2>3, <2>6 DEF RowsOf
  <2>8. \A r \in erased' : ~Old(r)' => NothingOlder(ConvOf[r])'
    BY <1>1, <1>2, <2>1, <2>3, <2>6, <2>7, FreshErased
  <2> QED BY <2>4, <2>5, <2>8
<1> QED BY <1>3, <1>4, <1>5 DEF CliWorks

LEMMA FreshLogs == ASSUME Base, FreshInv, NEW d \in Deleters, Logs(d) PROVE FreshInv'
<1>0. TypeInv /\ deleter \in [Deleters -> DelType] /\ "cli" \in Deleters
  BY DEF Base, TypeInv, Deleters
<1>1. UNCHANGED <<era, req, overlap, victims, file, history, erased>> /\ deleter[d].pc # "idle"
  BY <1>0, LoggingParts DEF Logs, unlogged, serverOnly, observed
<1>2. PICK v \in DelType :
         /\ deleter' = [deleter EXCEPT ![d] = v] /\ v.pc \in {"append", "unlock", "delete", "idle"}
         /\ v = NoDeletion
            \/ (v.spared = deleter[d].spared /\ v.keys \in {deleter[d].keys, Tail(deleter[d].keys)})
  BY <1>0, LoggingParts DEF Logs
<1>3. EmptyWhileRead => EmptyWhileRead'
  BY <1>0, <1>1, <1>2 DEF EmptyWhileRead
<1>4. Spares(deleter[d]) => Spares(v)
  <2>1. Spares(NoDeletion)
    BY DEF Spares, NoDeletion
  <2>2. \A i \in DOMAIN Tail(deleter[d].keys) :
           i + 1 \in DOMAIN deleter[d].keys /\ Tail(deleter[d].keys)[i] = deleter[d].keys[i + 1]
    <3>1. deleter[d].keys \in Seq(Convs) /\ deleter[d].keys # <<>>
      BY <1>0, <1>1, KeysTyped
    <3> QED BY <3>1, HeadTailProperties
  <2>3. v = NoDeletion \/ (v.spared = deleter[d].spared /\ v.keys = deleter[d].keys)
        \/ (v.spared = deleter[d].spared /\ v.keys = Tail(deleter[d].keys))
    BY <1>2
  <2>4. ASSUME Spares(deleter[d]), v.spared = deleter[d].spared, v.keys = Tail(deleter[d].keys) PROVE Spares(v)
    BY <2>2, <2>4 DEF Spares
  <2>5. ASSUME Spares(deleter[d]), v.spared = deleter[d].spared, v.keys = deleter[d].keys PROVE Spares(v)
    BY <2>5 DEF Spares
  <2> QED BY <2>1, <2>3, <2>4, <2>5
<1>5. \A e \in Deleters : deleter'[e] = v \/ deleter'[e] = deleter[e]
  BY <1>0, <1>2
<1>6. (\A e \in Deleters : Spares(deleter[e])) => \A e \in Deleters : Spares(deleter'[e])
  BY <1>4, <1>5
<1>7. ASSUME NEW r \in erased', ~Old(r)', r \in erased /\ ~Old(r) => NothingOlder(ConvOf[r])
      PROVE  NothingOlder(ConvOf[r])'
  BY <1>1, <1>7 DEF NothingOlder, RowsOf, Old
<1> QED BY <1>1, <1>3, <1>6, <1>7 DEF FreshInv, Spares

LEMMA FreshRest == ASSUME Base, AgesInv, FreshInv, Rests PROVE FreshInv'
<1>0. TypeInv /\ deleter \in [Deleters -> DelType] /\ "cli" \in Deleters /\ era \in Nat
  BY ContinuityAssumption DEF Base, TypeInv, Deleters
<1>1. CASE TimePasses
  <2>1. era' = era + 1 /\ UNCHANGED <<req, file, history, deleter, erased, victims, overlap>>
    BY <1>1 DEF TimePasses, deletion
  <2>2. \A r \in erased : r \in Requests /\ req[r].era \in Nat
    <3>1. \A r \in erased : r \in Requests /\ req[r].era \in 0 .. MaxEra
      BY <1>0 DEF TypeInv, ReqType
    <3> QED BY <3>1, ContinuityAssumption
  <2>3. \A r \in erased' : Old(r)'
    BY <1>0, <2>1, <2>2 DEF Old, AgesInv
  <2> QED BY <2>1, <2>3 DEF FreshInv, EmptyWhileRead, Spares
<1>2. CASE Crash \/ CliDies
  <2>1. UNCHANGED <<era, file, history, erased, victims, overlap>>
    BY <1>2 DEF Crash, CliDies, observed
  <2>2. \A r \in Requests : req'[r].era = req[r].era
    <3>1. CASE Crash
      BY <1>0, <3>1 DEF Crash, TypeInv, ReqType
    <3>2. CASE CliDies
      BY <3>2 DEF CliDies
    <3> QED BY <1>2, <3>1, <3>2
  <2>3. \A e \in Deleters : deleter'[e] = deleter[e] \/ deleter'[e] = NoDeletion
    BY <1>0, <1>2 DEF Crash, CliDies
  <2>4. Spares(NoDeletion) /\ NoDeletion.pc = "idle"
    BY DEF Spares, NoDeletion
  <2>5. EmptyWhileRead => EmptyWhileRead'
    BY <1>0, <2>1, <2>3, <2>4 DEF EmptyWhileRead
  <2>6. (\A e \in Deleters : Spares(deleter[e])) => \A e \in Deleters : Spares(deleter'[e])
    BY <2>3, <2>4
  <2>7. ASSUME NEW r \in erased, ~Old(r)', ~Old(r) => NothingOlder(ConvOf[r]) PROVE NothingOlder(ConvOf[r])'
    <3>1. r \in Requests /\ ConvOf[r] \in Convs
      BY <1>0, ContinuityAssumption DEF TypeInv
    <3>2. NothingOlder(ConvOf[r])
      BY <2>1, <2>2, <2>7, <3>1 DEF Old
    <3>3. \A x \in RowsOf(ConvOf[r])' : ~Old(x)'
      BY <1>0, <2>1, <2>2, <3>2 DEF NothingOlder, RowsOf, TypeInv, Old
    <3>4. \A i \in DOMAIN file[ConvOf[r]] : file[ConvOf[r]][i].req \in Requests
      BY <1>0, <3>1, RowsTyped
    <3>5. \A i \in DOMAIN file'[ConvOf[r]] : ~(req'[file'[ConvOf[r]][i].req].era < era')
      BY <2>1, <2>2, <3>2, <3>4 DEF NothingOlder, Old
    <3> QED BY <3>3, <3>5 DEF NothingOlder, Old
  <2> QED BY <2>1, <2>5, <2>6, <2>7 DEF FreshInv, Spares
<1>3. CASE UNCHANGED vars
  BY <1>3 DEF FreshInv, EmptyWhileRead, NothingOlder, Spares, RowsOf, Old, vars
<1> QED BY <1>1, <1>2, <1>3 DEF Rests

LEMMA FreshStep == Base /\ LedgerInv /\ AgesInv /\ FreshInv /\ [Next]_vars => FreshInv'
BY Steps, FreshTurns, FreshDeletes, FreshCli, FreshLogs, FreshRest

LEMMA FreshInit == Init => FreshInv
<1> SUFFICES ASSUME Init PROVE FreshInv
  OBVIOUS
<1>1. \A d \in Deleters : deleter[d] = NoDeletion
  BY DEF Init
<1> QED BY <1>1 DEF Init, FreshInv, EmptyWhileRead, Spares, NoDeletion, Deleters

-----------------------------------------------------------------------------
(* The rows of a conversation                                              *)

(* No other turn's row lies between two rows of a turn; after the rows of  *)
(* the turn h come only its own and those of tool requests.                *)
Whole(f) ==
    \A i, j, k \in DOMAIN f :
       i < j /\ j < k /\ f[i].req = f[k].req /\ f[i].req \notin Tools
          => f[j].req \in Tools \cup {f[i].req}
LastRows(f, h) == \A i, j \in DOMAIN f : i < j /\ f[i].req = h => f[j].req \in Tools \cup {h}

(* The turn at the head of a queue is the last that wrote, and no row is   *)
(* written for a request before its turn.                                  *)
ConvRows(c) ==
    /\ \A i \in DOMAIN file[c] : /\ ConvOf[file[c][i].req] = c
                                 /\ req[file[c][i].req].pc \notin {"new", "queued"}
    /\ Whole(file[c])
    /\ queue[c] # <<>> => LastRows(file[c], Head(queue[c]))
RowsInv == \A c \in Convs : ConvRows(c)

LEMMA GrownWhole ==
    ASSUME NEW f \in Seq(RowType), NEW g, NEW r, Grown(f, g, r), Whole(f), r \in Tools \/ LastRows(f, r)
    PROVE  Whole(g)
<1> SUFFICES ASSUME NEW i \in DOMAIN g, NEW j \in DOMAIN g, NEW k \in DOMAIN g, i < j, j < k,
                    g[i].req = g[k].req, g[i].req \notin Tools
             PROVE  g[j].req \in Tools \cup {g[i].req}
  BY DEF Whole
<1>0. /\ i \in 1 .. Len(g) /\ j \in 1 .. Len(g) /\ k \in 1 .. Len(g) /\ Len(f) \in Nat /\ Len(g) \in Nat
      /\ DOMAIN f = 1 .. Len(f)
  BY DEF Grown
<1>1. CASE k <= Len(f)
  <2>1. i \in DOMAIN f /\ j \in DOMAIN f /\ k \in DOMAIN f /\ g[i] = f[i] /\ g[j] = f[j] /\ g[k] = f[k]
    BY <1>0, <1>1 DEF Grown
  <2> QED BY <2>1 DEF Whole
<1>2. CASE k > Len(f) /\ j <= Len(f)
  <2>1. i \in DOMAIN f /\ j \in DOMAIN f /\ g[i] = f[i] /\ g[j] = f[j] /\ g[k].req = r
    BY <1>0, <1>2 DEF Grown
  <2> QED BY <2>1 DEF LastRows
<1>3. CASE k > Len(f) /\ j > Len(f)
  BY <1>0, <1>3 DEF Grown
<1> QED BY <1>0, <1>1, <1>2, <1>3

LEMMA GrownLast ==
    ASSUME NEW f \in Seq(RowType), NEW g, NEW r, NEW h, Grown(f, g, r), LastRows(f, h), r \in Tools \/ r = h
    PROVE  LastRows(g, h)
<1> SUFFICES ASSUME NEW i \in DOMAIN g, NEW j \in DOMAIN g, i < j, g[i].req = h
             PROVE  g[j].req \in Tools \cup {h}
  BY DEF LastRows
<1>0. i \in 1 .. Len(g) /\ j \in 1 .. Len(g) /\ Len(f) \in Nat /\ Len(g) \in Nat /\ DOMAIN f = 1 .. Len(f)
  BY DEF Grown
<1>1. CASE j <= Len(f)
  <2>1. i \in DOMAIN f /\ j \in DOMAIN f /\ g[i] = f[i] /\ g[j] = f[j]
    BY <1>0, <1>1 DEF Grown
  <2> QED BY <2>1 DEF LastRows
<1>2. CASE j > Len(f)
  BY <1>0, <1>2 DEF Grown
<1> QED BY <1>0, <1>1, <1>2

(* A turn that had no row yet starts.                                      *)
LEMMA StartRows ==
    ASSUME NEW f \in Seq(RowType), NEW n \in Requests, Whole(f), \A i \in DOMAIN f : f[i].req # n
    PROVE  Whole(Append(f, Row("user", n))) /\ LastRows(Append(f, Row("user", n)), n)
<1>1. Grown(f, Append(f, Row("user", n)), n)
  BY GrownItself, GrownAppend
<1>2. LastRows(f, n)
  BY DEF LastRows
<1> QED BY <1>1, <1>2, GrownWhole, GrownLast

LEMMA RowsArrive ==
    ASSUME Base, RowsInv, NEW r \in Requests, NEW p \in {"tool", "model", "queued"}, Arriving(r, p)
    PROVE  RowsInv'
<1>0. TypeInv /\ QueueInv
  BY DEF Base
<1>1. /\ ConvOf[r] \in Convs /\ file[ConvOf[r]] \in Seq(RowType) /\ queue[ConvOf[r]] \in Seq(Requests)
      /\ req[r].pc = "new" /\ queue \in [Convs -> Seq(Requests)]
      /\ p # "tool" => (p = "model" <=> queue[ConvOf[r]] = <<>>)
      /\ queue' = IF p = "tool" THEN queue ELSE [queue EXCEPT ![ConvOf[r]] = Append(queue[ConvOf[r]], r)]
      /\ \A x \in Requests : req'[x].pc = IF x = r THEN p ELSE req[x].pc
  <2>1. /\ ConvOf[r] \in Convs /\ file[ConvOf[r]] \in Seq(RowType) /\ queue[ConvOf[r]] \in Seq(Requests)
        /\ \A x \in Requests : req'[x].pc = IF x = r THEN p ELSE req[x].pc
    BY <1>0, ArrivingParts
  <2>2. queue \in [Convs -> Seq(Requests)]
    BY <1>0 DEF TypeInv
  <2> QED BY <2>1, <2>2 DEF Arriving
<1>2. /\ \A d \in Convs : d # ConvOf[r] \/ p # "model" => file'[d] = file[d]
      /\ p = "model" => file'[ConvOf[r]] = Append(file[ConvOf[r]], Row("user", r))
      /\ \A d \in Convs : \A i \in DOMAIN file'[d] :
            \/ i \in DOMAIN file[d] /\ file'[d][i] = file[d][i]
            \/ d = ConvOf[r] /\ file'[d][i].req = r /\ p = "model"
  BY <1>0, ArrivingRows
<1>3. ASSUME NEW c \in Convs, NEW i \in DOMAIN file'[c]
      PROVE  ConvOf[file'[c][i].req] = c /\ req'[file'[c][i].req].pc \notin {"new", "queued"}
  <2>1. CASE c = ConvOf[r] /\ file'[c][i].req = r /\ p = "model"
    BY <1>1, <1>2, <2>1
  <2>2. CASE i \in DOMAIN file[c] /\ file'[c][i] = file[c][i]
    <3>1. /\ file[c][i].req \in Requests /\ ConvOf[file[c][i].req] = c
          /\ req[file[c][i].req].pc \notin {"new", "queued"}
      BY <1>0, <2>2, RowsTyped DEF RowsInv, ConvRows
    <3>2. file[c][i].req # r
      BY <1>1, <1>2, <3>1
    <3> QED BY <1>1, <1>2, <2>2, <3>1, <3>2
  <2> QED BY <1>1, <1>2, <1>3, <2>1, <2>2
<1>4. ASSUME NEW c \in Convs
      PROVE  Whole(file'[c]) /\ (queue'[c] # <<>> => LastRows(file'[c], Head(queue'[c])))
  <2>1. CASE c = ConvOf[r] /\ p = "model"
    <3>1. \A i \in DOMAIN file[c] : file[c][i].req # r
      BY <1>1, <1>2, <2>1 DEF RowsInv, ConvRows
    <3>2. Whole(file[c]) /\ queue'[c] = Append(<<>>, r)
      BY <1>1, <1>2, <2>1 DEF RowsInv, ConvRows
    <3>3. Head(queue'[c]) = r
      BY <3>2
    <3> QED BY <1>1, <1>2, <2>1, <3>1, <3>2, <3>3, StartRows
  <2>2. CASE c # ConvOf[r] \/ p = "tool"
    BY <1>1, <1>2, <2>2 DEF RowsInv, ConvRows
  <2>3. CASE c = ConvOf[r] /\ p = "queued"
    <3> DEFINE q == queue[c]
    <3>1. q \in Seq(Requests) /\ q # <<>> /\ queue'[c] = Append(q, r) /\ file'[c] = file[c]
      BY <1>1, <1>2, <2>3
    <3>2. Whole(file[c]) /\ LastRows(file[c], Head(q))
      BY <3>1 DEF RowsInv, ConvRows
    <3> HIDE DEF q
    <3>3. Head(Append(q, r)) = Head(q)
      BY <3>1
    <3> QED BY <3>1, <3>2, <3>3
  <2> QED BY <2>1, <2>2, <2>3
<1> QED BY <1>3, <1>4 DEF RowsInv, ConvRows

LEMMA RowsClose ==
    ASSUME Base, RowsInv, NEW r \in Requests, NEW answered, Closing(r, answered)
    PROVE  RowsInv'
<1>0. TypeInv /\ QueueInv /\ queue \in [Convs -> Seq(Requests)]
  BY DEF Base, TypeInv
<1> DEFINE g == Closed(r, answered)
<1>1. PICK c \in Convs : c = ConvOf[r]
  BY ContinuityAssumption
<1>2. /\ queue' = [queue EXCEPT ![c] = Rest(r)] /\ req[r].pc \in {"model", "fallback", "tool"}
      /\ \A x \in Requests :
            req'[x].pc = IF x = r THEN "done" ELSE IF Starts(r, x) THEN "model" ELSE req[x].pc
  BY <1>0, <1>1, ClosingParts
<1>3. /\ file[c] \in Seq(RowType) /\ Grown(file[c], g, r)
      /\ \A d \in Convs : d # c => file'[d] = file[d]
      /\ \A n : Starts(r, n) => file'[c] = Append(g, Row("user", n))
      /\ ~NextTurn(r) => file'[c] = g
      /\ \A d \in Convs : \A i \in DOMAIN file'[d] :
            \/ i \in DOMAIN file[d] /\ file'[d][i] = file[d][i]
            \/ d = c /\ (file'[d][i].req = r \/ Starts(r, file'[d][i].req))
  BY <1>0, <1>1, ClosingRows
<1>4. \A n : Starts(r, n) => /\ n \in Requests \ Tools /\ n # r /\ req[n].pc = "queued" /\ ConvOf[n] = c
                             /\ Rest(r) # <<>> /\ Rest(r)[1] = n /\ r \notin Tools
  BY <1>0, <1>1, <1>2, StartsQueued
<1>5. /\ Rest(r) \in Seq(Requests) /\ (r \in Tools => Rest(r) = queue[c])
      /\ r \notin Tools => queue[c] # <<>> /\ queue[c][1] = r
  BY <1>0, <1>1, <1>2, RestTyped
<1> HIDE DEF g
<1>6. ASSUME NEW d \in Convs, NEW i \in DOMAIN file'[d]
      PROVE  ConvOf[file'[d][i].req] = d /\ req'[file'[d][i].req].pc \notin {"new", "queued"}
  <2>1. CASE d = c /\ file'[d][i].req = r
    BY <1>1, <1>2, <2>1
  <2>2. CASE d = c /\ Starts(r, file'[d][i].req)
    BY <1>2, <1>4, <2>2
  <2>3. CASE i \in DOMAIN file[d] /\ file'[d][i] = file[d][i]
    <3>1. /\ file[d][i].req \in Requests /\ ConvOf[file[d][i].req] = d
          /\ req[file[d][i].req].pc \notin {"new", "queued"}
      BY <1>0, <2>3, RowsTyped DEF RowsInv, ConvRows
    <3> QED BY <1>2, <2>3, <3>1
  <2> QED BY <1>3, <1>6, <2>1, <2>2, <2>3
<1>7. Whole(g) /\ g \in Seq(RowType)
  <2>1. Whole(file[c]) /\ (queue[c] # <<>> => LastRows(file[c], Head(queue[c])))
    BY DEF RowsInv, ConvRows
  <2>2. r \notin Tools => LastRows(file[c], r)
    <3>1. r \notin Tools => Head(queue[c]) = r
      BY <1>0, <1>5
    <3> QED BY <1>5, <2>1, <3>1
  <2> QED BY <1>3, <2>1, <2>2, GrownWhole DEF Grown
<1>8. Whole(file'[c]) /\ (queue'[c] # <<>> => LastRows(file'[c], Head(queue'[c])))
  <2>0. queue'[c] = Rest(r)
    BY <1>0, <1>2
  <2>1. CASE NextTurn(r)
    <3>1. PICK n : Starts(r, n)
      BY <2>1 DEF Starts
    <3>2. ASSUME NEW i \in DOMAIN g PROVE g[i].req # n
      <4>1. \A j \in DOMAIN file[c] : file[c][j].req # n
        BY <1>4, <3>1 DEF RowsInv, ConvRows
      <4>2. g[i].req = r \/ (i \in DOMAIN file[c] /\ g[i] = file[c][i])
        BY <1>3, <1>7, <3>2 DEF Grown
      <4> QED BY <1>4, <3>1, <4>1, <4>2
    <3>3. Head(Rest(r)) = n
      BY <1>4, <1>5, <3>1
    <3>4. n \in Requests /\ file'[c] = Append(g, Row("user", n))
      BY <1>3, <1>4, <3>1
    <3> QED BY <1>7, <2>0, <3>2, <3>3, <3>4, StartRows
  <2>2. CASE ~NextTurn(r) /\ r \in Tools
    <3>1. queue'[c] = queue[c] /\ file'[c] = g
      BY <1>3, <1>5, <2>0, <2>2
    <3>2. queue[c] # <<>> => LastRows(g, Head(queue[c]))
      BY <1>3, <2>2, GrownLast DEF RowsInv, ConvRows
    <3> QED BY <1>7, <3>1, <3>2
  <2>3. CASE ~NextTurn(r) /\ r \notin Tools
    <3>1. queue'[c] = <<>> /\ file'[c] = g
      BY <1>3, <2>0, <2>3 DEF NextTurn
    <3> QED BY <1>7, <3>1
  <2> QED BY <2>1, <2>2, <2>3
<1>9. \A d \in Convs : Whole(file'[d]) /\ (queue'[d] # <<>> => LastRows(file'[d], Head(queue'[d])))
  <2>1. \A d \in Convs : d # c => file'[d] = file[d] /\ queue'[d] = queue[d]
    BY <1>0, <1>2, <1>3
  <2> QED BY <1>8, <2>1 DEF RowsInv, ConvRows
<1> QED BY <1>6, <1>9 DEF RowsInv, ConvRows

LEMMA RowsRest ==
    ASSUME Base, RowsInv, [Next]_vars, \A r \in Requests : ~Arrives(r) /\ ~Closes(r)
    PROVE  RowsInv'
<1>0. TypeInv /\ QueueInv /\ file \in [Convs -> Seq(RowType)]
  BY DEF Base, TypeInv
<1>1. ASSUME UNCHANGED <<req, queue>>, \A c \in Convs : file'[c] = file[c] \/ file'[c] = <<>> PROVE RowsInv'
  <2>1. ASSUME NEW c \in Convs PROVE ConvRows(c)'
    <3>1. CASE file'[c] = file[c]
      BY <1>1, <3>1 DEF RowsInv, ConvRows
    <3>2. CASE file'[c] = <<>>
      <4>1. DOMAIN file'[c] = {}
        BY <3>2
      <4> QED BY <4>1 DEF ConvRows, Whole, LastRows
    <3> QED BY <1>1, <3>1, <3>2
  <2> QED BY <2>1 DEF RowsInv
<1>2. ASSUME NEW r \in Requests, Falling(r) PROVE RowsInv'
  <2>1. /\ UNCHANGED <<queue, file>>
        /\ \A x \in Requests : req'[x].pc = IF x = r THEN "fallback" ELSE req[x].pc
    BY <1>0, <1>2 DEF Falling, TypeInv, ReqType
  <2>2. \A c \in Convs : \A i \in DOMAIN file[c] : file[c][i].req \in Requests
    BY <1>0, RowsTyped
  <2> QED BY <2>1, <2>2 DEF RowsInv, ConvRows
<1>3. CASE Deletes
  <2>1. CASE due' = "no" /\ UNCHANGED <<era, req, queue, file, history, used, deletion, faults, overlap>>
    BY <1>1, <2>1
  <2>2. ASSUME NEW d \in Deleters, NEW k \in Seq(Convs), NEW spared \in SUBSET Requests, k # <<>>,
               Deleting(d, k, spared)
        PROVE  RowsInv'
    <3>1. UNCHANGED <<req, queue>> /\ file' = [file EXCEPT ![Head(k)] = <<>>]
      BY <1>0, <2>2, DeletingParts
    <3> QED BY <1>0, <1>1, <3>1
  <2> QED BY <1>0, <1>3, <2>1, <2>2, DeleteOutcomes DEF Deletes
<1>4. CASE CliWorks
  <2>1. UNCHANGED <<req, queue>> /\ (file' = file \/ \E c \in Convs : file' = [file EXCEPT ![c] = <<>>])
    BY <1>4 DEF CliWorks, CliRemoves, CliReads, CliRewrites, serverOnly
  <2> QED BY <1>0, <1>1, <2>1
<1>5. ASSUME NEW d \in Deleters, Logs(d) PROVE RowsInv'
  BY <1>0, <1>1, <1>5, LoggingParts DEF Logs, unlogged, serverOnly
<1>6. CASE TimePasses \/ CliDies \/ UNCHANGED vars
  BY <1>1, <1>6 DEF TimePasses, CliDies, vars
<1>7. CASE Crash
  <2>1. /\ UNCHANGED file /\ queue' = [c \in Convs |-> <<>>]
        /\ \A x \in Requests : req'[x].pc = IF x \in InFlight THEN "lost" ELSE req[x].pc
    BY <1>0, <1>7 DEF Crash, TypeInv, ReqType
  <2>2. \A c \in Convs : \A i \in DOMAIN file[c] : file[c][i].req \in Requests
    BY <1>0, RowsTyped
  <2> QED BY <2>1, <2>2 DEF RowsInv, ConvRows
<1> QED BY <1>2, <1>3, <1>4, <1>5, <1>6, <1>7, Steps DEF Rests

LEMMA RowsStep == Base /\ RowsInv /\ [Next]_vars => RowsInv'
BY RowsArrive, RowsClose, RowsRest DEF Arrives, Closes

LEMMA RowsInit == Init => RowsInv
<1> SUFFICES ASSUME Init PROVE RowsInv
  OBVIOUS
<1>1. \A c \in Convs : DOMAIN file[c] = {} /\ queue[c] = <<>>
  BY DEF Init
<1> QED BY <1>1 DEF RowsInv, ConvRows, Whole

LEMMA BaseTyped == Base /\ LogInv => TypeOK
<1> SUFFICES ASSUME Base, LogInv PROVE TypeOK
  OBVIOUS
<1>0. TypeInv /\ QueueInv
  BY DEF Base
<1>1. ASSUME NEW c \in Convs PROVE ToSet(queue[c]) = {r \in InFlight \ Tools : ConvOf[r] = c}
  <2>1. queue[c] \in Seq(Requests)
    BY <1>0 DEF TypeInv
  <2>2. \A r : r \in ToSet(queue[c]) <=> \E i \in DOMAIN queue[c] : queue[c][i] = r
    BY DEF ToSet
  <2>3. ASSUME NEW i \in DOMAIN queue[c]
        PROVE  queue[c][i] \in InFlight \ Tools /\ ConvOf[queue[c][i]] = c
    BY <1>0, <2>1, <2>3 DEF QueueInv, InFlight
  <2>4. ASSUME NEW r \in InFlight \ Tools, ConvOf[r] = c PROVE \E i \in DOMAIN queue[c] : queue[c][i] = r
    BY <1>0, <2>4 DEF QueueInv, InFlight
  <2> QED BY <2>2, <2>3, <2>4
<1>2. ASSUME NEW c \in Convs PROVE log[c] \in 0 .. hits[c]
  <2>1. log[c] + Owes(deleter, c) <= hits[c] /\ log[c] \in Nat /\ hits[c] \in Nat
    BY <1>0 DEF LogInv, TypeInv
  <2>2. /\ OwesBy(deleter["prune"], c) \in {0, 1} /\ OwesBy(deleter["route"], c) \in {0, 1}
        /\ OwesBy(deleter["cli"], c) \in {0, 1}
    BY OwesOneAtMost
  <2> QED BY <2>1, <2>2 DEF Owes
<1> QED BY <1>0, <1>1, <1>2 DEF TypeInv, TypeOK, RowType, ReqType

-----------------------------------------------------------------------------
(* The fallback's caps                                                     *)

(* A conversation has one turn at the fallback at most, so the answers on  *)
(* their way are as many as the conversations that wait for one; when the  *)
(* last of them was let through, the cap was not reached.                  *)
Waiting == {c \in Convs : \E r \in Requests : ConvOf[r] = c /\ req[r].pc = "fallback"}

CapInv ==
    /\ IsFiniteSet(used)
    /\ \A c \in Convs : UsesIn(c) <= ConvCap
    /\ \A c \in Waiting : UsesIn(c) < ConvCap
    /\ Cardinality(used) + Cardinality(Waiting) <= GlobalCap + Cardinality(Convs) - 1

LEMMA WaitingCounted ==
    /\ IsFiniteSet(Convs) /\ Cardinality(Convs) \in Nat
    /\ \A S \in SUBSET Convs : IsFiniteSet(S) /\ Cardinality(S) \in Nat /\ Cardinality(S) <= Cardinality(Convs)
    /\ \A S \in SUBSET Convs : \A c \in S : Cardinality(S \ {c}) = Cardinality(S) - 1
<1>1. IsFiniteSet(Convs)
  BY ContinuityAssumption
<1>2. ASSUME NEW S \in SUBSET Convs
      PROVE  /\ IsFiniteSet(S) /\ Cardinality(S) \in Nat /\ Cardinality(S) <= Cardinality(Convs)
             /\ \A c \in S : Cardinality(S \ {c}) = Cardinality(S) - 1
  <2>1. IsFiniteSet(S) /\ Cardinality(S) <= Cardinality(Convs)
    BY <1>1, FS_Subset
  <2> QED BY <2>1, FS_CardinalityType, FS_RemoveElement
<1> QED BY <1>1, <1>2, FS_CardinalityType

(* One more use counts one at most, in its own conversation only.          *)
LEMMA UsesGrow ==
    ASSUME IsFiniteSet(used), NEW r \in Requests, used' = used \cup {r}
    PROVE  /\ IsFiniteSet(used') /\ Cardinality(used) \in Nat /\ Cardinality(used') \in Nat
           /\ Cardinality(used') <= Cardinality(used) + 1
           /\ \A c : UsesIn(c) \in Nat /\ UsesIn(c)' \in Nat /\ UsesIn(c)' <= UsesIn(c) + 1
           /\ \A c : c # ConvOf[r] => UsesIn(c)' = UsesIn(c)
<1>1. /\ IsFiniteSet(used') /\ Cardinality(used) \in Nat /\ Cardinality(used') \in Nat
      /\ Cardinality(used') <= Cardinality(used) + 1
  <2>1. IsFiniteSet(used \cup {r})
        /\ Cardinality(used \cup {r}) = IF r \in used THEN Cardinality(used) ELSE Cardinality(used) + 1
    BY FS_AddElement
  <2> QED BY <2>1, FS_CardinalityType
<1>2. ASSUME NEW c
      PROVE  /\ UsesIn(c) \in Nat /\ UsesIn(c)' \in Nat /\ UsesIn(c)' <= UsesIn(c) + 1
             /\ c # ConvOf[r] => UsesIn(c)' = UsesIn(c)
  <2> DEFINE S == {x \in used : ConvOf[x] = c}
             T == {x \in used' : ConvOf[x] = c}
  <2>1. IsFiniteSet(S) /\ Cardinality(S) \in Nat
    BY FS_Subset, FS_CardinalityType
  <2>2. T = S \/ (T = S \cup {r} /\ c = ConvOf[r])
    OBVIOUS
  <2> HIDE DEF S, T
  <2>3. Cardinality(S \cup {r}) = IF r \in S THEN Cardinality(S) ELSE Cardinality(S) + 1
    BY <2>1, FS_AddElement
  <2>4. Cardinality(T) \in Nat /\ Cardinality(T) <= Cardinality(S) + 1 /\ (c # ConvOf[r] => Cardinality(T) = Cardinality(S))
    <3>1. CASE T = S
      BY <2>1, <3>1
    <3>2. CASE T = S \cup {r} /\ c = ConvOf[r]
      <4>1. Cardinality(T) = Cardinality(S) \/ Cardinality(T) = Cardinality(S) + 1
        BY <2>3, <3>2
      <4> QED BY <2>1, <3>2, <4>1
    <3> QED BY <2>2, <3>1, <3>2
  <2>5. UsesIn(c) = Cardinality(S) /\ UsesIn(c)' = Cardinality(T)
    BY DEF UsesIn, S, T
  <2> QED BY <2>1, <2>4, <2>5
<1> QED BY <1>1, <1>2

(* Nothing is recorded and nobody new waits.                               *)
LEMMA CapsKept ==
    ASSUME CapInv, used' = used, Waiting' \subseteq Waiting
    PROVE  CapInv'
<1>1. \A c : UsesIn(c)' = UsesIn(c)
  BY DEF UsesIn
<1>2. Cardinality(used) \in Nat
  BY FS_CardinalityType DEF CapInv
<1>3. Waiting \in SUBSET Convs /\ Waiting' \in SUBSET Convs /\ Waiting' \in SUBSET Waiting
  BY DEF Waiting
<1>4. Cardinality(Waiting') <= Cardinality(Waiting) /\ Cardinality(Waiting) \in Nat /\ Cardinality(Waiting') \in Nat
  <2>1. IsFiniteSet(Waiting)
    BY <1>3, WaitingCounted
  <2> QED BY <1>3, <2>1, WaitingCounted, FS_Subset
<1>5. GlobalCap \in Nat /\ Cardinality(Convs) \in Nat
  BY ContinuityAssumption, WaitingCounted
<1>6. Cardinality(used') + Cardinality(Waiting') <= GlobalCap + Cardinality(Convs) - 1
  BY <1>2, <1>4, <1>5 DEF CapInv
<1>7. (\A c \in Convs : UsesIn(c)' <= ConvCap) /\ \A c \in Waiting' : UsesIn(c)' < ConvCap
  BY <1>1, <1>3 DEF CapInv
<1> QED BY <1>6, <1>7 DEF CapInv

LEMMA CapsFall == ASSUME Base, CapInv, NEW r \in Requests, Falling(r) PROVE CapInv'
<1>1. /\ used' = used /\ ~Capped(ConvOf[r]) /\ ConvOf[r] \in Convs /\ GlobalCap \in Nat /\ ConvCap \in Nat
      /\ \A x \in Requests : req'[x].pc = IF x = r THEN "fallback" ELSE req[x].pc
  BY ContinuityAssumption DEF Falling, Base, TypeInv, ReqType
<1>2. \A c : UsesIn(c)' = UsesIn(c)
  BY <1>1 DEF UsesIn
<1>3. Waiting' \subseteq Waiting \cup {ConvOf[r]} /\ Waiting' \in SUBSET Convs
  BY <1>1 DEF Waiting
<1>4. IsFiniteSet(used) /\ Cardinality(used) \in Nat /\ \A c : UsesIn(c) \in Nat
  <2>1. IsFiniteSet(used)
    BY DEF CapInv
  <2>2. ASSUME NEW c PROVE UsesIn(c) \in Nat
    <3>1. IsFiniteSet({x \in used : ConvOf[x] = c})
      BY <2>1, FS_Subset
    <3> QED BY <3>1, FS_CardinalityType DEF UsesIn
  <2> QED BY <2>1, <2>2, FS_CardinalityType
<1>5. Cardinality(used) < GlobalCap /\ UsesIn(ConvOf[r]) < ConvCap
  BY <1>1, <1>4 DEF Capped
<1>6. Cardinality(used') + Cardinality(Waiting') <= GlobalCap + Cardinality(Convs) - 1
  <2>1. Cardinality(Waiting') \in Nat /\ Cardinality(Waiting') <= Cardinality(Convs) /\ Cardinality(Convs) \in Nat
    BY <1>3, WaitingCounted
  <2> QED BY <1>1, <1>4, <1>5, <2>1
<1>7. (\A c \in Convs : UsesIn(c)' <= ConvCap) /\ \A c \in Waiting' : UsesIn(c)' < ConvCap
  BY <1>2, <1>3, <1>5 DEF CapInv
<1> QED BY <1>1, <1>4, <1>6, <1>7 DEF CapInv

LEMMA CapsClose ==
    ASSUME Base, CapInv, NEW r \in Requests, NEW answered, Closing(r, answered)
    PROVE  CapInv'
<1>0. TypeInv /\ QueueInv
  BY DEF Base
<1>1. PICK c \in Convs : c = ConvOf[r]
  BY ContinuityAssumption
<1>2. /\ req[r].pc \in {"model", "fallback", "tool"}
      /\ \A x \in Requests :
            req'[x].pc = IF x = r THEN "done" ELSE IF Starts(r, x) THEN "model" ELSE req[x].pc
  BY <1>0, ClosingParts
<1>3. Waiting' \subseteq Waiting
  BY <1>2 DEF Waiting
<1>4. CASE used' = used
  BY <1>3, <1>4, CapsKept
<1>5. CASE req[r].pc = "fallback" /\ used' = used \cup {r}
  <2>1. c \in Waiting /\ c \notin Waiting'
    <3>1. ASSUME NEW x \in Requests, ConvOf[x] = c, req'[x].pc = "fallback" PROVE FALSE
      <4>1. x # r /\ req[x].pc = "fallback"
        BY <1>2, <3>1
      <4>2. x \notin Tools /\ r \notin Tools
        BY <1>0, <1>5, <4>1 DEF QueueInv
      <4>3. queue[ConvOf[x]][1] = x /\ queue[ConvOf[r]][1] = r
        BY <1>0, <1>5, <4>1, <4>2, HeadRuns
      <4> QED BY <1>1, <3>1, <4>1, <4>3
    <3> QED BY <1>1, <1>5, <3>1 DEF Waiting
  <2>2. Waiting \in SUBSET Convs /\ Waiting' \in SUBSET (Waiting \ {c})
    BY <1>3, <2>1 DEF Waiting
  <2>3. /\ Cardinality(Waiting') <= Cardinality(Waiting) - 1 /\ Cardinality(Waiting) \in Nat
        /\ Cardinality(Waiting') \in Nat
    <3>1. Waiting \ {c} \in SUBSET Convs /\ Waiting' \in SUBSET Convs
      BY <2>2
    <3>2. /\ Cardinality(Waiting \ {c}) = Cardinality(Waiting) - 1 /\ IsFiniteSet(Waiting \ {c})
          /\ Cardinality(Waiting) \in Nat /\ Cardinality(Waiting') \in Nat
      BY <2>1, <2>2, <3>1, WaitingCounted
    <3>3. Cardinality(Waiting') <= Cardinality(Waiting \ {c})
      BY <2>2, <3>2, FS_Subset
    <3> QED BY <3>2, <3>3
  <2>4. /\ IsFiniteSet(used') /\ Cardinality(used) \in Nat /\ Cardinality(used') \in Nat
        /\ Cardinality(used') <= Cardinality(used) + 1
        /\ \A d : UsesIn(d) \in Nat /\ UsesIn(d)' \in Nat /\ UsesIn(d)' <= UsesIn(d) + 1
        /\ \A d : d # c => UsesIn(d)' = UsesIn(d)
    <3>1. IsFiniteSet(used)
      BY DEF CapInv
    <3> QED BY <1>1, <1>5, <3>1, UsesGrow
  <2>5. Cardinality(used') + Cardinality(Waiting') <= GlobalCap + Cardinality(Convs) - 1
    <3>1. GlobalCap \in Nat /\ Cardinality(Convs) \in Nat
      BY ContinuityAssumption, WaitingCounted
    <3> QED BY <2>3, <2>4, <3>1 DEF CapInv
  <2>6. UsesIn(c) < ConvCap /\ ConvCap \in Nat
    BY <2>1, ContinuityAssumption DEF CapInv
  <2>7. UsesIn(c)' <= ConvCap
    BY <2>4, <2>6
  <2>8. (\A d \in Convs : UsesIn(d)' <= ConvCap) /\ \A d \in Waiting' : UsesIn(d)' < ConvCap
    BY <1>3, <2>1, <2>4, <2>7 DEF CapInv
  <2> QED BY <2>4, <2>5, <2>8 DEF CapInv
<1> QED BY <1>4, <1>5 DEF Closing

LEMMA NothingUsed ==
    ASSUME used' = {}, Waiting' = {}, \A c \in Convs : UsesIn(c)' = Cardinality({})
    PROVE  CapInv'
<1>1. /\ ConvCap \in Nat /\ GlobalCap \in Nat \ {0} /\ Cardinality(Convs) \in Nat
      /\ IsFiniteSet({}) /\ Cardinality({}) = 0
  BY ContinuityAssumption, WaitingCounted, FS_EmptySet
<1>2. Cardinality(used') + Cardinality(Waiting') <= GlobalCap + Cardinality(Convs) - 1
  BY <1>1
<1>3. IsFiniteSet(used') /\ \A c \in Convs : UsesIn(c)' <= ConvCap
  BY <1>1
<1> QED BY <1>2, <1>3 DEF CapInv

LEMMA CapsRest ==
    ASSUME Base, CapInv, [Next]_vars, \A r \in Requests : ~Closes(r) /\ ~Falling(r)
    PROVE  CapInv'
<1>0. TypeInv
  BY DEF Base
<1>1. ASSUME UNCHANGED <<used, req>> PROVE CapInv'
  BY <1>1, CapsKept DEF Waiting
<1>2. ASSUME NEW r \in Requests, Arrives(r) PROVE CapInv'
  <2>1. PICK p \in {"tool", "model", "queued"} : Arriving(r, p)
    BY <1>2 DEF Arrives
  <2>2. used' = used /\ \A x \in Requests : req'[x].pc = IF x = r THEN p ELSE req[x].pc
    BY <1>0, <2>1, ArrivingParts DEF Arriving
  <2>3. Waiting' \subseteq Waiting
    BY <2>2 DEF Waiting
  <2> QED BY <2>2, <2>3, CapsKept
<1>3. CASE Deletes
  <2>1. CASE due' = "no" /\ UNCHANGED <<era, req, queue, file, history, used, deletion, faults, overlap>>
    BY <1>1, <2>1
  <2>2. ASSUME NEW d \in Deleters, NEW k \in Seq(Convs), NEW spared \in SUBSET Requests, k # <<>>,
               Deleting(d, k, spared)
        PROVE  CapInv'
    BY <1>0, <1>1, <2>2, DeletingParts
  <2> QED BY <1>0, <1>3, <2>1, <2>2, DeleteOutcomes DEF Deletes
<1>4. CASE CliWorks
  BY <1>1, <1>4 DEF CliWorks, CliRemoves, CliReads, CliRewrites, serverOnly
<1>5. ASSUME NEW d \in Deleters, Logs(d) PROVE CapInv'
  BY <1>0, <1>1, <1>5, LoggingParts DEF Logs, unlogged, serverOnly
<1>6. CASE CliDies \/ UNCHANGED vars
  BY <1>1, <1>6 DEF CliDies, vars
<1>7. CASE Crash
  <2>1. used' = used /\ \A x \in Requests : req'[x].pc = IF x \in InFlight THEN "lost" ELSE req[x].pc
    BY <1>0, <1>7 DEF Crash, TypeInv, ReqType
  <2>2. Waiting' \subseteq Waiting
    BY <2>1 DEF Waiting
  <2> QED BY <2>1, <2>2, CapsKept
<1>8. CASE TimePasses
  <2>1. used' = {} /\ req' = req /\ InFlight = {}
    BY <1>8 DEF TimePasses
  <2>2. Waiting' = {}
    BY <2>1 DEF Waiting, InFlight
  <2>3. \A c : UsesIn(c)' = Cardinality({})
    BY <2>1 DEF UsesIn
  <2> QED BY <2>1, <2>2, <2>3, NothingUsed
<1> QED BY <1>2, <1>3, <1>4, <1>5, <1>6, <1>7, <1>8, Steps DEF Rests

LEMMA CapsStep == Base /\ CapInv /\ [Next]_vars => CapInv'
BY CapsClose, CapsFall, CapsRest DEF Closes

LEMMA CapsInit == Init => CapInv
<1> SUFFICES ASSUME Init PROVE CapInv
  OBVIOUS
<1>1. used = {} /\ Waiting = {}
  BY DEF Init, Waiting
<1>2. \A c : UsesIn(c) = Cardinality({})
  BY <1>1 DEF UsesIn
<1>3. CapInv <=> /\ IsFiniteSet(used)
                 /\ \A c \in Convs : UsesIn(c) <= ConvCap
                 /\ \A c \in Waiting : UsesIn(c) < ConvCap
                 /\ Cardinality(used) + Cardinality(Waiting) <= GlobalCap + Cardinality(Convs) - 1
  BY DEF CapInv
<1>4. 0 \in Nat /\ ConvCap \in Nat /\ GlobalCap \in Nat \ {0} /\ Cardinality(Convs) \in Nat
      /\ IsFiniteSet({}) /\ Cardinality({}) = 0
  BY ContinuityAssumption, WaitingCounted, FS_EmptySet
<1> QED BY <1>1, <1>2, <1>3, <1>4

-----------------------------------------------------------------------------
(* What holds of every run                                                 *)

ContinuityInv == Base /\ LedgerInv /\ AgesInv /\ FreshInv /\ LogInv /\ RowsInv /\ CapInv

(* Every state the server, the prune and the command line can reach, with  *)
(* any number of requests, deletions, crashes and passing weeks, keeps to  *)
(* what the files, the queues and the log owe each other.                  *)
THEOREM AllFilesAgree == Spec => []ContinuityInv
<1>1. Init => ContinuityInv
  BY BaseInit, LedgerInit, AgesInit, FreshInit, LogInit, RowsInit, CapsInit DEF ContinuityInv
<1>2. ContinuityInv /\ [Next]_vars => ContinuityInv'
  BY BaseStep, LedgerStep, AgesStep, FreshStep, LogStep, RowsStep, CapsStep DEF ContinuityInv
<1> QED BY <1>1, <1>2, PTL DEF Spec

(* The rows of one turn are never torn apart by another turn of the same   *)
(* conversation, whatever is queued, answered late, deleted or lost.       *)
THEOREM TurnsAreWholeAlways == Spec => []TurnsAreWhole
<1>1. ContinuityInv => TurnsAreWhole
  BY BaseTyped DEF ContinuityInv, RowsInv, ConvRows, Whole, TurnsAreWhole
<1> QED BY <1>1, AllFilesAgree, PTL

(* The execution history holds the finished requests but the deleted ones, *)
(* unless a server step came between the command line's file operations.   *)
THEOREM LedgerIsExactAlways == Spec => []LedgerIsExact
<1>1. ContinuityInv => LedgerIsExact
  BY DEF ContinuityInv, LedgerInv, LedgerIsExact, DoneNow
<1> QED BY <1>1, AllFilesAgree, PTL

(* A prune never deletes a request that had finished in its era when it    *)
(* began, for as many conversations as it goes through.                    *)
THEOREM PruneSparesActiveAlways == Spec => []PruneSparesActive
<1>1. ContinuityInv => PruneSparesActive
  BY DEF ContinuityInv, FreshInv, PruneSparesActive
<1> QED BY <1>1, AllFilesAgree, PTL

(* A deletion that removed something is in the deletion log or about to be *)
(* logged, as long as no process has died.                                 *)
THEOREM DeletionsOnRecordAlways == Spec => []DeletionsOnRecord
<1>1. ContinuityInv => DeletionsOnRecord
  BY LogSaysAll DEF ContinuityInv
<1> QED BY <1>1, AllFilesAgree, PTL

(* Fallback answers stay within the hourly cap of their conversation, and  *)
(* above the global one by no more than one for each other conversation,   *)
(* whatever the caps and however many conversations ask at once.           *)
THEOREM FallbackWithinCapsAlways == Spec => []FallbackWithinCaps
<1>1. ASSUME CapInv PROVE FallbackWithinCaps
  <2>1. Cardinality(used) \in Nat /\ Cardinality(Waiting) \in Nat /\ Cardinality(Convs) \in Nat /\ GlobalCap \in Nat
    <3>1. Waiting \in SUBSET Convs
      BY DEF Waiting
    <3> QED BY <1>1, <3>1, ContinuityAssumption, WaitingCounted, FS_CardinalityType DEF CapInv
  <2>2. Cardinality(used) + Cardinality(Waiting) <= GlobalCap + Cardinality(Convs) - 1
        /\ \A c \in Convs : UsesIn(c) <= ConvCap
    BY <1>1 DEF CapInv
  <2>3. Cardinality(used) <= GlobalCap + Cardinality(Convs) - 1
    BY <2>1, <2>2
  <2> QED BY <2>2, <2>3 DEF FallbackWithinCaps
<1>2. ContinuityInv => FallbackWithinCaps
  BY <1>1 DEF ContinuityInv
<1> QED BY <1>2, AllFilesAgree, PTL
=============================================================================
