-------------------------- MODULE GuardProofs --------------------------
(***************************************************************************)
(* Theorems about HitlGateway for every set of checkpoints and payloads    *)
(* and every number of crashes, refused and torn writes: its types, the    *)
(* hash chain of the audit log and the decisions it misses, and how often a*)
(* decision can be reopened.                                               *)
(*                                                                         *)
(* After it the guards beside it, each for all values of its constants:    *)
(* the A2A boundary, the circuits of routes and of providers, the switch   *)
(* that limits what sessions and hours cost, the watchdog of a session, the*)
(* dispatch of model calls, the contracts of steps, the routing policy and *)
(* the quotas of the ingress; and last what MCGuards checks of them side by*)
(* side.                                                                   *)
(***************************************************************************)
EXTENDS MCGuards, FiniteSetTheorems, WellFoundedInduction, TLAPS

States     == Open \cup Closed
RecordType == [id : Checkpoints, state : States, whole : BOOLEAN, ended : BOOLEAN]
AuditType  == [id : Checkpoints, event : States, prev : Nat, whole : BOOLEAN, ended : BOOLEAN]
CallType   == [id : Checkpoints, event : States]

-----------------------------------------------------------------------------
(* Files                                                                   *)

(* A finite set of numbers that is not empty has a largest one.            *)
LEMMA Largest ==
    ASSUME NEW n \in Nat, NEW S \in SUBSET (1 .. n), S # {}
    PROVE  \E m \in S : \A k \in S : k <= m
<1> DEFINE T == {n - k : k \in S}
<1>1. T \subseteq Nat /\ T # {}
  <2>1. \A k \in S : k \in 1 .. n /\ n - k \in Nat
    OBVIOUS
  <2> QED BY <2>1
<1>2. PICK x \in T : \A y \in T : ~ (<<y, x>> \in OpToRel(<, Nat))
  BY <1>1, NatLessThanWellFounded, WFMin
<1>3. PICK m \in S : x = n - m
  BY <1>2
<1>4. ASSUME NEW k \in S PROVE k <= m
  <2>1. n - k \in T /\ n - k \in Nat /\ x \in Nat
    BY <1>1
  <2>2. ~ (n - k < x)
    BY <1>2, <2>1 DEF OpToRel
  <2> QED BY <1>3, <2>1, <2>2
<1> QED BY <1>4

(* The lines of file that count for checkpoint c.                          *)
Mine(file, c) == {i \in DOMAIN file : file[i].whole /\ file[i].id = c}

LEMMA LoadedLast ==
    ASSUME NEW file \in Seq(RecordType), NEW c, NEW i \in Mine(file, c),
           \A k \in Mine(file, c) : k <= i
    PROVE  Loaded(file, c) = file[i].state
<1> DEFINE j == CHOOSE j \in Mine(file, c) : \A k \in Mine(file, c) : k <= j
<1>1. j \in Mine(file, c) /\ \A k \in Mine(file, c) : k <= j
  OBVIOUS
<1>2. i \in Nat /\ j \in Nat
  BY <1>1 DEF Mine
<1>3. i = j
  BY <1>1, <1>2
<1> QED BY <1>1, <1>3 DEF Loaded, Mine

LEMMA LoadedNone ==
    ASSUME NEW file, NEW c, Mine(file, c) = {}
    PROVE  Loaded(file, c) = "none"
BY DEF Loaded, Mine

LEMMA LoadedSome ==
    ASSUME NEW file \in Seq(RecordType), NEW c, Mine(file, c) # {}
    PROVE  \E i \in Mine(file, c) : /\ \A k \in Mine(file, c) : k <= i
                                    /\ Loaded(file, c) = file[i].state
<1>1. PICK i \in Mine(file, c) : \A k \in Mine(file, c) : k <= i
  <2>1. Mine(file, c) \in SUBSET (1 .. Len(file)) /\ Len(file) \in Nat
    BY DEF Mine
  <2> QED BY <2>1, Largest
<1> QED BY <1>1, LoadedLast

(* Files with the same lines that count read the same.                     *)
LEMMA LoadedSame ==
    ASSUME NEW f \in Seq(RecordType), NEW g \in Seq(RecordType), NEW c,
           Mine(g, c) = Mine(f, c), \A i \in Mine(f, c) : g[i].state = f[i].state
    PROVE  Loaded(g, c) = Loaded(f, c)
<1>1. CASE Mine(f, c) = {}
  BY <1>1, LoadedNone
<1>2. CASE Mine(f, c) # {}
  <2>1. PICK i \in Mine(f, c) : (\A k \in Mine(f, c) : k <= i) /\ Loaded(f, c) = f[i].state
    BY <1>2, LoadedSome
  <2>2. Loaded(g, c) = g[i].state
    BY <2>1, LoadedLast
  <2> QED BY <2>1, <2>2
<1> QED BY <1>1, <1>2

(* Once a checkpoint is closed by a line, no later line is about it.       *)
ClosedLast(file) ==
    \A i, k \in DOMAIN file :
        i < k /\ file[i].whole /\ file[k].whole /\ file[i].id = file[k].id => file[i].state \in Open

LEMMA MineTyped ==
    ASSUME NEW file \in Seq(RecordType), NEW c, NEW i \in Mine(file, c)
    PROVE  /\ i \in 1 .. Len(file) /\ i \in Nat /\ file[i] \in RecordType /\ file[i].state \in States
           /\ file[i].whole /\ file[i].id = c
<1>1. i \in 1 .. Len(file) /\ file[i].whole /\ file[i].id = c
  BY DEF Mine
<1>2. file[i] \in RecordType
  BY <1>1
<1> QED BY <1>1, <1>2 DEF RecordType

LEMMA OpenLines ==
    ASSUME NEW file \in Seq(RecordType), NEW c, ClosedLast(file), Loaded(file, c) \notin Closed,
           NEW i \in Mine(file, c)
    PROVE  file[i].state \in Open
<1>1. PICK j \in Mine(file, c) : (\A k \in Mine(file, c) : k <= j) /\ Loaded(file, c) = file[j].state
  BY LoadedSome
<1>2. file[j].state \in Open
  BY <1>1, MineTyped DEF States
<1>3. CASE i = j
  BY <1>2, <1>3
<1>4. CASE i # j
  <2>1. i < j
    BY <1>1, <1>4 DEF Mine
  <2> QED BY <2>1 DEF ClosedLast, Mine
<1> QED BY <1>3, <1>4

LEMMA Disjoint == Open \cap Closed = {}
BY HitlAssumption DEF Open, Closed

LEMMA LoadedTyped ==
    ASSUME NEW file \in Seq(RecordType), NEW c
    PROVE  /\ Loaded(file, c) \in States
           /\ Loaded(file, c) # "none" => \E i \in DOMAIN file : file[i].id = c
<1>1. CASE Mine(file, c) = {}
  BY <1>1, LoadedNone DEF States, Open
<1>2. CASE Mine(file, c) # {}
  <2>1. PICK i \in Mine(file, c) : Loaded(file, c) = file[i].state
    BY <1>2, LoadedSome
  <2> QED BY <2>1, MineTyped
<1> QED BY <1>1, <1>2

-----------------------------------------------------------------------------
(* What an append does to what is read                                     *)

LEMMA AppendsTyped ==
    ASSUME NEW file \in Seq(RecordType), NEW line \in RecordType
    PROVE  /\ Append(file, line) \in Seq(RecordType)
           /\ Len(Append(file, line)) = Len(file) + 1
           /\ DOMAIN Append(file, line) = 1 .. (Len(file) + 1)
           /\ \A i \in 1 .. Len(file) : Append(file, line)[i] = file[i]
           /\ Append(file, line)[Len(file) + 1] = line
OBVIOUS

LEMMA LoadedAppend ==
    ASSUME NEW file \in Seq(RecordType), NEW line \in RecordType, NEW c
    PROVE  Loaded(Append(file, line), c) =
               IF line.whole /\ line.id = c THEN line.state ELSE Loaded(file, c)
<1> DEFINE n == Len(file) + 1
           g == Append(file, line)
<1>1. g \in Seq(RecordType) /\ DOMAIN g = 1 .. n /\ g[n] = line /\ n \in Nat
      /\ \A i \in 1 .. Len(file) : g[i] = file[i]
  BY AppendsTyped
<1> HIDE DEF g
<1>2. CASE line.whole /\ line.id = c
  <2>1. n \in Mine(g, c) /\ \A k \in Mine(g, c) : k <= n
    BY <1>1, <1>2 DEF Mine
  <2>2. Loaded(g, c) = line.state
    BY <1>1, <2>1, LoadedLast
  <2> QED BY <1>2, <2>2 DEF g
<1>3. CASE ~(line.whole /\ line.id = c)
  <2>1. Mine(g, c) = Mine(file, c)
    BY <1>1, <1>3 DEF Mine
  <2>2. \A i \in Mine(file, c) : g[i].state = file[i].state
    BY <1>1, MineTyped
  <2> QED BY <1>1, <1>3, <2>1, <2>2, LoadedSame DEF g
<1> QED BY <1>2, <1>3

LEMMA ClosedLastAppend ==
    ASSUME NEW file \in Seq(RecordType), NEW line \in RecordType, ClosedLast(file),
           Loaded(file, line.id) \notin Closed
    PROVE  ClosedLast(Append(file, line))
<1> DEFINE n == Len(file) + 1
           g == Append(file, line)
<1>1. g \in Seq(RecordType) /\ DOMAIN g = 1 .. n /\ g[n] = line /\ n \in Nat
      /\ \A i \in 1 .. Len(file) : g[i] = file[i]
  BY AppendsTyped
<1> HIDE DEF g
<1>2. ASSUME NEW i \in DOMAIN g, NEW k \in DOMAIN g, i < k, g[i].whole, g[k].whole, g[i].id = g[k].id
      PROVE  g[i].state \in Open
  <2>1. i \in 1 .. Len(file) /\ g[i] = file[i] /\ i \in DOMAIN file
    BY <1>1, <1>2
  <2>2. CASE k = n
    <3>1. i \in Mine(file, line.id)
      BY <1>1, <1>2, <2>1, <2>2 DEF Mine
    <3> QED BY <2>1, <3>1, OpenLines
  <2>3. CASE k # n
    BY <1>1, <1>2, <2>1, <2>3 DEF ClosedLast
  <2> QED BY <2>2, <2>3
<1> QED BY <1>2 DEF ClosedLast, g

(* A line that is spoilt counts no more.                                   *)
LEMMA SpoiltTyped ==
    ASSUME NEW file \in Seq(RecordType), file # <<>>, NEW e \in BOOLEAN
    PROVE  /\ Spoilt(file, e) \in Seq(RecordType)
           /\ Len(Spoilt(file, e)) = Len(file) /\ DOMAIN Spoilt(file, e) = 1 .. Len(file)
           /\ Len(file) \in 1 .. Len(file)
           /\ \A i \in 1 .. Len(file) : i # Len(file) => Spoilt(file, e)[i] = file[i]
           /\ ~Spoilt(file, e)[Len(file)].whole /\ (Spoilt(file, e)[Len(file)].ended <=> e)
<1>1. Len(file) \in 1 .. Len(file) /\ file[Len(file)] \in RecordType
  OBVIOUS
<1>2. [file[Len(file)] EXCEPT !.whole = FALSE, !.ended = e] \in RecordType
  BY <1>1 DEF RecordType
<1>3. Spoilt(file, e) = [file EXCEPT ![Len(file)] = [file[Len(file)] EXCEPT !.whole = FALSE, !.ended = e]]
  BY <1>1 DEF Spoilt
<1> QED BY <1>1, <1>2, <1>3 DEF RecordType

LEMMA LoadedSpoilt ==
    ASSUME NEW file \in Seq(RecordType), file # <<>>, NEW e \in BOOLEAN, ClosedLast(file)
    PROVE  /\ ClosedLast(Spoilt(file, e))
           /\ \A c : \/ Loaded(Spoilt(file, e), c) = Loaded(file, c)
                     \/ /\ Loaded(Spoilt(file, e), c) \in Open
                        /\ file[Len(file)].whole /\ file[Len(file)].id = c
<1> DEFINE n == Len(file)
           g == Spoilt(file, e)
<1>1. /\ g \in Seq(RecordType) /\ DOMAIN g = 1 .. n /\ n \in 1 .. n /\ n \in Nat
      /\ (\A i \in 1 .. n : i # n => g[i] = file[i]) /\ ~g[n].whole
  BY SpoiltTyped
<1> HIDE DEF g
<1>2. ClosedLast(g)
  BY <1>1 DEF ClosedLast
<1>3. ASSUME NEW c
      PROVE  \/ Loaded(g, c) = Loaded(file, c)
             \/ Loaded(g, c) \in Open /\ file[n].whole /\ file[n].id = c
  <2>1. Mine(g, c) = Mine(file, c) \ {n}
    BY <1>1 DEF Mine
  <2>2. \A i \in Mine(g, c) : g[i] = file[i]
    BY <1>1 DEF Mine
  <2>3. CASE n \notin Mine(file, c)
    <3>1. Mine(g, c) = Mine(file, c)
      BY <2>1, <2>3
    <3> QED BY <1>1, <2>2, <3>1, LoadedSame
  <2>4. CASE n \in Mine(file, c) /\ Mine(g, c) = {}
    BY <2>4, LoadedNone, MineTyped DEF Open
  <2>5. CASE n \in Mine(file, c) /\ Mine(g, c) # {}
    <3>1. PICK i \in Mine(g, c) : Loaded(g, c) = g[i].state
      BY <1>1, <2>5, LoadedSome
    <3>2. i \in 1 .. n /\ i < n /\ file[i].whole /\ file[i].id = c /\ g[i] = file[i]
      BY <1>1, <2>1, <2>2, MineTyped
    <3>3. file[n].whole /\ file[n].id = c
      BY <2>5 DEF Mine
    <3>4. file[i].state \in Open
      BY <1>1, <3>2, <3>3 DEF ClosedLast
    <3> QED BY <3>1, <3>2, <3>3, <3>4
  <2> QED BY <2>3, <2>4, <2>5
<1> QED BY <1>2, <1>3 DEF g

-----------------------------------------------------------------------------
(* How often the decision about c can still be made without a fault, if    *)
(* the process ends in between: while the file has it open once, and once  *)
(* more if the next append spoils a line; and if the line that closes it   *)
(* is the one which the next append spoils, once.                          *)
AtRisk(file, c) == Unended(file) /\ file[Len(file)].whole /\ file[Len(file)].id = c
Reopen(file, c) ==
    IF Loaded(file, c) \in Closed THEN IF AtRisk(file, c) THEN 1 ELSE 0
    ELSE IF Unended(file) THEN 2 ELSE 1

LEMMA LinesTyped ==
    ASSUME NEW c \in Checkpoints, NEW st \in States
    PROVE  /\ RecordLine(c, st) \in RecordType
           /\ RecordLine(c, st).id = c /\ RecordLine(c, st).state = st
           /\ RecordLine(c, st).whole /\ RecordLine(c, st).ended
BY DEF RecordLine, RecordType

(* A record that is appended: what it closes is not decided again.         *)
LEMMA AppendedReopens ==
    ASSUME NEW file \in Seq(RecordType), NEW c \in Checkpoints, NEW st \in States,
           ClosedLast(file), Loaded(file, c) \notin Closed,
           NEW g, g = Appended(file, RecordLine(c, st))
    PROVE  /\ g \in Seq(RecordType) /\ ClosedLast(g)
           /\ Loaded(g, c) \in Closed => Loaded(g, c) = st
           /\ \A d : d # c /\ Loaded(g, d) \in Closed => Loaded(g, d) = Loaded(file, d)
           /\ \A d : Reopen(g, d) <= Reopen(file, d)
           /\ st \in Closed => Reopen(g, c) + 1 <= Reopen(file, c)
<1> DEFINE line == RecordLine(c, st)
<1>1. line \in RecordType /\ line.id = c /\ line.state = st /\ line.whole /\ line.ended
  BY LinesTyped
<1> HIDE DEF line
<1>2. CASE ~Unended(file)
  <2>1. g = Append(file, line)
    BY <1>2 DEF Appended, line
  <2>2. g \in Seq(RecordType) /\ ClosedLast(g)
    BY <1>1, <2>1, AppendsTyped, ClosedLastAppend
  <2>3. \A d : Loaded(g, d) = IF d = c THEN st ELSE Loaded(file, d)
    BY <1>1, <2>1, LoadedAppend
  <2>4. ~Unended(g)
    BY <1>1, <2>1, AppendsTyped DEF Unended
  <2> QED BY <1>2, <2>2, <2>3, <2>4 DEF Reopen, AtRisk
<1>3. CASE Unended(file)
  <2>1. g = Spoilt(file, TRUE) /\ file # <<>>
    BY <1>3 DEF Appended, Unended
  <2>2. g \in Seq(RecordType) /\ ~Unended(g)
    <3>1. \A e \in BOOLEAN : Spoilt(file, e) \in Seq(RecordType) /\ Len(Spoilt(file, e)) = Len(file)
      BY <2>1, SpoiltTyped
    <3>2. \A e \in BOOLEAN : Spoilt(file, e)[Len(file)].ended <=> e
      BY <2>1, SpoiltTyped
    <3>3. Spoilt(file, TRUE)[Len(file)].ended
      BY <3>2
    <3> QED BY <2>1, <3>1, <3>3 DEF Unended
  <2>3. ClosedLast(g)
    BY <2>1, LoadedSpoilt
  <2>4. \A d : Loaded(g, d) = Loaded(file, d) \/ (Loaded(g, d) \notin Closed /\ AtRisk(file, d))
    BY <1>3, <2>1, LoadedSpoilt, Disjoint DEF AtRisk
  <2>5. \A d : Reopen(g, d) <= Reopen(file, d)
    BY <1>3, <2>2, <2>4 DEF Reopen, AtRisk
  <2>6. Loaded(g, c) \notin Closed
    BY <2>4
  <2>7. Reopen(g, c) + 1 <= Reopen(file, c)
    BY <1>3, <2>2, <2>6 DEF Reopen
  <2> QED BY <2>2, <2>3, <2>4, <2>5, <2>6, <2>7
<1> QED BY <1>2, <1>3

(* A record that is torn: it costs one more decision of each checkpoint.   *)
LEMMA TornReopens ==
    ASSUME NEW file \in Seq(RecordType), NEW c \in Checkpoints, NEW st \in States,
           ClosedLast(file), Loaded(file, c) \notin Closed,
           NEW g \in TornInto(file, RecordLine(c, st))
    PROVE  /\ g \in Seq(RecordType) /\ ClosedLast(g)
           /\ \A d : d # c /\ Loaded(g, d) \in Closed => Loaded(g, d) = Loaded(file, d)
           /\ \A d : Reopen(g, d) <= Reopen(file, d) + 1
           /\ Loaded(g, c) \in Closed => Loaded(g, c) = st /\ Reopen(g, c) <= Reopen(file, c)
<1> DEFINE line == RecordLine(c, st)
<1>1. line \in RecordType /\ line.id = c /\ line.state = st /\ line.whole /\ line.ended
  BY LinesTyped
<1> HIDE DEF line
<1>2. CASE ~Unended(file)
  <2>1. PICK w \in BOOLEAN : g = Append(file, [line EXCEPT !.whole = w, !.ended = FALSE])
    BY <1>2 DEF TornInto, line
  <2> DEFINE cut == [line EXCEPT !.whole = w, !.ended = FALSE]
  <2>2. /\ cut \in RecordType /\ cut.id = c /\ cut.state = st /\ cut.whole = w /\ ~cut.ended
        /\ g = Append(file, cut)
    BY <1>1, <2>1 DEF RecordType
  <2> HIDE DEF cut
  <2>3. g \in Seq(RecordType) /\ ClosedLast(g)
    BY <2>2, AppendsTyped, ClosedLastAppend
  <2>4. \A d : Loaded(g, d) = IF w /\ d = c THEN st ELSE Loaded(file, d)
    BY <2>2, LoadedAppend
  <2>5. Unended(g) /\ \A d : AtRisk(g, d) <=> w /\ d = c
    <3>1. g # <<>> /\ g[Len(g)] = cut
      BY <2>2, AppendsTyped
    <3> QED BY <2>2, <3>1 DEF Unended, AtRisk
  <2> QED BY <1>2, <2>3, <2>4, <2>5 DEF Reopen
<1>3. CASE Unended(file)
  <2>1. g = Spoilt(file, FALSE) /\ file # <<>>
    BY <1>3 DEF TornInto, Unended
  <2>2. g \in Seq(RecordType) /\ \A d : ~AtRisk(g, d)
    BY <2>1, SpoiltTyped DEF AtRisk
  <2>3. ClosedLast(g)
    BY <2>1, LoadedSpoilt
  <2>4. \A d : Loaded(g, d) = Loaded(file, d) \/ (Loaded(g, d) \notin Closed /\ AtRisk(file, d))
    BY <1>3, <2>1, LoadedSpoilt, Disjoint DEF AtRisk
  <2>5. \A d : Reopen(g, d) <= Reopen(file, d) + 1
    BY <1>3, <2>2, <2>4 DEF Reopen
  <2> QED BY <2>2, <2>3, <2>4, <2>5
<1> QED BY <1>2, <1>3

-----------------------------------------------------------------------------
(* Types                                                                   *)

TypeInv ==
    /\ records \in Seq(RecordType) /\ \A i \in DOMAIN records : records[i].id \in created
    /\ audit \in Seq(AuditType) /\ lastAuditHash \in 0 .. Len(audit)
    /\ checkpoints \in [Checkpoints -> States]
    /\ \A c \in Checkpoints \ created : checkpoints[c] = "none"
    /\ pending \in CallType \cup {NoCall}
    /\ pending # NoCall => pending.id \in created /\ pending.event = checkpoints[pending.id]
    /\ created \subseteq Checkpoints /\ acted \in [Checkpoints -> SUBSET Closed]
    /\ budget \in [Faults -> Nat] /\ \A f \in Faults : budget[f] <= Budget[f]

LEMMA TypeInvImplies == TypeInv => TypeOK
BY DEF TypeInv, TypeOK, States

(* Lines keep their ids, and only the appended one is new.                 *)
LEMMA IdsKept ==
    ASSUME NEW file \in Seq(RecordType), NEW line \in RecordType,
           NEW g, g = Appended(file, line) \/ g \in TornInto(file, line)
    PROVE  /\ g \in Seq(RecordType)
           /\ \A i \in DOMAIN g : g[i].id = line.id \/ \E k \in DOMAIN file : g[i].id = file[k].id
<1>1. CASE Unended(file)
  <2>1. PICK e \in BOOLEAN : g = Spoilt(file, e)
    BY <1>1 DEF Appended, TornInto
  <2>2. file # <<>> /\ Len(file) \in 1 .. Len(file)
    BY <1>1 DEF Unended
  <2>3. g \in Seq(RecordType) /\ DOMAIN g = 1 .. Len(file)
        /\ \A i \in 1 .. Len(file) : i # Len(file) => g[i] = file[i]
    BY <2>1, <2>2, SpoiltTyped
  <2>4. g[Len(file)].id = file[Len(file)].id
    BY <2>1, <2>2 DEF Spoilt, RecordType
  <2> QED BY <2>2, <2>3, <2>4
<1>2. CASE ~Unended(file)
  <2>1. PICK l \in RecordType : l.id = line.id /\ g = Append(file, l)
    <3>1. \A w \in BOOLEAN : /\ [line EXCEPT !.whole = w, !.ended = FALSE] \in RecordType
                             /\ [line EXCEPT !.whole = w, !.ended = FALSE].id = line.id
      BY DEF RecordType
    <3> QED BY <1>2, <3>1 DEF Appended, TornInto
  <2> QED BY <2>1, AppendsTyped
<1> QED BY <1>1, <1>2

LEMMA AuditTyped ==
    ASSUME NEW file \in Seq(AuditType), NEW line \in AuditType,
           NEW g, g = Appended(file, line) \/ g \in TornInto(file, line)
    PROVE  /\ g \in Seq(AuditType) /\ Len(file) \in Nat
           /\ g = Appended(file, line) => Landing(file) \in 0 .. Len(g)
<1>1. CASE Unended(file)
  <2>1. PICK e \in BOOLEAN : g = Spoilt(file, e)
    BY <1>1 DEF Appended, TornInto
  <2>2. file # <<>> /\ Len(file) \in 1 .. Len(file) /\ file[Len(file)] \in AuditType
    BY <1>1 DEF Unended
  <2>3. [file[Len(file)] EXCEPT !.whole = FALSE, !.ended = e] \in AuditType
    BY <2>2 DEF AuditType
  <2>4. g = [file EXCEPT ![Len(file)] = [file[Len(file)] EXCEPT !.whole = FALSE, !.ended = e]]
    BY <2>1, <2>2 DEF Spoilt
  <2>5. g \in Seq(AuditType) /\ Len(g) = Len(file)
    BY <2>2, <2>3, <2>4
  <2> QED BY <1>1, <2>2, <2>5 DEF Landing
<1>2. CASE ~Unended(file)
  <2>1. PICK l \in AuditType : g = Append(file, l)
    <3>1. \A w \in BOOLEAN : [line EXCEPT !.whole = w, !.ended = FALSE] \in AuditType
      BY DEF AuditType
    <3> QED BY <1>2, <3>1 DEF Appended, TornInto
  <2> QED BY <1>2, <2>1 DEF Landing
<1> QED BY <1>1, <1>2

LEMMA AuditGrows ==
    ASSUME NEW file \in Seq(AuditType), NEW line \in AuditType
    PROVE  Len(file) <= Len(Appended(file, line))
<1>1. CASE Unended(file)
  <2>1. Appended(file, line) = [file EXCEPT ![Len(file)] = [file[Len(file)] EXCEPT !.whole = FALSE, !.ended = TRUE]]
    BY <1>1 DEF Appended, Spoilt
  <2>2. file # <<>> /\ Len(file) \in 1 .. Len(file) /\ file[Len(file)] \in AuditType
    BY <1>1 DEF Unended
  <2>3. [file[Len(file)] EXCEPT !.whole = FALSE, !.ended = TRUE] \in AuditType
    BY <2>2 DEF AuditType
  <2> QED BY <2>1, <2>2, <2>3
<1>2. CASE ~Unended(file)
  BY <1>2 DEF Appended
<1> QED BY <1>1, <1>2

LEMMA SpendTyped ==
    ASSUME TypeInv, NEW f \in Faults, Spend(f)
    PROVE  /\ budget' \in [Faults -> Nat] /\ \A g \in Faults : budget'[g] <= Budget[g]
           /\ \A g \in Faults : Spent(g)' = Spent(g) + (IF g = f THEN 1 ELSE 0)
<1>1. /\ budget \in [Faults -> Nat] /\ Budget \in [Faults -> Nat] /\ budget[f] \in Nat /\ budget[f] > 0
      /\ budget' = [budget EXCEPT ![f] = budget[f] - 1] /\ \A g \in Faults : budget[g] <= Budget[g]
  BY HitlAssumption DEF TypeInv, Spend
<1>2. budget' \in [Faults -> Nat]
  BY <1>1
<1>3. ASSUME NEW g \in Faults
      PROVE  budget'[g] <= Budget[g] /\ Spent(g)' = Spent(g) + (IF g = f THEN 1 ELSE 0)
  <2>1. budget'[g] = budget[g] - (IF g = f THEN 1 ELSE 0) /\ budget[g] \in Nat /\ Budget[g] \in Nat
        /\ budget[g] <= Budget[g]
    BY <1>1
  <2> QED BY <2>1 DEF Spent
<1> QED BY <1>2, <1>3

LEMMA SpentTyped ==
    TypeInv => Spent("tear") \in Nat /\ Spent("refuse") \in Nat /\ Spent("crash") \in Nat
<1> SUFFICES ASSUME TypeInv PROVE \A f \in Faults : Budget[f] - budget[f] \in Nat
  BY DEF Spent, Faults
<1>1. ASSUME NEW f \in Faults PROVE Budget[f] - budget[f] \in Nat
  <2>1. Budget[f] \in Nat /\ budget[f] \in Nat /\ budget[f] <= Budget[f]
    BY HitlAssumption DEF TypeInv
  <2> QED BY <2>1
<1> QED BY <1>1

LEMMA Spends ==
    ASSUME TypeInv
    PROVE  /\ Spend("tear") => Spent("tear")' = Spent("tear") + 1 /\ Spent("refuse")' = Spent("refuse")
           /\ Spend("refuse") => Spent("refuse")' = Spent("refuse") + 1 /\ Spent("tear")' = Spent("tear")
           /\ Spend("crash") => Spent("refuse")' = Spent("refuse") /\ Spent("tear")' = Spent("tear")
           /\ UNCHANGED budget => Spent("refuse")' = Spent("refuse") /\ Spent("tear")' = Spent("tear")
<1>1. \A f \in Faults : Budget[f] \in Nat /\ budget[f] \in Nat
  BY HitlAssumption DEF TypeInv
<1>2. ASSUME NEW f \in Faults, Spend(f), NEW g \in Faults
      PROVE  Budget[g] - budget'[g] = (Budget[g] - budget[g]) + (IF g = f THEN 1 ELSE 0)
  <2>1. budget'[g] = budget[g] - (IF g = f THEN 1 ELSE 0)
    BY <1>1, <1>2 DEF Spend, TypeInv
  <2> QED BY <1>1, <2>1
<1>3. "tear" \in Faults /\ "refuse" \in Faults /\ "crash" \in Faults
  BY DEF Faults
<1>4. ASSUME Spend("tear") PROVE Spent("tear")' = Spent("tear") + 1 /\ Spent("refuse")' = Spent("refuse")
  BY <1>1, <1>2, <1>3, <1>4 DEF Spent
<1>5. ASSUME Spend("refuse") PROVE Spent("refuse")' = Spent("refuse") + 1 /\ Spent("tear")' = Spent("tear")
  BY <1>1, <1>2, <1>3, <1>5 DEF Spent
<1>6. ASSUME Spend("crash") PROVE Spent("refuse")' = Spent("refuse") /\ Spent("tear")' = Spent("tear")
  BY <1>1, <1>2, <1>3, <1>6 DEF Spent
<1>7. ASSUME UNCHANGED budget PROVE Spent("refuse")' = Spent("refuse") /\ Spent("tear")' = Spent("tear")
  BY <1>7 DEF Spent
<1> QED BY <1>4, <1>5, <1>6, <1>7

LEMMA HashTyped ==
    ASSUME NEW file \in Seq(AuditType)
    PROVE  Len(file) \in Nat /\ LoadedHash(file) \in 0 .. Len(file)
<1>1. Len(file) \in Nat
  OBVIOUS
<1> QED BY <1>1 DEF LoadedHash

LEMMA RestartTyped ==
    ASSUME NEW rs \in Seq(RecordType), NEW al \in Seq(AuditType), RestartWith(rs, al),
           \A i \in DOMAIN rs : rs[i].id \in created', created' \subseteq Checkpoints,
           acted' \in [Checkpoints -> SUBSET Closed],
           budget' \in [Faults -> Nat], \A f \in Faults : budget'[f] <= Budget[f]
    PROVE  TypeInv'
<1>1. checkpoints' \in [Checkpoints -> States]
  BY LoadedTyped DEF RestartWith
<1>2. \A c \in Checkpoints \ created' : checkpoints'[c] = "none"
  BY LoadedTyped DEF RestartWith
<1>3. lastAuditHash' \in 0 .. Len(audit')
  <2>3. LoadedHash(al) \in 0 .. Len(al)
    BY HashTyped
  <2>4. audit' = al /\ lastAuditHash' = LoadedHash(al)
    BY DEF RestartWith
  <2> QED BY <2>3, <2>4
<1> QED BY <1>1, <1>2, <1>3 DEF TypeInv, RestartWith

(* What CreateCheckpoint and ResolveCheckpoint do: an open checkpoint is   *)
(* saved under another state.                                              *)
Saves(c, st) ==
    /\ checkpoints[c] \in Open /\ SaveCheckpoint(c, st)
    /\ created' = created \cup {c} /\ UNCHANGED acted
Lands(c, st) ==
    /\ checkpoints' = [checkpoints EXCEPT ![c] = st]
    /\ records' = Appended(records, RecordLine(c, st)) /\ pending' = Event(c, st)
    /\ UNCHANGED <<lastAuditHash, audit, budget>>
Refused(c, st) ==
    /\ checkpoints' = [checkpoints EXCEPT ![c] = st] /\ Spend("refuse")
    /\ records' \in {records, Appended(records, RecordLine(c, st))}
    /\ UNCHANGED <<lastAuditHash, audit, pending>>
Tears(c, st) ==
    /\ Spend("tear")
    /\ \E torn \in TornInto(records, RecordLine(c, st)) : RestartWith(torn, audit)

LEMMA SaveOutcomes ==
    ASSUME NEW c, NEW st, SaveCheckpoint(c, st)
    PROVE  pending = NoCall /\ (Lands(c, st) \/ Refused(c, st) \/ Tears(c, st))
BY DEF SaveCheckpoint, Lands, Refused, Tears, Refusals

LEMMA CreateSaves ==
    ASSUME TypeInv, NEW c \in Checkpoints, CreateCheckpoint(c)
    PROVE  \E st \in States : Saves(c, st)
<1>1. checkpoints[c] = "none" /\ "none" \in Open /\ "PENDING_APPROVAL" \in States
  BY DEF CreateCheckpoint, TypeInv, Open, States
<1>2. Saves(c, "PENDING_APPROVAL")
  BY <1>1 DEF CreateCheckpoint, Saves
<1> QED BY <1>1, <1>2

LEMMA ResolveSaves ==
    ASSUME TypeInv, NEW c \in Checkpoints, NEW verdict \in Payloads \cup {"REJECTED"},
           ResolveCheckpoint(c, verdict)
    PROVE  \E st \in States : Saves(c, st)
<1>1. checkpoints[c] = "PENDING_APPROVAL" /\ "PENDING_APPROVAL" \in Open
  BY DEF ResolveCheckpoint, Resolvable, Open
<1>2. c \in created
  BY <1>1 DEF TypeInv
<1>3. verdict \in States /\ "EXPIRED" \in States
  BY DEF States, Closed
<1>4. Saves(c, IF c \in expired THEN "EXPIRED" ELSE verdict)
  BY <1>1, <1>2 DEF ResolveCheckpoint, Saves
<1> QED BY <1>3, <1>4

LEMMA SavesTyped ==
    ASSUME TypeInv, NEW c \in Checkpoints, NEW st \in States, Saves(c, st)
    PROVE  TypeInv'
<1> DEFINE line == RecordLine(c, st)
<1>0. line \in RecordType /\ line.id = c
  BY LinesTyped
<1> HIDE DEF line
<1>1. /\ records \in Seq(RecordType) /\ audit \in Seq(AuditType) /\ created' \subseteq Checkpoints
      /\ created \subseteq created' /\ c \in created' /\ acted' \in [Checkpoints -> SUBSET Closed]
      /\ \A i \in DOMAIN records : records[i].id \in created
  BY DEF TypeInv, Saves
<1>2. CASE Lands(c, st)
  <2>1. records' \in Seq(RecordType) /\ \A i \in DOMAIN records' : records'[i].id \in created'
    <3>1. records' = Appended(records, line)
      BY <1>2 DEF Lands, line
    <3> QED BY <1>0, <1>1, <3>1, IdsKept
  <2>2. pending' \in CallType /\ pending'.id = c /\ pending'.event = st
    BY <1>2 DEF Lands, Event, CallType
  <2>3. checkpoints' \in [Checkpoints -> States] /\ checkpoints'[c] = st
        /\ \A d \in Checkpoints \ created' : checkpoints'[d] = "none"
    BY <1>1, <1>2 DEF Lands, TypeInv
  <2> QED BY <1>1, <1>2, <2>1, <2>2, <2>3 DEF Lands, TypeInv
<1>3. CASE Refused(c, st)
  <2>1. pending = NoCall
    BY SaveOutcomes DEF Saves
  <2>2. checkpoints' \in [Checkpoints -> States] /\ \A d \in Checkpoints \ created' : checkpoints'[d] = "none"
    BY <1>1, <1>3 DEF Refused, TypeInv
  <2>3. budget' \in [Faults -> Nat] /\ \A f \in Faults : budget'[f] <= Budget[f]
    BY <1>3, SpendTyped DEF Refused, Faults
  <2>4. records' \in Seq(RecordType) /\ \A i \in DOMAIN records' : records'[i].id \in created'
    <3>1. CASE records' = records
      BY <1>1, <3>1
    <3>2. CASE records' = Appended(records, line)
      BY <1>0, <1>1, <3>2, IdsKept
    <3> QED BY <1>3, <3>1, <3>2 DEF Refused, line
  <2> QED BY <1>1, <1>3, <2>1, <2>2, <2>3, <2>4 DEF Refused, TypeInv
<1>4. CASE Tears(c, st)
  <2>1. PICK torn \in TornInto(records, line) : RestartWith(torn, audit)
    BY <1>4 DEF Tears, line
  <2>2. torn \in Seq(RecordType) /\ \A i \in DOMAIN torn : torn[i].id \in created'
    BY <1>0, <1>1, IdsKept
  <2>3. budget' \in [Faults -> Nat] /\ \A f \in Faults : budget'[f] <= Budget[f]
    BY <1>4, SpendTyped DEF Tears, Faults
  <2> QED BY <1>1, <2>1, <2>2, <2>3, RestartTyped
<1> QED BY <1>2, <1>3, <1>4, SaveOutcomes DEF Saves

LEMMA RecordTyped == TypeInv /\ RecordAuditEntry => TypeInv'
<1> SUFFICES ASSUME TypeInv, RecordAuditEntry PROVE TypeInv'
  OBVIOUS
<1> DEFINE line == AuditLine(pending)
<1>0. /\ pending \in CallType /\ pending.id \in Checkpoints /\ pending.event = checkpoints[pending.id]
      /\ line \in AuditType
  BY DEF TypeInv, RecordAuditEntry, AuditLine, AuditType, CallType
<1>1. records \in Seq(RecordType) /\ audit \in Seq(AuditType) /\ created' = created
  BY DEF TypeInv, RecordAuditEntry
<1>2. CASE /\ audit' = Appended(audit, line) /\ lastAuditHash' = Landing(audit) /\ pending' = NoCall
           /\ acted' = IF pending.event = "REJECTED"
                       THEN [acted EXCEPT ![pending.id] = @ \cup {"REJECTED"}] ELSE acted
           /\ UNCHANGED <<checkpoints, records, budget>>
  <2> HIDE DEF line
  <2>1. audit' \in Seq(AuditType) /\ lastAuditHash' \in 0 .. Len(audit')
    BY <1>0, <1>1, <1>2, AuditTyped
  <2>2. acted' \in [Checkpoints -> SUBSET Closed]
    BY <1>0, <1>2 DEF TypeInv, Closed
  <2> QED BY <1>1, <1>2, <2>1, <2>2 DEF TypeInv
<1>3. CASE /\ Spend("refuse") /\ pending' = NoCall /\ audit' \in {audit, Appended(audit, line)}
           /\ UNCHANGED <<checkpoints, lastAuditHash, records, acted>>
  <2>1. budget' \in [Faults -> Nat] /\ \A f \in Faults : budget'[f] <= Budget[f]
    BY <1>3, SpendTyped DEF Faults
  <2>2. audit' \in Seq(AuditType) /\ lastAuditHash' \in 0 .. Len(audit')
    <3>1. CASE audit' = audit
      BY <1>1, <1>3, <3>1 DEF TypeInv
    <3>2. CASE audit' = Appended(audit, line)
      <4> HIDE DEF line
      <4>1. audit' \in Seq(AuditType) /\ Len(audit) <= Len(audit') /\ Len(audit) \in Nat
        BY <1>0, <1>1, <3>2, AuditTyped, AuditGrows
      <4> QED BY <1>3, <4>1 DEF TypeInv
    <3> QED BY <1>3, <3>1, <3>2
  <2> QED BY <1>1, <1>3, <2>1, <2>2 DEF TypeInv
<1>4. CASE /\ Spend("tear") /\ UNCHANGED acted
           /\ \E torn \in TornInto(audit, line) : RestartWith(records, torn)
  <2> HIDE DEF line
  <2>1. PICK torn \in TornInto(audit, line) : RestartWith(records, torn)
    BY <1>4
  <2>2. torn \in Seq(AuditType)
    BY <1>0, <1>1, AuditTyped
  <2>3. budget' \in [Faults -> Nat] /\ \A f \in Faults : budget'[f] <= Budget[f]
    BY <1>4, SpendTyped DEF Faults
  <2>4. (\A i \in DOMAIN records : records[i].id \in created') /\ created' \subseteq Checkpoints
        /\ acted' \in [Checkpoints -> SUBSET Closed]
    BY <1>1, <1>4 DEF TypeInv
  <2> QED BY <1>1, <2>1, <2>2, <2>3, <2>4, RestartTyped
<1> QED BY <1>2, <1>3, <1>4 DEF RecordAuditEntry, Refusals

LEMMA CrashTyped == TypeInv /\ Crash => TypeInv'
<1> SUFFICES ASSUME TypeInv, Crash PROVE TypeInv'
  OBVIOUS
<1>1. budget' \in [Faults -> Nat] /\ \A f \in Faults : budget'[f] <= Budget[f]
  BY SpendTyped DEF Crash, Faults
<1>2. /\ records \in Seq(RecordType) /\ audit \in Seq(AuditType) /\ created' \subseteq Checkpoints
      /\ (\A i \in DOMAIN records : records[i].id \in created') /\ acted' \in [Checkpoints -> SUBSET Closed]
  BY DEF TypeInv, Crash
<1> QED BY <1>1, <1>2, RestartTyped DEF Crash

LEMMA OthersTyped ==
    ASSUME TypeInv, NEW c \in Checkpoints, VerifyResumeToken(c) \/ TimePasses(c)
    PROVE  TypeInv'
<1>1. CASE VerifyResumeToken(c)
  BY <1>1 DEF TypeInv, VerifyResumeToken, memory, files, Closed
<1>2. CASE TimePasses(c)
  BY <1>2 DEF TypeInv, TimePasses, memory, files
<1> QED BY <1>1, <1>2

LEMMA TypeStep == TypeInv /\ [Next]_vars => TypeInv'
<1> SUFFICES ASSUME TypeInv, [Next]_vars PROVE TypeInv'
  OBVIOUS
<1>1. CASE UNCHANGED vars
  BY <1>1 DEF TypeInv, vars, memory, files
<1>2. ASSUME NEW c \in Checkpoints, CreateCheckpoint(c) PROVE TypeInv'
  BY <1>2, CreateSaves, SavesTyped
<1>3. ASSUME NEW c \in Checkpoints, NEW verdict \in Payloads \cup {"REJECTED"}, ResolveCheckpoint(c, verdict)
      PROVE  TypeInv'
  BY <1>3, ResolveSaves, SavesTyped
<1> QED BY <1>1, <1>2, <1>3, RecordTyped, CrashTyped, OthersTyped DEF Next

LEMMA TypeInit == Init => TypeInv
BY HitlAssumption DEF Init, TypeInv, States, Open

(* Every map, file and history of the gateway keeps its type, the call     *)
(* under way is about what it put into the map, and what is not created is *)
(* not there, whatever is refused or torn.                                 *)
THEOREM TypeCorrect == Spec => []TypeOK
BY TypeInit, TypeStep, TypeInvImplies, PTL DEF Spec

-----------------------------------------------------------------------------
(* The chain of the audit log                                              *)

LEMMA SetGrows ==
    ASSUME NEW S, IsFiniteSet(S), NEW x, NEW T, T \subseteq S \cup {x}
    PROVE  /\ IsFiniteSet(T) /\ Cardinality(T) \in Nat /\ Cardinality(S) \in Nat
           /\ Cardinality(T) <= Cardinality(S) + 1
           /\ T \subseteq S => Cardinality(T) <= Cardinality(S)
<1>1. /\ IsFiniteSet(S \cup {x}) /\ Cardinality(S) \in Nat
      /\ Cardinality(S \cup {x}) = IF x \in S THEN Cardinality(S) ELSE Cardinality(S) + 1
  BY FS_AddElement, FS_CardinalityType
<1>2. IsFiniteSet(T) /\ Cardinality(T) <= Cardinality(S \cup {x})
  BY <1>1, FS_Subset
<1>3. T \subseteq S => Cardinality(T) <= Cardinality(S)
  BY FS_Subset
<1>4. Cardinality(T) \in Nat
  BY <1>2, FS_CardinalityType
<1> QED BY <1>1, <1>2, <1>3, <1>4

ChainInv ==
    Spent("tear") = 0 =>
        /\ \A i \in DOMAIN audit : audit[i].whole /\ audit[i].ended /\ audit[i].prev < i
        /\ IsFiniteSet(Breaks)
        /\ Cardinality(Breaks) + (IF lastAuditHash = Len(audit) THEN 0 ELSE 1) <= Spent("refuse")

(* An entry that is written breaks the chain if the one before it was not  *)
(* noted as the last.                                                      *)
LEMMA EntryChains ==
    ASSUME TypeInv, ChainInv, Spent("tear") = 0, NEW line \in AuditType,
           line.whole, line.ended, line.prev = lastAuditHash, audit' = Appended(audit, line)
    PROVE  /\ \A i \in DOMAIN audit' : audit'[i].whole /\ audit'[i].ended /\ audit'[i].prev < i
           /\ Len(audit') = Len(audit) + 1 /\ Landing(audit) = Len(audit')
           /\ IsFiniteSet(Breaks') /\ Cardinality(Breaks') \in Nat /\ Cardinality(Breaks) \in Nat
           /\ Cardinality(Breaks') <= Cardinality(Breaks) + (IF lastAuditHash = Len(audit) THEN 0 ELSE 1)
<1>0. audit \in Seq(AuditType) /\ Len(audit) \in Nat /\ lastAuditHash \in 0 .. Len(audit)
  BY DEF TypeInv
<1>1. ~Unended(audit)
  BY <1>0 DEF ChainInv, Unended
<1>2. audit' = Append(audit, line) /\ Landing(audit) = Len(audit) + 1
  BY <1>1 DEF Appended, Landing
<1>3. /\ Len(audit') = Len(audit) + 1 /\ DOMAIN audit' = 1 .. Len(audit) + 1
      /\ \A i \in DOMAIN audit : audit'[i] = audit[i]
      /\ audit'[Len(audit) + 1] = line
  BY <1>0, <1>2
<1>4. \A i \in DOMAIN audit : audit[i].whole /\ audit[i].ended /\ audit[i].prev < i
  BY DEF ChainInv
<1>5. \A i \in DOMAIN audit' : i \in DOMAIN audit \/ i = Len(audit) + 1
  BY <1>0, <1>3
<1>6. \A i \in DOMAIN audit' : audit'[i].whole /\ audit'[i].ended /\ audit'[i].prev < i
  BY <1>0, <1>3, <1>4, <1>5
<1>7. Breaks' \subseteq Breaks \cup {Len(audit) + 1}
  BY <1>3, <1>5 DEF Breaks
<1>8. lastAuditHash = Len(audit) => Breaks' \subseteq Breaks
  <2>1. lastAuditHash = Len(audit) => line.prev = (Len(audit) + 1) - 1
    BY <1>0
  <2> QED BY <2>1, <1>3, <1>5 DEF Breaks
<1>9. /\ IsFiniteSet(Breaks') /\ Cardinality(Breaks') \in Nat /\ Cardinality(Breaks) \in Nat
      /\ Cardinality(Breaks') <= Cardinality(Breaks) + 1
      /\ Breaks' \subseteq Breaks => Cardinality(Breaks') <= Cardinality(Breaks)
  <2>1. IsFiniteSet(Breaks)
    BY DEF ChainInv
  <2> QED BY <1>7, <2>1, SetGrows
<1> QED BY <1>2, <1>3, <1>6, <1>8, <1>9

LEMMA ChainStep == TypeInv /\ ChainInv /\ [Next]_vars => ChainInv'
<1> SUFFICES ASSUME TypeInv, ChainInv, [Next]_vars PROVE ChainInv'
  OBVIOUS
<1>0. /\ Spent("tear") \in Nat /\ Spent("refuse") \in Nat /\ audit \in Seq(AuditType)
      /\ Len(audit) \in Nat /\ lastAuditHash \in 0 .. Len(audit)
  BY SpentTyped DEF TypeInv
<1>1. ASSUME Spend("tear") PROVE ChainInv'
  BY <1>0, <1>1, Spends DEF ChainInv
<1>2. ASSUME Spend("refuse") \/ UNCHANGED budget, UNCHANGED <<audit, lastAuditHash>> PROVE ChainInv'
  <2>1. Spent("tear")' = Spent("tear") /\ Spent("refuse")' \in {Spent("refuse"), Spent("refuse") + 1}
    BY <1>2, Spends
  <2> SUFFICES ASSUME Spent("tear") = 0 PROVE ChainInv'
    BY <2>1 DEF ChainInv
  <2>2. Breaks' = Breaks
    BY <1>2 DEF Breaks
  <2>3. /\ \A i \in DOMAIN audit : audit[i].whole /\ audit[i].ended /\ audit[i].prev < i
        /\ IsFiniteSet(Breaks) /\ Cardinality(Breaks) \in Nat
        /\ Cardinality(Breaks) + (IF lastAuditHash = Len(audit) THEN 0 ELSE 1) <= Spent("refuse")
    BY FS_CardinalityType DEF ChainInv
  <2>4. Cardinality(Breaks) + (IF lastAuditHash = Len(audit) THEN 0 ELSE 1) <= Spent("refuse")'
    BY <1>0, <2>1, <2>3
  <2> QED BY <1>2, <2>2, <2>3, <2>4 DEF ChainInv
<1>3. ASSUME NEW c \in Checkpoints, NEW st, SaveCheckpoint(c, st) PROVE ChainInv'
  BY <1>1, <1>2, <1>3, SaveOutcomes DEF Lands, Refused, Tears
<1>4. CASE RecordAuditEntry
  <2>0. PICK line \in AuditType : /\ line = AuditLine(pending) /\ line.whole /\ line.ended
                                  /\ line.prev = lastAuditHash
    <3>1. AuditLine(pending) \in AuditType
      BY <1>4 DEF TypeInv, RecordAuditEntry, AuditLine, AuditType, CallType
    <3> QED BY <3>1 DEF AuditLine
  <2>1. CASE audit' = Appended(audit, line) /\ lastAuditHash' = Landing(audit) /\ UNCHANGED budget
    <3>1. UNCHANGED <<Spent("tear"), Spent("refuse")>>
      BY <2>1, Spends
    <3> SUFFICES ASSUME Spent("tear") = 0 PROVE ChainInv'
      BY <3>1 DEF ChainInv
    <3>2. /\ \A i \in DOMAIN audit' : audit'[i].whole /\ audit'[i].ended /\ audit'[i].prev < i
          /\ lastAuditHash' = Len(audit')
          /\ IsFiniteSet(Breaks') /\ Cardinality(Breaks') \in Nat /\ Cardinality(Breaks) \in Nat
          /\ Cardinality(Breaks') <= Cardinality(Breaks) + (IF lastAuditHash = Len(audit) THEN 0 ELSE 1)
      BY <2>0, <2>1, EntryChains
    <3>3. Cardinality(Breaks) + (IF lastAuditHash = Len(audit) THEN 0 ELSE 1) <= Spent("refuse")
      BY DEF ChainInv
    <3>4. Cardinality(Breaks') + (IF lastAuditHash' = Len(audit') THEN 0 ELSE 1) <= Spent("refuse")'
      BY <1>0, <3>1, <3>2, <3>3
    <3> QED BY <3>2, <3>4 DEF ChainInv
  <2>2. CASE Spend("refuse") /\ UNCHANGED <<audit, lastAuditHash>>
    BY <1>2, <2>2
  <2>4. CASE Spend("refuse") /\ audit' = Appended(audit, line) /\ UNCHANGED lastAuditHash
    <3>1. Spent("tear")' = Spent("tear") /\ Spent("refuse")' = Spent("refuse") + 1
      BY <2>4, Spends
    <3> SUFFICES ASSUME Spent("tear") = 0 PROVE ChainInv'
      BY <3>1 DEF ChainInv
    <3>2. /\ \A i \in DOMAIN audit' : audit'[i].whole /\ audit'[i].ended /\ audit'[i].prev < i
          /\ Len(audit') = Len(audit) + 1
          /\ IsFiniteSet(Breaks') /\ Cardinality(Breaks') \in Nat /\ Cardinality(Breaks) \in Nat
          /\ Cardinality(Breaks') <= Cardinality(Breaks) + (IF lastAuditHash = Len(audit) THEN 0 ELSE 1)
      BY <2>0, <2>4, EntryChains
    <3>3. Cardinality(Breaks) + (IF lastAuditHash = Len(audit) THEN 0 ELSE 1) <= Spent("refuse")
      BY DEF ChainInv
    <3>4. Cardinality(Breaks') + (IF lastAuditHash' = Len(audit') THEN 0 ELSE 1) <= Spent("refuse")'
      BY <1>0, <3>1, <3>2, <3>3
    <3> QED BY <3>2, <3>4 DEF ChainInv
  <2>3. CASE Spend("tear")
    BY <1>1, <2>3
  <2> QED BY <1>4, <2>0, <2>1, <2>2, <2>3, <2>4 DEF RecordAuditEntry, Refusals
<1>5. CASE Crash
  <2>1. /\ audit' = audit /\ lastAuditHash' = LoadedHash(audit)
        /\ Spent("tear")' = Spent("tear") /\ Spent("refuse")' = Spent("refuse")
    BY <1>5, Spends DEF Crash, RestartWith
  <2> SUFFICES ASSUME Spent("tear") = 0 PROVE ChainInv'
    BY <2>1 DEF ChainInv
  <2>2. /\ \A i \in DOMAIN audit : audit[i].whole /\ audit[i].ended /\ audit[i].prev < i
        /\ IsFiniteSet(Breaks) /\ Cardinality(Breaks) \in Nat
        /\ Cardinality(Breaks) + (IF lastAuditHash = Len(audit) THEN 0 ELSE 1) <= Spent("refuse")
    BY FS_CardinalityType DEF ChainInv
  <2>3. LoadedHash(audit) = Len(audit)
    BY <1>0, <2>2 DEF LoadedHash
  <2>4. Breaks' = Breaks
    BY <2>1 DEF Breaks
  <2>5. Cardinality(Breaks) <= Spent("refuse")
    BY <1>0, <2>2
  <2> QED BY <2>1, <2>2, <2>3, <2>4, <2>5 DEF ChainInv
<1>6. ASSUME NEW c \in Checkpoints, VerifyResumeToken(c) \/ TimePasses(c) PROVE ChainInv'
  BY <1>2, <1>6 DEF VerifyResumeToken, TimePasses, files, memory
<1>7. CASE UNCHANGED vars
  BY <1>2, <1>7 DEF vars, files, memory
<1> QED BY <1>3, <1>4, <1>5, <1>6, <1>7 DEF Next, CreateCheckpoint, ResolveCheckpoint

(* Whatever crashes and refused writes happen, as long as no append was    *)
(* torn the audit log is one chain from its first entry to the one the     *)
(* next is chained to, but for one break or loose end for each write that  *)
(* was refused after its line was written.                                 *)
THEOREM ChainHoldsAlways == Spec => []ChainHolds
<1>1. Init => ChainInv
  <2> SUFFICES ASSUME Init PROVE ChainInv
    OBVIOUS
  <2>1. audit = <<>> /\ Breaks = {} /\ lastAuditHash = 0
    BY DEF Init, Breaks
  <2>2. Spent("refuse") \in Nat /\ IsFiniteSet({}) /\ Cardinality({}) = 0
    BY TypeInit, SpentTyped, FS_EmptySet
  <2> QED BY <2>1, <2>2 DEF ChainInv
<1>2. ChainInv => ChainHolds
  BY DEF ChainInv, ChainHolds
<1> QED BY <1>1, <1>2, TypeInit, TypeStep, ChainStep, PTL DEF Spec

-----------------------------------------------------------------------------
(* How often a decision is made                                            *)

(* The verdict in the map counts before anybody acts on it.                *)
Decided(c) == acted[c] \cup ({checkpoints[c]} \cap Closed)
WriteFaults == Spent("refuse") + Spent("tear")

(* The file never has a checkpoint closed that the map has open or closed  *)
(* otherwise; what was decided, and what may still be decided when the     *)
(* process ends, is paid for by refused and torn writes.                   *)
Agree    == \A c \in Checkpoints : Loaded(records, c) \in Closed => checkpoints[c] = Loaded(records, c)
Bound(c) == IsFiniteSet(Decided(c)) /\ Cardinality(Decided(c)) + Reopen(records, c) <= 1 + WriteFaults
DecisionInv == ClosedLast(records) /\ Agree /\ \A c \in Checkpoints : Bound(c)

LEMMA ReopenTyped == ASSUME NEW file, NEW c PROVE Reopen(file, c) \in 0 .. 2
BY DEF Reopen

LEMMA FaultsTyped == TypeInv => WriteFaults \in Nat
BY SpentTyped DEF WriteFaults

(* A step is paid for if what it adds to a decision it takes from what may *)
(* be decided, or from the faults it spends.                               *)
LEMMA Pays ==
    ASSUME TypeInv, NEW c, Bound(c), NEW x, NEW grow \in 0 .. 1,
           Decided(c)' \subseteq Decided(c) \cup {x},
           grow = 0 => Decided(c)' \subseteq Decided(c),
           WriteFaults' \in Nat,
           grow + Reopen(records, c)' + WriteFaults <= Reopen(records, c) + WriteFaults'
    PROVE  Bound(c)'
<1> DEFINE old == Decided(c)
           new == Decided(c)'
<1>1. IsFiniteSet(old) /\ Cardinality(old) + Reopen(records, c) <= 1 + WriteFaults
  BY DEF Bound
<1>2. new \subseteq old \cup {x} /\ (grow = 0 => new \subseteq old)
  OBVIOUS
<1>3. /\ IsFiniteSet(new) /\ Cardinality(new) \in Nat /\ Cardinality(old) \in Nat
      /\ Cardinality(new) <= Cardinality(old) + grow
  <2> HIDE DEF old, new
  <2>1. /\ IsFiniteSet(new) /\ Cardinality(new) \in Nat /\ Cardinality(old) \in Nat
        /\ Cardinality(new) <= Cardinality(old) + 1
        /\ new \subseteq old => Cardinality(new) <= Cardinality(old)
    BY <1>1, <1>2, SetGrows
  <2>2. CASE grow = 0
    BY <1>2, <2>1, <2>2
  <2>3. CASE grow = 1
    BY <2>1, <2>3
  <2> QED BY <2>1, <2>2, <2>3
<1>4. Reopen(records, c) \in Nat /\ Reopen(records, c)' \in Nat
  BY ReopenTyped
<1>5. Cardinality(new) + Reopen(records, c)' <= 1 + WriteFaults'
  <2> HIDE DEF old, new
  <2> QED BY <1>1, <1>3, <1>4, FaultsTyped
<1> QED BY <1>3, <1>5 DEF Bound

LEMMA FaultsMove ==
    ASSUME TypeInv
    PROVE  /\ WriteFaults \in Nat
           /\ Spend("tear") \/ Spend("refuse") => WriteFaults' = WriteFaults + 1
           /\ Spend("crash") \/ UNCHANGED budget => WriteFaults' = WriteFaults
BY SpentTyped, Spends DEF WriteFaults

(* A step that leaves the file and decides nothing is paid for by itself.  *)
LEMMA Kept ==
    ASSUME TypeInv, NEW c, Bound(c), Decided(c)' \subseteq Decided(c), records' = records,
           WriteFaults' \in Nat, WriteFaults <= WriteFaults'
    PROVE  Bound(c)'
<1>1. Reopen(records, c)' = Reopen(records, c) /\ Reopen(records, c) \in Nat
  BY ReopenTyped
<1>2. 0 \in 0 .. 1 /\ 0 + Reopen(records, c)' + WriteFaults <= Reopen(records, c) + WriteFaults'
  BY <1>1, FaultsTyped
<1> QED BY <1>2, Pays

LEMMA LandsDecides ==
    ASSUME TypeInv, DecisionInv, NEW c \in Checkpoints, NEW st \in States, Saves(c, st),
           Loaded(records, c) \notin Closed,
           checkpoints' = [checkpoints EXCEPT ![c] = st], records' = Appended(records, RecordLine(c, st)),
           WriteFaults \in Nat, WriteFaults' \in Nat, WriteFaults <= WriteFaults'
    PROVE  DecisionInv'
<1>0. /\ records \in Seq(RecordType) /\ ClosedLast(records) /\ Agree
      /\ checkpoints \in [Checkpoints -> States] /\ acted' = acted
      /\ checkpoints' = [checkpoints EXCEPT ![c] = st]
      /\ records' = Appended(records, RecordLine(c, st))
  BY DEF TypeInv, DecisionInv, Saves
<1>1. /\ ClosedLast(records')
      /\ Loaded(records', c) \in Closed => Loaded(records', c) = st
      /\ \A d : d # c /\ Loaded(records', d) \in Closed => Loaded(records', d) = Loaded(records, d)
      /\ \A d : Reopen(records', d) <= Reopen(records, d)
      /\ st \in Closed => Reopen(records', c) + 1 <= Reopen(records, c)
  BY <1>0, AppendedReopens
<1>2. Agree'
  BY <1>0, <1>1 DEF Agree
<1>3. WriteFaults \in Nat /\ WriteFaults' \in Nat /\ WriteFaults <= WriteFaults'
  OBVIOUS
<1>4. ASSUME NEW d \in Checkpoints PROVE Bound(d)'
  <2>1. Bound(d) /\ Reopen(records, d) \in Nat /\ Reopen(records, d)' \in Nat
        /\ Reopen(records, d)' <= Reopen(records, d)
    BY <1>1, ReopenTyped DEF DecisionInv
  <2>2. CASE d = c /\ st \in Closed
    <3>1. Decided(d)' \subseteq Decided(d) \cup {st}
      BY <1>0, <2>2 DEF Decided
    <3>2. 1 \in 0 .. 1 /\ 1 + Reopen(records, d)' + WriteFaults <= Reopen(records, d) + WriteFaults'
      BY <1>1, <1>3, <2>1, <2>2
    <3>3. 1 = 0 => Decided(d)' \subseteq Decided(d)
      OBVIOUS
    <3> QED BY <1>3, <2>1, <3>1, <3>2, <3>3, Pays
  <2>3. CASE ~(d = c /\ st \in Closed)
    <3>1. Decided(d)' \subseteq Decided(d)
      BY <1>0, <2>3 DEF Decided
    <3>2. 0 \in 0 .. 1 /\ 0 + Reopen(records, d)' + WriteFaults <= Reopen(records, d) + WriteFaults'
      BY <1>3, <2>1
    <3> QED BY <1>3, <2>1, <3>1, <3>2, Pays
  <2> QED BY <2>2, <2>3
<1> QED BY <1>1, <1>2, <1>4 DEF DecisionInv

LEMMA RefusedDecides ==
    ASSUME TypeInv, DecisionInv, NEW c \in Checkpoints, NEW st \in States, Saves(c, st),
           Loaded(records, c) \notin Closed, Refused(c, st), records' = records
    PROVE  DecisionInv'
<1>0. /\ ClosedLast(records) /\ Agree
      /\ checkpoints \in [Checkpoints -> States] /\ acted' = acted
      /\ checkpoints' = [checkpoints EXCEPT ![c] = st] /\ records' = records
  BY DEF TypeInv, DecisionInv, Saves, Refused
<1>2. Agree'
  BY <1>0 DEF Agree
<1>3. WriteFaults \in Nat /\ WriteFaults' = WriteFaults + 1
  BY FaultsMove DEF Refused
<1>4. ASSUME NEW d \in Checkpoints PROVE Bound(d)'
  <2>1. Bound(d) /\ Reopen(records, d) \in Nat /\ Reopen(records, d)' = Reopen(records, d)
    BY <1>0, ReopenTyped DEF DecisionInv
  <2>2. Decided(d)' \subseteq Decided(d) \cup {st}
    BY <1>0 DEF Decided
  <2>3. 1 \in 0 .. 1 /\ 1 + Reopen(records, d)' + WriteFaults <= Reopen(records, d) + WriteFaults'
    BY <1>3, <2>1
  <2>4. 1 = 0 => Decided(d)' \subseteq Decided(d)
    OBVIOUS
  <2> QED BY <1>3, <2>1, <2>2, <2>3, <2>4, Pays
<1> QED BY <1>0, <1>2, <1>4 DEF DecisionInv

LEMMA TearsDecides ==
    ASSUME TypeInv, DecisionInv, NEW c \in Checkpoints, NEW st \in States, Saves(c, st),
           Loaded(records, c) \notin Closed, Tears(c, st)
    PROVE  DecisionInv'
<1>1. PICK g \in TornInto(records, RecordLine(c, st)) : RestartWith(g, audit)
  BY DEF Tears
<1>2. /\ records \in Seq(RecordType) /\ ClosedLast(records) /\ Agree
      /\ acted' = acted /\ records' = g /\ checkpoints' = [d \in Checkpoints |-> Loaded(g, d)]
  BY <1>1 DEF TypeInv, DecisionInv, Saves, RestartWith
<1>3. /\ ClosedLast(g)
      /\ \A d : d # c /\ Loaded(g, d) \in Closed => Loaded(g, d) = Loaded(records, d)
      /\ \A d : Reopen(g, d) <= Reopen(records, d) + 1
      /\ Loaded(g, c) \in Closed => Loaded(g, c) = st /\ Reopen(g, c) <= Reopen(records, c)
  BY <1>2, TornReopens
<1>4. Agree'
  BY <1>2 DEF Agree
<1>5. WriteFaults \in Nat /\ WriteFaults' = WriteFaults + 1
  BY FaultsMove DEF Tears
<1>6. ASSUME NEW d \in Checkpoints PROVE Bound(d)'
  <2>1. Bound(d) /\ Reopen(records, d) \in Nat /\ Reopen(records, d)' \in Nat
        /\ Reopen(records, d)' = Reopen(g, d)
    BY <1>2, ReopenTyped DEF DecisionInv
  <2>2. CASE d = c /\ Loaded(g, c) \in Closed
    <3>1. Decided(d)' \subseteq Decided(d) \cup {st}
      BY <1>2, <1>3, <2>2 DEF Decided
    <3>2. 1 \in 0 .. 1 /\ 1 + Reopen(records, d)' + WriteFaults <= Reopen(records, d) + WriteFaults'
      BY <1>3, <1>5, <2>1, <2>2
    <3>3. 1 = 0 => Decided(d)' \subseteq Decided(d)
      OBVIOUS
    <3> QED BY <1>5, <2>1, <3>1, <3>2, <3>3, Pays
  <2>3. CASE ~(d = c /\ Loaded(g, c) \in Closed)
    <3>1. Loaded(g, d) \in Closed => checkpoints[d] = Loaded(g, d)
      BY <1>2, <1>3, <2>3 DEF Agree
    <3>2. Decided(d)' \subseteq Decided(d)
      BY <1>2, <3>1 DEF Decided
    <3>3. 0 \in 0 .. 1 /\ 0 + Reopen(records, d)' + WriteFaults <= Reopen(records, d) + WriteFaults'
      BY <1>3, <1>5, <2>1
    <3> QED BY <1>5, <2>1, <3>2, <3>3, Pays
  <2> QED BY <2>2, <2>3
<1> QED BY <1>2, <1>3, <1>4, <1>6 DEF DecisionInv

LEMMA SavesDecides ==
    ASSUME TypeInv, DecisionInv, NEW c \in Checkpoints, NEW st \in States, Saves(c, st)
    PROVE  DecisionInv'
<1>1. Loaded(records, c) \notin Closed
  BY Disjoint DEF DecisionInv, Agree, Saves
<1>2. CASE Lands(c, st)
  <2>1. WriteFaults \in Nat /\ WriteFaults' = WriteFaults
    BY <1>2, FaultsMove DEF Lands
  <2>2. WriteFaults \in Nat /\ WriteFaults' \in Nat /\ WriteFaults <= WriteFaults'
    BY <2>1
  <2>3. checkpoints' = [checkpoints EXCEPT ![c] = st] /\ records' = Appended(records, RecordLine(c, st))
    BY <1>2 DEF Lands
  <2> QED BY <1>1, <2>2, <2>3, LandsDecides
<1>3. CASE Refused(c, st)
  <2>1. WriteFaults \in Nat /\ WriteFaults' = WriteFaults + 1
    BY <1>3, FaultsMove DEF Refused
  <2>2. WriteFaults \in Nat /\ WriteFaults' \in Nat /\ WriteFaults <= WriteFaults'
    BY <2>1
  <2>3. checkpoints' = [checkpoints EXCEPT ![c] = st]
    BY <1>3 DEF Refused
  <2>4. CASE records' = Appended(records, RecordLine(c, st))
    BY <1>1, <2>2, <2>3, <2>4, LandsDecides
  <2> QED BY <1>1, <1>3, <2>4, RefusedDecides DEF Refused
<1> QED BY <1>1, <1>2, <1>3, SaveOutcomes, TearsDecides DEF Saves

(* What is loaded from the file that is kept decides nothing.              *)
LEMMA RestartDecides ==
    ASSUME TypeInv, DecisionInv, NEW al, RestartWith(records, al), acted' = acted,
           WriteFaults' \in Nat, WriteFaults <= WriteFaults'
    PROVE  DecisionInv'
<1>1. /\ ClosedLast(records) /\ Agree /\ records' = records
      /\ checkpoints' = [d \in Checkpoints |-> Loaded(records, d)]
  BY DEF DecisionInv, RestartWith
<1>2. Agree'
  BY <1>1 DEF Agree
<1>3. ASSUME NEW d \in Checkpoints PROVE Bound(d)'
  <2>1. Bound(d)
    BY DEF DecisionInv
  <2>2. Decided(d)' \subseteq Decided(d)
    BY <1>1 DEF Decided, Agree
  <2> QED BY <1>1, <2>1, <2>2, Kept
<1> QED BY <1>1, <1>2, <1>3 DEF DecisionInv

LEMMA SameRecordsDecide ==
    ASSUME TypeInv, DecisionInv, UNCHANGED <<checkpoints, records>>,
           \A d \in Checkpoints : Decided(d)' \subseteq Decided(d),
           WriteFaults' \in Nat, WriteFaults <= WriteFaults'
    PROVE  DecisionInv'
<1>1. ClosedLast(records') /\ Agree'
  BY DEF DecisionInv, Agree
<1>2. ASSUME NEW d \in Checkpoints PROVE Bound(d)'
  BY Kept DEF DecisionInv
<1> QED BY <1>1, <1>2 DEF DecisionInv

LEMMA RecordDecides ==
    ASSUME TypeInv, DecisionInv, RecordAuditEntry
    PROVE  DecisionInv'
<1>0. WriteFaults \in Nat
  BY FaultsTyped
<1>1. CASE /\ acted' = IF pending.event = "REJECTED"
                       THEN [acted EXCEPT ![pending.id] = @ \cup {"REJECTED"}] ELSE acted
           /\ UNCHANGED <<checkpoints, records, budget>>
  <2>1. WriteFaults' = WriteFaults
    BY <1>1, FaultsMove
  <2>2. ASSUME NEW d \in Checkpoints PROVE Decided(d)' \subseteq Decided(d)
    <3>1. pending.event = checkpoints[pending.id] /\ acted \in [Checkpoints -> SUBSET Closed]
      BY DEF TypeInv, RecordAuditEntry
    <3>2. acted'[d] \subseteq acted[d] \cup ({checkpoints[d]} \cap Closed)
      BY <1>1, <3>1 DEF Closed
    <3> QED BY <1>1, <3>2 DEF Decided
  <2> QED BY <1>0, <1>1, <2>1, <2>2, SameRecordsDecide
<1>2. CASE Spend("refuse") /\ UNCHANGED <<checkpoints, records, acted>>
  <2>1. WriteFaults' = WriteFaults + 1
    BY <1>2, FaultsMove
  <2>2. UNCHANGED <<checkpoints, records>> /\ \A d \in Checkpoints : Decided(d)' \subseteq Decided(d)
    BY <1>2 DEF Decided, files
  <2> QED BY <1>0, <2>1, <2>2, SameRecordsDecide
<1>3. CASE /\ Spend("tear") /\ UNCHANGED acted
           /\ \E torn \in TornInto(audit, AuditLine(pending)) : RestartWith(records, torn)
  <2>1. WriteFaults' = WriteFaults + 1
    BY <1>3, FaultsMove
  <2> QED BY <1>0, <1>3, <2>1, RestartDecides
<1> QED BY <1>1, <1>2, <1>3 DEF RecordAuditEntry

LEMMA CrashDecides ==
    ASSUME TypeInv, DecisionInv, Crash
    PROVE  DecisionInv'
<1>1. WriteFaults \in Nat /\ WriteFaults' = WriteFaults
  BY FaultsMove DEF Crash
<1> QED BY <1>1, RestartDecides DEF Crash

LEMMA OthersDecide ==
    ASSUME TypeInv, DecisionInv, NEW c \in Checkpoints,
           VerifyResumeToken(c) \/ TimePasses(c) \/ UNCHANGED vars
    PROVE  DecisionInv'
<1>1. UNCHANGED <<checkpoints, records, budget>>
  BY DEF VerifyResumeToken, TimePasses, vars, memory, files
<1>2. WriteFaults \in Nat /\ WriteFaults' = WriteFaults
  BY <1>1, FaultsMove
<1>3. ASSUME NEW d \in Checkpoints PROVE Decided(d)' \subseteq Decided(d)
  <2>1. CASE VerifyResumeToken(c)
    BY <1>1, <2>1 DEF VerifyResumeToken, Decided, Closed, TypeInv
  <2>2. CASE acted' = acted
    BY <1>1, <2>2 DEF Decided
  <2> QED BY <2>1, <2>2 DEF TimePasses, vars
<1> QED BY <1>1, <1>2, <1>3, SameRecordsDecide

LEMMA DecisionStep == TypeInv /\ DecisionInv /\ [Next]_vars => DecisionInv'
<1> SUFFICES ASSUME TypeInv, DecisionInv, [Next]_vars PROVE DecisionInv'
  OBVIOUS
<1>1. ASSUME NEW c \in Checkpoints, CreateCheckpoint(c) PROVE DecisionInv'
  BY <1>1, CreateSaves, SavesDecides
<1>2. ASSUME NEW c \in Checkpoints, NEW verdict \in Payloads \cup {"REJECTED"}, ResolveCheckpoint(c, verdict)
      PROVE  DecisionInv'
  BY <1>2, ResolveSaves, SavesDecides
<1>3. CASE UNCHANGED vars
  <2>1. CASE Checkpoints = {}
    BY <1>3, <2>1 DEF DecisionInv, Agree, vars, files
  <2>2. CASE Checkpoints # {}
    BY <1>3, <2>2, OthersDecide
  <2> QED BY <2>1, <2>2
<1> QED BY <1>1, <1>2, <1>3, RecordDecides, CrashDecides, OthersDecide DEF Next

LEMMA DecisionInit == Init => DecisionInv
<1> SUFFICES ASSUME Init PROVE DecisionInv
  OBVIOUS
<1>1. TypeInv
  BY TypeInit
<1>2. records = <<>> /\ ClosedLast(records) /\ ~Unended(records)
  BY DEF Init, ClosedLast, Unended
<1>3. ASSUME NEW c \in Checkpoints PROVE Loaded(records, c) = "none"
  BY <1>2, LoadedNone DEF Mine
<1>4. "none" \notin Closed
  BY Disjoint DEF Open
<1>5. ASSUME NEW c \in Checkpoints PROVE Bound(c)
  <2>1. Decided(c) = {}
    BY <1>4, <1>5 DEF Init, Decided
  <2>2. Reopen(records, c) = 1
    BY <1>2, <1>3, <1>4 DEF Reopen
  <2>3. IsFiniteSet({}) /\ Cardinality({}) = 0
    BY FS_EmptySet
  <2> QED BY <1>1, <2>1, <2>2, <2>3, FaultsTyped DEF Bound
<1> QED BY <1>2, <1>3, <1>4, <1>5 DEF DecisionInv, Agree

LEMMA BoundsVerdicts == TypeInv /\ DecisionInv => VerdictsNeedFaults
<1> SUFFICES ASSUME TypeInv, DecisionInv, NEW c \in Checkpoints
             PROVE  Cardinality(acted[c]) <= 1 + Spent("refuse") + Spent("tear")
  BY DEF VerdictsNeedFaults
<1>1. IsFiniteSet(Decided(c)) /\ Cardinality(Decided(c)) + Reopen(records, c) <= 1 + WriteFaults
  BY DEF DecisionInv, Bound
<1>2. acted[c] \subseteq Decided(c)
  BY DEF Decided
<1>3. /\ Cardinality(acted[c]) <= Cardinality(Decided(c))
      /\ Cardinality(acted[c]) \in Nat /\ Cardinality(Decided(c)) \in Nat
  BY <1>1, <1>2, FS_Subset, FS_CardinalityType
<1>4. Reopen(records, c) \in Nat /\ Spent("refuse") \in Nat /\ Spent("tear") \in Nat
  BY ReopenTyped, SpentTyped
<1>5. Cardinality(Decided(c)) + Reopen(records, c) <= 1 + (Spent("refuse") + Spent("tear"))
  BY <1>1 DEF WriteFaults
<1> QED BY <1>3, <1>4, <1>5

(* A checkpoint is decided once, and once more per refused or torn write:  *)
(* crashes alone, however many and wherever they fall, do not let a token  *)
(* be acted on under a second verdict.                                     *)
THEOREM VerdictsNeedFaultsAlways == Spec => []VerdictsNeedFaults
BY TypeInit, TypeStep, DecisionInit, DecisionStep, BoundsVerdicts, PTL DEF Spec

-----------------------------------------------------------------------------
(* What the audit log misses                                               *)

(* An entry of checkpoint c under event e is in the log and can be read.   *)
Notes(file, c, e) == \E i \in DOMAIN file : file[i].whole /\ file[i].id = c /\ file[i].event = e

LEMMA AuditedNotes == ASSUME NEW c PROVE Audited(c) <=> Notes(audit, c, Loaded(records, c))
BY DEF Audited, Notes

(* What a line without its newline can still cost: the next append falls   *)
(* into it, and the entry before it, if that can be read, is lost as well. *)
Frail(file) == IF ~Unended(file) THEN 0 ELSE IF file[Len(file)].whole THEN 2 ELSE 1

LEMMA NotesAppend ==
    ASSUME NEW file \in Seq(AuditType), NEW line \in AuditType
    PROVE  /\ \A c, e : Notes(file, c, e) => Notes(Append(file, line), c, e)
           /\ line.whole => Notes(Append(file, line), line.id, line.event)
           /\ Unended(Append(file, line)) <=> ~line.ended
           /\ Frail(Append(file, line)) = IF line.ended THEN 0 ELSE IF line.whole THEN 2 ELSE 1
<1> DEFINE g == Append(file, line)
<1>1. /\ DOMAIN g = 1 .. (Len(file) + 1) /\ g[Len(file) + 1] = line /\ Len(file) \in Nat /\ DOMAIN file = 1 .. Len(file)
      /\ Len(g) = Len(file) + 1 /\ g # <<>> /\ \A i \in 1 .. Len(file) : g[i] = file[i]
  OBVIOUS
<1> HIDE DEF g
<1>2. \A c, e : Notes(file, c, e) => Notes(g, c, e)
  BY <1>1 DEF Notes
<1>3. line.whole => Notes(g, line.id, line.event)
  BY <1>1 DEF Notes
<1>4. Unended(g) <=> ~line.ended
  BY <1>1 DEF Unended
<1> QED BY <1>1, <1>2, <1>3, <1>4 DEF Frail, g

LEMMA NotesSpoilt ==
    ASSUME NEW file \in Seq(AuditType), Unended(file), NEW e \in BOOLEAN
    PROVE  /\ \A c, v : Notes(file, c, v) /\ (file[Len(file)].whole => c # file[Len(file)].id) => Notes(Spoilt(file, e), c, v)
           /\ Frail(Spoilt(file, e)) = IF e THEN 0 ELSE 1
<1> DEFINE n == Len(file)
           g == Spoilt(file, e)
<1>1. n \in 1 .. n /\ n \in Nat /\ file[n] \in AuditType /\ file # <<>> /\ DOMAIN file = 1 .. n
  BY DEF Unended
<1>2. g = [file EXCEPT ![n] = [file[n] EXCEPT !.whole = FALSE, !.ended = e]]
  BY <1>1 DEF Spoilt
<1>3. [file[n] EXCEPT !.whole = FALSE, !.ended = e] \in AuditType
  BY <1>1 DEF AuditType
<1>4. /\ g \in Seq(AuditType) /\ Len(g) = n /\ DOMAIN g = 1 .. n /\ g # <<>>
      /\ \A i \in 1 .. n : i # n => g[i] = file[i]
  BY <1>1, <1>2, <1>3
<1>5. ~g[n].whole /\ (g[n].ended <=> e)
  <2>1. g[n] = [file[n] EXCEPT !.whole = FALSE, !.ended = e]
    BY <1>1, <1>2
  <2> QED BY <1>1, <2>1 DEF AuditType
<1> HIDE DEF g
<1>6. ASSUME NEW c, NEW v, Notes(file, c, v), file[n].whole => c # file[n].id
      PROVE  Notes(g, c, v)
  <2>1. PICK i \in 1 .. n : file[i].whole /\ file[i].id = c /\ file[i].event = v
    BY <1>1, <1>6 DEF Notes
  <2>2. i # n
    BY <1>6, <2>1
  <2> QED BY <1>4, <2>1, <2>2 DEF Notes
<1>7. Frail(g) = IF e THEN 0 ELSE 1
  BY <1>4, <1>5 DEF Frail, Unended
<1> QED BY <1>6, <1>7 DEF g

(* The closed checkpoints without an entry, but for the one of the call    *)
(* under way; with what may still be lost they are paid for by faults.     *)
Owed      == Unaudited \ (IF pending = NoCall THEN {} ELSE {pending.id})
AllFaults == Spent("crash") + Spent("refuse") + 2 * Spent("tear")
GapInv    == IsFiniteSet(Owed) /\ Cardinality(Owed) + Frail(audit) <= AllFaults

LEMMA FrailTyped == ASSUME NEW file PROVE Frail(file) \in 0 .. 2
BY DEF Frail

LEMMA AllFaultsMove ==
    ASSUME TypeInv
    PROVE  /\ AllFaults \in Nat
           /\ Spend("tear") => AllFaults' = AllFaults + 2
           /\ Spend("refuse") \/ Spend("crash") => AllFaults' = AllFaults + 1
           /\ UNCHANGED budget => AllFaults' = AllFaults
<1>1. Spent("crash") \in Nat /\ Spent("refuse") \in Nat /\ Spent("tear") \in Nat
  BY SpentTyped
<1>2. "tear" \in Faults /\ "refuse" \in Faults /\ "crash" \in Faults
  BY DEF Faults
<1>3. ASSUME Spend("tear") PROVE AllFaults' = AllFaults + 2
  <2>1. \A g \in Faults : Spent(g)' = Spent(g) + (IF g = "tear" THEN 1 ELSE 0)
    BY <1>2, <1>3, SpendTyped
  <2>2. Spent("crash")' = Spent("crash") /\ Spent("refuse")' = Spent("refuse") /\ Spent("tear")' = Spent("tear") + 1
    BY <1>1, <1>2, <2>1
  <2> QED BY <1>1, <2>2 DEF AllFaults
<1>4. ASSUME Spend("refuse") PROVE AllFaults' = AllFaults + 1
  <2>1. \A g \in Faults : Spent(g)' = Spent(g) + (IF g = "refuse" THEN 1 ELSE 0)
    BY <1>2, <1>4, SpendTyped
  <2>2. Spent("crash")' = Spent("crash") /\ Spent("refuse")' = Spent("refuse") + 1 /\ Spent("tear")' = Spent("tear")
    BY <1>1, <1>2, <2>1
  <2> QED BY <1>1, <2>2 DEF AllFaults
<1>5. ASSUME Spend("crash") PROVE AllFaults' = AllFaults + 1
  <2>1. \A g \in Faults : Spent(g)' = Spent(g) + (IF g = "crash" THEN 1 ELSE 0)
    BY <1>2, <1>5, SpendTyped
  <2>2. Spent("crash")' = Spent("crash") + 1 /\ Spent("refuse")' = Spent("refuse") /\ Spent("tear")' = Spent("tear")
    BY <1>1, <1>2, <2>1
  <2> QED BY <1>1, <2>2 DEF AllFaults
<1>6. UNCHANGED budget => AllFaults' = AllFaults
  BY DEF AllFaults, Spent
<1>7. AllFaults \in Nat
  BY <1>1 DEF AllFaults
<1> QED BY <1>3, <1>4, <1>5, <1>6, <1>7

LEMMA AtMostOne ==
    ASSUME NEW x
    PROVE  IsFiniteSet({}) /\ Cardinality({}) = 0 /\ IsFiniteSet({x}) /\ Cardinality({x}) = 1
BY FS_EmptySet, FS_Singleton

LEMMA AtMostTwo ==
    ASSUME NEW x, NEW y
    PROVE  IsFiniteSet({x, y}) /\ Cardinality({x, y}) \in 0 .. 2
<1>1. IsFiniteSet({}) /\ Cardinality({}) = 0 /\ IsFiniteSet({x}) /\ Cardinality({x}) = 1
  BY FS_EmptySet, FS_Singleton
<1>2. /\ IsFiniteSet({x} \cup {y})
      /\ Cardinality({x} \cup {y}) = IF y \in {x} THEN Cardinality({x}) ELSE Cardinality({x}) + 1
  BY <1>1, FS_AddElement
<1>3. {x, y} = {x} \cup {y}
  OBVIOUS
<1> QED BY <1>1, <1>2, <1>3

(* A step is paid for if what it adds is.                                  *)
LEMMA GapPays ==
    ASSUME TypeInv, GapInv, NEW X, IsFiniteSet(X), Owed' \subseteq Owed \cup X, AllFaults' \in Nat,
           Cardinality(X) + Frail(audit') + AllFaults <= Frail(audit) + AllFaults'
    PROVE  GapInv'
<1>1. IsFiniteSet(Owed) /\ Cardinality(Owed) + Frail(audit) <= AllFaults /\ AllFaults \in Nat
  BY AllFaultsMove DEF GapInv
<1>2. PICK O : O = Owed'
  OBVIOUS
<1> HIDE DEF Owed
<1>3. IsFiniteSet(Owed \cup X) /\ Cardinality(Owed \cup X) <= Cardinality(Owed) + Cardinality(X)
  <2>1. /\ IsFiniteSet(Owed \cup X)
        /\ Cardinality(Owed \cup X) = Cardinality(Owed) + Cardinality(X) - Cardinality(Owed \cap X)
    BY <1>1, FS_Union
  <2>2. Cardinality(Owed) \in Nat /\ Cardinality(X) \in Nat /\ Cardinality(Owed \cap X) \in Nat
    BY <1>1, FS_CardinalityType, FS_Intersection
  <2> QED BY <2>1, <2>2
<1>4. IsFiniteSet(O) /\ Cardinality(O) <= Cardinality(Owed \cup X)
  BY <1>2, <1>3, FS_Subset
<1>5. /\ Cardinality(O) \in Nat /\ Cardinality(Owed) \in Nat /\ Cardinality(X) \in Nat
      /\ Cardinality(Owed \cup X) \in Nat
  BY <1>1, <1>3, <1>4, FS_CardinalityType
<1>6. Frail(audit) \in Nat /\ Frail(audit') \in Nat
  BY FrailTyped
<1>7. Cardinality(O) + Frail(audit') <= AllFaults'
  BY <1>1, <1>3, <1>4, <1>5, <1>6
<1> QED BY <1>2, <1>4, <1>7 DEF GapInv

(* A decision that is saved owes its entry to the call under way.          *)
LEMMA SavesOwe ==
    ASSUME TypeInv, DecisionInv, GapInv, NEW c \in Checkpoints, NEW st \in States, st # "none", Saves(c, st)
    PROVE  GapInv'
<1>0. /\ records \in Seq(RecordType) /\ ClosedLast(records) /\ Loaded(records, c) \notin Closed
      /\ pending = NoCall /\ AllFaults \in Nat /\ Frail(audit) \in Nat
      /\ IsFiniteSet({}) /\ Cardinality({}) = 0 /\ IsFiniteSet({c}) /\ Cardinality({c}) = 1
  <2>1. records \in Seq(RecordType) /\ ClosedLast(records) /\ Loaded(records, c) \notin Closed
    BY Disjoint DEF TypeInv, DecisionInv, Agree, Saves
  <2>2. pending = NoCall
    BY SaveOutcomes DEF Saves
  <2>3. AllFaults \in Nat /\ Frail(audit) \in Nat
    BY AllFaultsMove, FrailTyped
  <2>4. IsFiniteSet({}) /\ Cardinality({}) = 0 /\ IsFiniteSet({c}) /\ Cardinality({c}) = 1
    BY AtMostOne
  <2> QED BY <2>1, <2>2, <2>3, <2>4
<1>1. ASSUME audit' = audit, \A d : d # c /\ Loaded(records', d) \in Closed => Loaded(records', d) = Loaded(records, d)
      PROVE  Unaudited' \subseteq Unaudited \cup {c}
  BY <1>1 DEF Unaudited, Audited
<1>2. CASE Lands(c, st)
  <2>1. \A d : d # c /\ Loaded(records', d) \in Closed => Loaded(records', d) = Loaded(records, d)
    BY <1>0, <1>2, AppendedReopens DEF Lands
  <2>2. pending' = [id |-> c, event |-> st] /\ audit' = audit /\ UNCHANGED budget
    BY <1>2 DEF Lands, Event
  <2>3. pending'.event = st /\ NoCall.event = "none" /\ pending'.id = c
    BY <2>2 DEF NoCall
  <2>4. pending' # NoCall
    BY <2>3
  <2>5. Owed' \subseteq Owed \cup {}
    BY <1>0, <1>1, <2>1, <2>2, <2>3, <2>4 DEF Owed
  <2>6. AllFaults' = AllFaults
    BY <2>2, AllFaultsMove
  <2> QED BY <1>0, <2>2, <2>5, <2>6, GapPays
<1>3. CASE Refused(c, st)
  <2>1. audit' = audit /\ pending' = pending /\ AllFaults' = AllFaults + 1
    BY <1>3, AllFaultsMove DEF Refused
  <2>2. \A d : d # c /\ Loaded(records', d) \in Closed => Loaded(records', d) = Loaded(records, d)
    BY <1>0, <1>3, AppendedReopens DEF Refused
  <2>3. Owed' \subseteq Owed \cup {c}
    BY <1>0, <1>1, <2>1, <2>2 DEF Owed
  <2> QED BY <1>0, <2>1, <2>3, GapPays
<1>4. CASE Tears(c, st)
  <2>1. PICK g \in TornInto(records, RecordLine(c, st)) : RestartWith(g, audit)
    BY <1>4 DEF Tears
  <2>2. audit' = audit /\ records' = g /\ pending' = NoCall /\ AllFaults' = AllFaults + 2
    BY <1>4, <2>1, AllFaultsMove DEF Tears, RestartWith
  <2>3. \A d : d # c /\ Loaded(g, d) \in Closed => Loaded(g, d) = Loaded(records, d)
    BY <1>0, TornReopens
  <2>4. Owed' \subseteq Owed \cup {c}
    BY <1>0, <1>1, <2>2, <2>3 DEF Owed
  <2> QED BY <1>0, <2>2, <2>4, GapPays
<1> QED BY <1>2, <1>3, <1>4, SaveOutcomes DEF Saves

(* What an append to the log does to what it owes.                         *)
LEMMA AppendsOwe ==
    ASSUME TypeInv, DecisionInv, pending # NoCall, records' = records, pending' = NoCall,
           NEW line \in AuditType, line = AuditLine(pending),
           audit' = Appended(audit, line) \/ audit' \in TornInto(audit, line)
    PROVE  \E X : /\ IsFiniteSet(X) /\ Cardinality(X) \in Nat /\ Owed' \subseteq Owed \cup X
                  /\ audit' = Appended(audit, line) => Cardinality(X) + Frail(audit') <= Frail(audit)
                  /\ audit' \in TornInto(audit, line) => Cardinality(X) + Frail(audit') <= Frail(audit) + 2
<1> DEFINE p == pending.id
           lst == audit[Len(audit)]
<1>0. /\ audit \in Seq(AuditType) /\ line.id = p /\ line.event = pending.event /\ line.whole /\ line.ended
      /\ Loaded(records, p) \in Closed => Loaded(records, p) = line.event
  BY DEF TypeInv, AuditLine, DecisionInv, Agree, CallType
<1>1. Owed = Unaudited \ {p} /\ Owed' = Unaudited'
  BY DEF Owed
<1>2. \A d : d \in Unaudited <=> d \in Checkpoints /\ Loaded(records, d) \in Closed /\ ~Notes(audit, d, Loaded(records, d))
  BY AuditedNotes DEF Unaudited
<1>3. \A d : d \in Unaudited' <=> d \in Checkpoints /\ Loaded(records, d) \in Closed /\ ~Notes(audit', d, Loaded(records, d))
  BY DEF Unaudited, Audited, Notes
<1>4. /\ IsFiniteSet({}) /\ Cardinality({}) = 0 /\ IsFiniteSet({p}) /\ Cardinality({p}) = 1
      /\ IsFiniteSet({p, lst.id}) /\ Cardinality({p, lst.id}) \in 0 .. 2
  BY AtMostOne, AtMostTwo
<1> HIDE DEF p, lst
<1>5. CASE ~Unended(audit)
  <2>1. CASE audit' = Append(audit, line)
    <3>1. /\ \A c, e : Notes(audit, c, e) => Notes(audit', c, e)
          /\ Notes(audit', p, line.event) /\ Frail(audit') = 0 /\ Frail(audit) = 0
      BY <1>0, <1>5, <2>1, NotesAppend DEF Frail
    <3>2. Owed' \subseteq Owed \cup {}
      BY <1>0, <1>1, <1>2, <1>3, <3>1
    <3>3. /\ Cardinality({}) \in Nat /\ Cardinality({}) + Frail(audit') <= Frail(audit)
          /\ Cardinality({}) + Frail(audit') <= Frail(audit) + 2
      BY <1>4, <3>1
    <3> QED BY <1>4, <3>2, <3>3
  <2>2. ASSUME NEW w \in BOOLEAN, audit' = Append(audit, [line EXCEPT !.whole = w, !.ended = FALSE]),
               audit' # Appended(audit, line)
        PROVE  \E X : /\ IsFiniteSet(X) /\ Cardinality(X) \in Nat /\ Owed' \subseteq Owed \cup X
                      /\ Cardinality(X) + Frail(audit') <= Frail(audit) + 2
    <3> DEFINE cut == [line EXCEPT !.whole = w, !.ended = FALSE]
    <3>1. cut \in AuditType /\ cut.id = p /\ cut.event = line.event /\ (cut.whole <=> w) /\ ~cut.ended
      BY <1>0 DEF AuditType
    <3> HIDE DEF cut
    <3>2. /\ \A c, e : Notes(audit, c, e) => Notes(audit', c, e)
          /\ w => Notes(audit', p, line.event)
          /\ Frail(audit') = (IF w THEN 2 ELSE 1) /\ Frail(audit) = 0
      <4>1. audit' = Append(audit, cut)
        BY <2>2 DEF cut
      <4> QED BY <1>0, <1>5, <3>1, <4>1, NotesAppend DEF Frail
    <3>3. CASE w
      <4>1. Owed' \subseteq Owed \cup {}
        BY <1>0, <1>1, <1>2, <1>3, <3>2, <3>3
      <4> QED BY <1>4, <3>2, <3>3, <4>1
    <3>4. CASE ~w
      <4>1. Owed' \subseteq Owed \cup {p}
        BY <1>0, <1>1, <1>2, <1>3, <3>2
      <4> QED BY <1>4, <3>2, <3>4, <4>1
    <3> QED BY <3>3, <3>4
  <2>3. CASE audit' = Appended(audit, line)
    BY <1>5, <2>1, <2>3 DEF Appended
  <2>4. CASE audit' # Appended(audit, line)
    <3>1. PICK w \in BOOLEAN : audit' = Append(audit, [line EXCEPT !.whole = w, !.ended = FALSE])
      BY <1>5, <2>4 DEF TornInto
    <3> QED BY <2>2, <2>4, <3>1
  <2> QED BY <2>3, <2>4
<1>6. CASE Unended(audit)
  <2>1. ASSUME NEW e \in BOOLEAN, audit' = Spoilt(audit, e)
        PROVE  \E X : /\ IsFiniteSet(X) /\ Cardinality(X) \in Nat /\ Owed' \subseteq Owed \cup X
                      /\ Cardinality(X) + Frail(audit') <= Frail(audit) + (IF e THEN 0 ELSE 1)
    <3>1. /\ \A c, v : Notes(audit, c, v) /\ (lst.whole => c # lst.id) => Notes(audit', c, v)
          /\ Frail(audit') = (IF e THEN 0 ELSE 1) /\ Frail(audit) = (IF lst.whole THEN 2 ELSE 1)
      BY <1>0, <1>6, <2>1, NotesSpoilt DEF Frail, lst
    <3>2. CASE lst.whole
      <4>1. Owed' \subseteq Owed \cup {p, lst.id}
        BY <1>1, <1>2, <1>3, <3>1
      <4>2. /\ Cardinality({p, lst.id}) \in Nat
            /\ Cardinality({p, lst.id}) + Frail(audit') <= Frail(audit) + (IF e THEN 0 ELSE 1)
        BY <1>4, <3>1, <3>2
      <4> QED BY <1>4, <4>1, <4>2
    <3>3. CASE ~lst.whole
      <4>1. Owed' \subseteq Owed \cup {p}
        BY <1>1, <1>2, <1>3, <3>1, <3>3
      <4>2. Cardinality({p}) \in Nat /\ Cardinality({p}) + Frail(audit') <= Frail(audit) + (IF e THEN 0 ELSE 1)
        BY <1>4, <3>1, <3>3
      <4> QED BY <1>4, <4>1, <4>2
    <3> QED BY <3>2, <3>3
  <2>2. CASE audit' = Spoilt(audit, TRUE)
    <3>1. PICK X : /\ IsFiniteSet(X) /\ Cardinality(X) \in Nat /\ Owed' \subseteq Owed \cup X
                   /\ Cardinality(X) + Frail(audit') <= Frail(audit)
      <4>1. \E X : /\ IsFiniteSet(X) /\ Cardinality(X) \in Nat /\ Owed' \subseteq Owed \cup X
                   /\ Cardinality(X) + Frail(audit') <= Frail(audit) + (IF TRUE THEN 0 ELSE 1)
        BY <2>1, <2>2
      <4> QED BY <4>1, FrailTyped
    <3> QED BY <3>1, FrailTyped
  <2>3. CASE audit' = Spoilt(audit, FALSE) /\ audit' # Spoilt(audit, TRUE)
    <3>1. PICK X : /\ IsFiniteSet(X) /\ Cardinality(X) \in Nat /\ Owed' \subseteq Owed \cup X
                   /\ Cardinality(X) + Frail(audit') <= Frail(audit) + 1
      <4>1. \E X : /\ IsFiniteSet(X) /\ Cardinality(X) \in Nat /\ Owed' \subseteq Owed \cup X
                   /\ Cardinality(X) + Frail(audit') <= Frail(audit) + (IF FALSE THEN 0 ELSE 1)
        BY <2>1, <2>3
      <4> QED BY <4>1, FrailTyped
    <3>2. audit' # Appended(audit, line)
      BY <1>6, <2>3 DEF Appended
    <3>3. Frail(audit) \in Nat /\ Frail(audit') \in Nat
      BY FrailTyped
    <3> QED BY <3>1, <3>2, <3>3
  <2> QED BY <1>6, <2>2, <2>3 DEF Appended, TornInto
<1> QED BY <1>5, <1>6

LEMMA RecordOwes ==
    ASSUME TypeInv, DecisionInv, GapInv, RecordAuditEntry
    PROVE  GapInv'
<1>0. /\ pending # NoCall /\ AllFaults \in Nat /\ Frail(audit) \in Nat /\ Frail(audit') \in Nat
      /\ IsFiniteSet({pending.id}) /\ Cardinality({pending.id}) = 1
  <2>1. pending # NoCall
    BY DEF RecordAuditEntry
  <2>2. AllFaults \in Nat /\ Frail(audit) \in Nat
    BY AllFaultsMove, FrailTyped
  <2>3. Frail(audit') \in Nat
    BY FrailTyped
  <2>4. IsFiniteSet({pending.id}) /\ Cardinality({pending.id}) = 1
    BY AtMostOne
  <2> QED BY <2>1, <2>2, <2>3, <2>4
<1>1. PICK line \in AuditType : line = AuditLine(pending)
  <2>1. AuditLine(pending) \in AuditType
    BY DEF TypeInv, RecordAuditEntry, AuditLine, AuditType, CallType
  <2> QED BY <2>1
<1>2. CASE audit' = Appended(audit, AuditLine(pending)) /\ pending' = NoCall /\ UNCHANGED <<records, budget>>
  <2>1. PICK X : /\ IsFiniteSet(X) /\ Cardinality(X) \in Nat /\ Owed' \subseteq Owed \cup X
                 /\ Cardinality(X) + Frail(audit') <= Frail(audit)
    BY <1>0, <1>1, <1>2, AppendsOwe
  <2>2. AllFaults' = AllFaults
    BY <1>2, AllFaultsMove
  <2>3. Cardinality(X) + Frail(audit') + AllFaults <= Frail(audit) + AllFaults'
    BY <1>0, <2>1, <2>2
  <2> QED BY <1>0, <2>1, <2>2, <2>3, GapPays
<1>3. CASE Spend("refuse") /\ pending' = NoCall /\ UNCHANGED <<records, audit>>
  <2>1. AllFaults' = AllFaults + 1
    BY <1>3, AllFaultsMove
  <2>2. Owed' \subseteq Owed \cup {pending.id}
    BY <1>3 DEF Owed, Unaudited, Audited
  <2> QED BY <1>0, <1>3, <2>1, <2>2, GapPays
<1>5. CASE /\ Spend("refuse") /\ audit' = Appended(audit, AuditLine(pending)) /\ pending' = NoCall
           /\ UNCHANGED records
  <2>1. PICK X : /\ IsFiniteSet(X) /\ Cardinality(X) \in Nat /\ Owed' \subseteq Owed \cup X
                 /\ Cardinality(X) + Frail(audit') <= Frail(audit)
    BY <1>0, <1>1, <1>5, AppendsOwe
  <2>2. AllFaults' = AllFaults + 1
    BY <1>5, AllFaultsMove
  <2>3. Cardinality(X) + Frail(audit') + AllFaults <= Frail(audit) + AllFaults'
    BY <1>0, <2>1, <2>2
  <2> QED BY <1>0, <2>1, <2>2, <2>3, GapPays
<1>4. ASSUME Spend("tear"), NEW torn \in TornInto(audit, AuditLine(pending)), RestartWith(records, torn)
      PROVE  GapInv'
  <2>1. audit' = torn /\ records' = records /\ pending' = NoCall /\ AllFaults' = AllFaults + 2
    BY <1>4, AllFaultsMove DEF RestartWith
  <2>2. PICK X : /\ IsFiniteSet(X) /\ Cardinality(X) \in Nat /\ Owed' \subseteq Owed \cup X
                 /\ Cardinality(X) + Frail(audit') <= Frail(audit) + 2
    BY <1>0, <1>1, <2>1, AppendsOwe
  <2>3. Cardinality(X) + Frail(audit') + AllFaults <= Frail(audit) + AllFaults'
    BY <1>0, <2>1, <2>2
  <2> QED BY <1>0, <2>1, <2>2, <2>3, GapPays
<1> QED BY <1>2, <1>3, <1>4, <1>5 DEF RecordAuditEntry, Refusals

LEMMA GapStep == TypeInv /\ DecisionInv /\ GapInv /\ [Next]_vars => GapInv'
<1> SUFFICES ASSUME TypeInv, DecisionInv, GapInv, [Next]_vars PROVE GapInv'
  OBVIOUS
<1>0. /\ AllFaults \in Nat /\ Frail(audit) \in Nat /\ IsFiniteSet({}) /\ Cardinality({}) = 0
      /\ IsFiniteSet({pending.id}) /\ Cardinality({pending.id}) = 1
  <2>1. AllFaults \in Nat /\ Frail(audit) \in Nat
    BY AllFaultsMove, FrailTyped
  <2>2. IsFiniteSet({}) /\ Cardinality({}) = 0 /\ IsFiniteSet({pending.id}) /\ Cardinality({pending.id}) = 1
    BY AtMostOne
  <2> QED BY <2>1, <2>2
<1>1. ASSUME NEW c \in Checkpoints, CreateCheckpoint(c) PROVE GapInv'
  <2>1. checkpoints[c] = "none" /\ "none" \in Open /\ "PENDING_APPROVAL" \in States
    BY <1>1 DEF CreateCheckpoint, TypeInv, Open, States
  <2>2. Saves(c, "PENDING_APPROVAL")
    BY <1>1, <2>1 DEF CreateCheckpoint, Saves
  <2> QED BY <2>1, <2>2, SavesOwe
<1>2. ASSUME NEW c \in Checkpoints, NEW verdict \in Payloads \cup {"REJECTED"}, ResolveCheckpoint(c, verdict)
      PROVE  GapInv'
  <2>1. checkpoints[c] = "PENDING_APPROVAL" /\ "PENDING_APPROVAL" \in Open /\ c \in created
    BY <1>2 DEF ResolveCheckpoint, Resolvable, Open, TypeInv
  <2>2. \A s \in {"EXPIRED", verdict} : s \in States /\ s # "none"
    BY HitlAssumption DEF States, Closed, Open
  <2>3. PICK s \in {"EXPIRED", verdict} : Saves(c, s)
    BY <1>2, <2>1 DEF ResolveCheckpoint, Saves
  <2> QED BY <2>2, <2>3, SavesOwe
<1>3. CASE Crash
  <2>1. records' = records /\ audit' = audit /\ pending' = NoCall /\ AllFaults' = AllFaults + 1
    BY <1>3, AllFaultsMove DEF Crash, RestartWith
  <2>2. Owed' \subseteq Owed \cup {pending.id}
    BY <2>1 DEF Owed, Unaudited, Audited
  <2> QED BY <1>0, <2>1, <2>2, GapPays
<1>4. ASSUME UNCHANGED <<records, audit, pending, budget>> PROVE GapInv'
  <2>1. AllFaults' = AllFaults
    BY <1>4, AllFaultsMove
  <2>2. Owed' \subseteq Owed \cup {}
    BY <1>4 DEF Owed, Unaudited, Audited
  <2> QED BY <1>0, <1>4, <2>1, <2>2, GapPays
<1>5. ASSUME NEW c \in Checkpoints, VerifyResumeToken(c) \/ TimePasses(c) PROVE GapInv'
  BY <1>4, <1>5 DEF VerifyResumeToken, TimePasses, memory, files
<1>6. CASE UNCHANGED vars
  BY <1>4, <1>6 DEF vars, memory, files
<1> QED BY <1>1, <1>2, <1>3, <1>5, <1>6, RecordOwes DEF Next

(* After any crashes, refused and torn writes the audit log misses one     *)
(* decision per crash or refused write, two per torn line, and the one     *)
(* being recorded: no more are lost by an append that falls into a line    *)
(* without its newline.                                                    *)
THEOREM AuditGapsNeedFaultsAlways == Spec => []AuditGapsNeedFaults
<1>1. Init => GapInv
  <2> SUFFICES ASSUME Init PROVE GapInv
    OBVIOUS
  <2>1. TypeInv /\ records = <<>> /\ audit = <<>> /\ pending = NoCall
    BY TypeInit DEF Init
  <2>2. \A c : Loaded(records, c) = "none"
    BY <2>1, LoadedNone DEF Mine
  <2>3. Owed = {}
    BY <2>2, Disjoint DEF Owed, Unaudited, Open
  <2>4. Frail(audit) = 0
    BY <2>1 DEF Frail, Unended
  <2>5. AllFaults \in Nat /\ IsFiniteSet({}) /\ Cardinality({}) = 0
    BY <2>1, AllFaultsMove, FS_EmptySet
  <2> QED BY <2>3, <2>4, <2>5 DEF GapInv
<1>2. TypeInv /\ GapInv => AuditGapsNeedFaults
  <2> SUFFICES ASSUME TypeInv, GapInv PROVE AuditGapsNeedFaults
    OBVIOUS
  <2>1. /\ IsFiniteSet(Owed) /\ Cardinality(Owed) + Frail(audit) <= AllFaults /\ AllFaults \in Nat
        /\ Frail(audit) \in Nat /\ Cardinality(Owed) \in Nat
    BY AllFaultsMove, FrailTyped, FS_CardinalityType DEF GapInv
  <2>2. CASE pending = NoCall
    <3>1. Unaudited = Owed
      BY <2>2 DEF Owed
    <3>2. Cardinality(Unaudited) <= AllFaults + 0
      BY <2>1, <3>1
    <3> QED BY <2>2, <3>2 DEF AuditGapsNeedFaults, AllFaults
  <2>3. CASE pending # NoCall
    <3>1. Unaudited \subseteq Owed \cup {pending.id}
      BY <2>3 DEF Owed
    <3>2. Cardinality(Unaudited) \in Nat /\ Cardinality(Unaudited) <= Cardinality(Owed) + 1
      BY <2>1, <3>1, SetGrows
    <3>3. Cardinality(Unaudited) <= AllFaults + 1
      BY <2>1, <3>2
    <3> QED BY <2>3, <3>3 DEF AuditGapsNeedFaults, AllFaults
  <2> QED BY <2>2, <2>3
<1> QED BY <1>1, <1>2, TypeInit, TypeStep, DecisionInit, DecisionStep, GapStep, PTL DEF Spec

-----------------------------------------------------------------------------
(* The guards around the gateway, each the module that describes it, for   *)
(* all values of its constants.                                            *)

-----------------------------------------------------------------------------
(* The boundary: a request that was let through is either known or stale.  *)
Covered(m) == now > m.at + Age \/ \E e \in cache : e.nonce = m.nonce /\ e.expires >= m.at + Age
BoundaryInv ==
    /\ B!TypeOK /\ B!NoncesWereSigned
    /\ \A m \in Requests : passed[m] <= 1 /\ (passed[m] = 1 => Covered(m))

LEMMA ExpiresLate ==
    ASSUME B!GuardAssumption, now \in Nat, NEW m \in Requests
    PROVE  B!ExpiresAt(m) \in Nat /\ B!ExpiresAt(m) >= m.at + Age
<1>1. m.at \in Nat /\ Age \in Nat
  BY DEF B!GuardAssumption
<1>2. PICK x : x = B!Max({now, m.at})
  OBVIOUS
<1>3. \E y \in {now, m.at} : \A z \in {now, m.at} : y >= z
  BY <1>1
<1>4. x \in {now, m.at} /\ \A z \in {now, m.at} : x >= z
  BY <1>2, <1>3 DEF B!Max
<1> QED BY <1>1, <1>2, <1>4 DEF B!ExpiresAt

LEMMA BoundaryBegins == B!GuardAssumption /\ B!Init => BoundaryInv
<1> SUFFICES ASSUME B!GuardAssumption, B!Init PROVE BoundaryInv
  OBVIOUS
<1> QED BY DEF B!GuardAssumption, B!Init, BoundaryInv, B!TypeOK, B!NoncesWereSigned

LEMMA BoundaryStep ==
    ASSUME B!GuardAssumption, BoundaryInv, [B!Next]_(B!vars)
    PROVE  BoundaryInv'
<1>0. /\ Age \in Nat /\ Horizon \in Nat /\ (\A m \in Requests : m.at \in Nat)
      /\ now \in 1 .. Horizon /\ passed \in [Requests -> Nat] /\ verified \subseteq Requests
      /\ (\A n \in Requests : n.clean \in BOOLEAN)
      /\ (\A e \in cache : e.expires \in Nat /\ e.nonce \in {m.nonce : m \in Requests})
  BY DEF B!GuardAssumption, BoundaryInv, B!TypeOK
<1>1. CASE B!Tick
  <2>1. now' = now + 1 /\ now < Horizon /\ cache' = cache /\ passed' = passed /\ verified' = verified
    BY <1>1 DEF B!Tick
  <2>2. B!TypeOK' /\ B!NoncesWereSigned'
    BY <1>0, <2>1 DEF BoundaryInv, B!TypeOK, B!NoncesWereSigned
  <2>3. \A m \in Requests : Covered(m) => Covered(m)'
    BY <1>0, <2>1 DEF Covered
  <2> QED BY <2>1, <2>2, <2>3 DEF BoundaryInv
<1>2. ASSUME NEW m \in Requests, B!Receive(m) PROVE BoundaryInv'
  <2>1. PICK kept : kept = B!Pruned /\ kept = {e \in cache : e.expires >= now}
    BY DEF B!Pruned
  <2>2. /\ now' = now /\ now - m.at <= Age
        /\ \/ /\ m.genuine /\ ~ (\E e \in kept : e.nonce = m.nonce)
              /\ cache' = kept \cup {[nonce |-> m.nonce, expires |-> B!ExpiresAt(m)]}
              /\ verified' = verified \cup {m}
              /\ passed' = IF m.clean THEN [passed EXCEPT ![m] = @ + 1] ELSE passed
           \/ cache' = kept /\ passed' = passed /\ verified' = verified
    BY <1>0, <1>2, <2>1 DEF B!Receive, B!Stale, B!Admits, B!Knows
  <2>3. B!ExpiresAt(m) \in Nat /\ B!ExpiresAt(m) >= m.at + Age
    BY <1>0, ExpiresLate
  <2>4. \A n \in Requests : Covered(n) => Covered(n)'
    <3> SUFFICES ASSUME NEW n \in Requests, Covered(n) PROVE Covered(n)'
      OBVIOUS
    <3>1. CASE now > n.at + Age
      BY <2>2, <3>1 DEF Covered
    <3>2. ASSUME NEW e \in cache, e.nonce = n.nonce, e.expires >= n.at + Age PROVE Covered(n)'
      <4>1. CASE e \in kept
        BY <2>2, <3>2, <4>1 DEF Covered
      <4>2. CASE e \notin kept
        BY <1>0, <2>1, <2>2, <3>2, <4>2 DEF Covered
      <4> QED BY <4>1, <4>2
    <3> QED BY <3>1, <3>2 DEF Covered
  <2>5. CASE cache' = kept /\ passed' = passed /\ verified' = verified
    <3>1. B!TypeOK' /\ B!NoncesWereSigned'
      BY <1>0, <2>1, <2>2, <2>5 DEF BoundaryInv, B!TypeOK, B!NoncesWereSigned
    <3> QED BY <2>4, <2>5, <3>1 DEF BoundaryInv
  <2>6. CASE /\ m.genuine /\ ~ (\E e \in kept : e.nonce = m.nonce)
             /\ cache' = kept \cup {[nonce |-> m.nonce, expires |-> B!ExpiresAt(m)]}
             /\ verified' = verified \cup {m}
             /\ passed' = IF m.clean THEN [passed EXCEPT ![m] = @ + 1] ELSE passed
    <3>1. ~ Covered(m)
      BY <1>0, <2>1, <2>2, <2>6 DEF Covered
    <3>2. passed[m] = 0
      BY <1>0, <3>1 DEF BoundaryInv
    <3>3. \A n \in Requests : /\ passed'[n] \in Nat
                              /\ passed'[n] = IF n = m /\ m.clean THEN 1 ELSE passed[n]
      BY <1>0, <2>6, <3>2
    <3>4. PICK new : new = [nonce |-> m.nonce, expires |-> B!ExpiresAt(m)]
      OBVIOUS
    <3>5. new \in cache' /\ new.nonce = m.nonce /\ new.expires = B!ExpiresAt(m)
      BY <2>6, <3>4
    <3>6. Covered(m)'
      BY <2>3, <3>5 DEF Covered
    <3>7. \A e \in cache' : e \in kept \/ e = new
      BY <2>6, <3>4
    <3>8. B!TypeOK'
      BY <1>0, <2>1, <2>2, <2>3, <2>6, <3>3, <3>5, <3>7 DEF B!TypeOK
    <3>9. B!NoncesWereSigned'
      <4>0. /\ \A e \in cache : \E n \in verified : n.nonce = e.nonce
            /\ \A n \in verified : n.genuine /\ (n.clean => passed[n] > 0)
            /\ \A n \in Requests : passed[n] > 0 => n \in verified /\ n.clean
        BY DEF BoundaryInv, B!NoncesWereSigned
      <4>1. ASSUME NEW e \in cache' PROVE \E n \in verified' : n.nonce = e.nonce
        <5>1. CASE e = new
          BY <2>6, <3>5, <5>1
        <5>2. CASE e \in kept
          BY <2>1, <2>6, <4>0, <5>2
        <5> QED BY <3>7, <5>1, <5>2
      <4>2. ASSUME NEW n \in verified' PROVE n.genuine /\ (n.clean => passed'[n] > 0)
        <5>1. CASE n = m
          BY <2>6, <3>3, <5>1
        <5>2. CASE n # m
          BY <1>0, <2>6, <3>3, <4>0, <5>2
        <5> QED BY <5>1, <5>2
      <4>3. ASSUME NEW n \in Requests, passed'[n] > 0 PROVE n \in verified' /\ n.clean
        BY <1>0, <2>6, <3>3, <4>0, <4>3
      <4> QED BY <4>1, <4>2, <4>3 DEF B!NoncesWereSigned
    <3>10. \A n \in Requests : passed'[n] <= 1 /\ (passed'[n] = 1 => Covered(n)')
      <4> SUFFICES ASSUME NEW n \in Requests PROVE passed'[n] <= 1 /\ (passed'[n] = 1 => Covered(n)')
        OBVIOUS
      <4>1. CASE n = m
        BY <3>2, <3>3, <3>6, <4>1
      <4>2. CASE n # m
        <5>1. passed[n] <= 1 /\ (passed[n] = 1 => Covered(n))
          BY DEF BoundaryInv
        <5> QED BY <2>4, <3>3, <4>2, <5>1
      <4> QED BY <4>1, <4>2
    <3> QED BY <3>8, <3>9, <3>10 DEF BoundaryInv
  <2> QED BY <2>2, <2>5, <2>6
<1>3. CASE UNCHANGED B!vars
  BY <1>3 DEF B!vars, BoundaryInv, B!TypeOK, B!NoncesWereSigned, Covered
<1> QED BY <1>1, <1>2, <1>3 DEF B!Next

(* A signed request is let through at most once, however often and late    *)
(* copies of it arrive, whatever nonces were pruned and however full the   *)
(* cache is; and only a signed request uses up its nonce, which is then     *)
(* let through unless its body cannot be sanitised.                        *)
THEOREM PassedOnceAlways ==
    ASSUME B!GuardAssumption
    PROVE  B!Spec => [](B!TypeOK /\ B!PassedOnce /\ B!NoncesWereSigned)
<1>1. BoundaryInv => B!TypeOK /\ B!PassedOnce /\ B!NoncesWereSigned
  BY DEF BoundaryInv, B!PassedOnce
<1>2. B!Init => BoundaryInv
  BY BoundaryBegins
<1>3. BoundaryInv /\ [B!Next]_(B!vars) => BoundaryInv'
  BY BoundaryStep
<1> QED BY <1>1, <1>2, <1>3, PTL DEF B!Spec

-----------------------------------------------------------------------------
(* The route breaker: its count of failures is the streak, and unless it   *)
(* is open a cooldown has passed or a success has been reported since it   *)
(* opened.                                                                 *)
RouteInv ==
    /\ R!TypeOK
    /\ route.failures = streak
    /\ route.state = "OPEN" => streak >= Threshold /\ tripped = route.changed
    /\ route.state = "CLOSED" => tripped = 0 \/ healed
    /\ route.state = "HALF_OPEN" => tripped = 0 \/ healed \/ now - tripped >= Cooldown
    /\ route \in [state : {"CLOSED", "OPEN", "HALF_OPEN"}, failures : Nat, changed : Nat]

LEMMA RouteBegins == R!RouteAssumption /\ R!Init => RouteInv
<1> SUFFICES ASSUME R!RouteAssumption, R!Init PROVE RouteInv
  OBVIOUS
<1>1. Threshold \in Nat \ {0} /\ Cooldown \in Nat \ {0} /\ Horizon \in Nat \ {0}
  BY DEF R!RouteAssumption
<1>2. /\ now = 1 /\ route = [state |-> "CLOSED", failures |-> 0, changed |-> 1]
      /\ flying = {} /\ reports = 0 /\ streak = 0 /\ tripped = 0 /\ healed = FALSE
  BY DEF R!Init
<1>3. /\ route.state = "CLOSED" /\ route.failures = 0 /\ route.changed = 1
      /\ route \in [state : {"CLOSED", "OPEN", "HALF_OPEN"}, failures : Nat, changed : Nat]
  BY <1>2
<1>4. R!TypeOK
  <2>1. now \in 1 .. Horizon
    BY <1>1, <1>2
  <2>2. flying \subseteq Calls /\ streak \in Nat /\ healed \in BOOLEAN
    BY <1>2
  <2>3. route.changed \in 1 .. now /\ tripped \in 0 .. now
    BY <1>2, <1>3
  <2> QED BY <1>3, <2>1, <2>2, <2>3 DEF R!TypeOK
<1> QED BY <1>2, <1>3, <1>4 DEF RouteInv

(* What getRouteState shows: open only within the cooldown.                *)
LEMMA RouteShown ==
    ASSUME R!RouteAssumption, RouteInv, NEW r, r = R!RouteState
    PROVE  /\ r \in [state : {"CLOSED", "OPEN", "HALF_OPEN"}, failures : Nat, changed : Nat]
           /\ r.changed \in 1 .. now /\ r.failures = streak
           /\ r.state = "OPEN" => r = route
           /\ r.state = "CLOSED" => r = route
           /\ r.state = "HALF_OPEN" => tripped = 0 \/ healed \/ now - tripped >= Cooldown
           /\ r.state # "OPEN" => tripped = 0 \/ healed \/ now - tripped >= Cooldown
<1>0. /\ route \in [state : {"CLOSED", "OPEN", "HALF_OPEN"}, failures : Nat, changed : Nat]
      /\ now \in Nat /\ now >= 1 /\ tripped \in Nat /\ route.changed \in 1 .. now /\ Cooldown \in Nat
  BY DEF RouteInv, R!TypeOK, R!RouteAssumption
<1>1. CASE route.state = "OPEN" /\ now - route.changed >= Cooldown
  <2>1. r = [route EXCEPT !.state = "HALF_OPEN", !.changed = now]
    BY <1>1 DEF R!RouteState
  <2>2. tripped = route.changed
    BY <1>1 DEF RouteInv
  <2>3. r \in [state : {"CLOSED", "OPEN", "HALF_OPEN"}, failures : Nat, changed : Nat]
        /\ r.changed = now /\ r.failures = route.failures /\ r.state = "HALF_OPEN"
    BY <1>0, <2>1
  <2> QED BY <1>0, <1>1, <2>2, <2>3 DEF RouteInv
<1>2. CASE ~ (route.state = "OPEN" /\ now - route.changed >= Cooldown)
  <2>1. r = route
    BY <1>2 DEF R!RouteState
  <2> QED BY <1>0, <2>1 DEF RouteInv
<1> QED BY <1>1, <1>2

LEMMA RouteStep ==
    ASSUME R!RouteAssumption, RouteInv, [R!Next]_(R!vars)
    PROVE  RouteInv'
<1>0. /\ route \in [state : {"CLOSED", "OPEN", "HALF_OPEN"}, failures : Nat, changed : Nat]
      /\ now \in 1 .. Horizon /\ flying \subseteq Calls /\ streak \in Nat /\ healed \in BOOLEAN
      /\ route.changed \in 1 .. now /\ tripped \in 0 .. now
      /\ Threshold \in Nat /\ Cooldown \in Nat /\ Horizon \in Nat
  BY DEF RouteInv, R!TypeOK, R!RouteAssumption
<1>1. CASE R!Tick
  BY <1>0, <1>1 DEF R!Tick, RouteInv, R!TypeOK
<1>2. PICK r : r = R!RouteState
  OBVIOUS
<1>3. /\ r \in [state : {"CLOSED", "OPEN", "HALF_OPEN"}, failures : Nat, changed : Nat]
      /\ r.changed \in 1 .. now /\ r.failures = streak
      /\ r.state = "OPEN" => r = route
      /\ r.state = "CLOSED" => r = route
      /\ r.state = "HALF_OPEN" => tripped = 0 \/ healed \/ now - tripped >= Cooldown
  BY <1>2, RouteShown
<1>4. ASSUME NEW c \in Calls, R!CanAttempt(c) PROVE RouteInv'
  <2>1. /\ route' = r /\ UNCHANGED <<now, streak, tripped, healed>> /\ flying' \subseteq Calls
    BY <1>0, <1>2, <1>4 DEF R!CanAttempt
  <2> QED BY <1>0, <1>3, <2>1 DEF RouteInv, R!TypeOK
<1>5. ASSUME NEW c \in Calls, R!RecordSuccess(c) PROVE RouteInv'
  <2>1. /\ route' = [r EXCEPT !.state = "CLOSED", !.failures = 0,
                              !.changed = IF r.state = "CLOSED" THEN @ ELSE now]
        /\ UNCHANGED <<now, tripped>> /\ flying' \subseteq Calls /\ streak' = 0 /\ healed' = TRUE
    BY <1>0, <1>2, <1>5 DEF R!RecordSuccess, R!Closes
  <2>2. /\ route' \in [state : {"CLOSED", "OPEN", "HALF_OPEN"}, failures : Nat, changed : Nat]
        /\ route'.state = "CLOSED" /\ route'.failures = 0 /\ route'.changed \in 1 .. now
    <3>1. PICK time : time = IF r.state = "CLOSED" THEN r.changed ELSE now
      OBVIOUS
    <3>2. time \in Nat /\ time \in 1 .. now
      BY <1>0, <1>3, <3>1
    <3>3. route' = [r EXCEPT !.state = "CLOSED", !.failures = 0, !.changed = time]
      BY <2>1, <3>1
    <3> QED BY <1>3, <3>2, <3>3
  <2> QED BY <1>0, <2>1, <2>2 DEF RouteInv, R!TypeOK
<1>6. ASSUME NEW c \in Calls, R!RecordFailure(c) PROVE RouteInv'
  <2>1. /\ route' = IF R!Trips(r) THEN [state |-> "OPEN", failures |-> r.failures + 1, changed |-> now]
                    ELSE [r EXCEPT !.failures = @ + 1]
        /\ tripped' = IF R!Trips(r) THEN now ELSE tripped
        /\ healed'  = (healed /\ ~R!Trips(r))
        /\ streak' = streak + 1 /\ now' = now /\ flying' \subseteq Calls
    <3>1. flying' = flying \ {c} /\ streak' = streak + 1 /\ now' = now
      BY <1>6 DEF R!RecordFailure
    <3>2. /\ route' = IF R!Trips(r) THEN [state |-> "OPEN", failures |-> r.failures + 1, changed |-> now]
                      ELSE [r EXCEPT !.failures = @ + 1]
          /\ tripped' = IF R!Trips(r) THEN now ELSE tripped
      BY <1>2, <1>6 DEF R!RecordFailure
    <3>3. healed' = (healed /\ ~R!Trips(r))
      BY Zenon, <1>2, <1>6 DEF R!RecordFailure
    <3> QED BY <1>0, <3>1, <3>2, <3>3
  <2>2. CASE R!Trips(r)
    <3>1. route' = [state |-> "OPEN", failures |-> r.failures + 1, changed |-> now]
          /\ tripped' = now /\ healed' = FALSE /\ r.failures + 1 >= Threshold
      BY <2>1, <2>2 DEF R!Trips
    <3>2. /\ route' \in [state : {"CLOSED", "OPEN", "HALF_OPEN"}, failures : Nat, changed : Nat]
          /\ route'.state = "OPEN" /\ route'.failures = streak' /\ route'.changed = now
      BY <1>0, <1>3, <2>1, <3>1
    <3>3. R!TypeOK'
      BY <1>0, <2>1, <3>1, <3>2 DEF R!TypeOK
    <3> QED BY <1>0, <1>3, <2>1, <3>1, <3>2, <3>3 DEF RouteInv
  <2>3. CASE ~ R!Trips(r)
    <3>1. route' = [r EXCEPT !.failures = @ + 1] /\ tripped' = tripped /\ healed' = healed
      BY <1>0, <2>1, <2>3
    <3>2. /\ route' \in [state : {"CLOSED", "OPEN", "HALF_OPEN"}, failures : Nat, changed : Nat]
          /\ route'.state = r.state /\ route'.failures = streak' /\ route'.changed = r.changed
      BY <1>0, <1>3, <2>1, <3>1
    <3>3. R!TypeOK'
      BY <1>0, <1>3, <2>1, <3>1, <3>2 DEF R!TypeOK
    <3> QED BY <1>0, <1>3, <2>1, <3>1, <3>2, <3>3 DEF RouteInv
  <2> QED BY <2>2, <2>3
<1>7. CASE UNCHANGED R!vars
  BY <1>7 DEF R!vars, RouteInv, R!TypeOK
<1> QED BY <1>1, <1>4, <1>5, <1>6, <1>7 DEF R!Next

LEMMA RouteBegunLate ==
    ASSUME R!RouteAssumption, RouteInv, [R!Next]_(R!vars), NEW c \in Calls, c \in flying' \ flying
    PROVE  tripped = 0 \/ healed \/ now - tripped >= Cooldown
<1>1. PICK r : r = R!RouteState
  OBVIOUS
<1>2. PICK d \in Calls : R!CanAttempt(d)
  BY DEF R!Next, R!vars, R!Tick, R!RecordSuccess, R!RecordFailure
<1>3. r.state # "OPEN"
  BY <1>1, <1>2 DEF R!CanAttempt
<1> QED BY <1>1, <1>3, RouteShown

(* A route is open only after as many failures as the threshold,           *)
(* without a success between them, and no call begins within the cooldown  *)
(* unless a call begun before has reported a success since, whichever calls*)
(* are in flight and in whatever order their answers come.                 *)
THEOREM RouteWaits ==
    ASSUME R!RouteAssumption
    PROVE  R!Spec => []R!TripsNeedStreak /\ R!CooldownHolds
<1>1. RouteInv => R!TripsNeedStreak
  BY DEF RouteInv, R!TripsNeedStreak
<1>2. R!Init => RouteInv
  BY RouteBegins
<1>3. RouteInv /\ [R!Next]_(R!vars) => RouteInv'
  BY RouteStep
<1>4. RouteInv /\ [R!Next]_(R!vars) =>
        [\A c \in Calls : c \in flying' \ flying =>
           tripped = 0 \/ healed \/ now - tripped >= Cooldown]_(R!vars)
  BY RouteBegunLate
<1> QED BY <1>1, <1>2, <1>3, <1>4, PTL DEF R!Spec, R!CooldownHolds

-----------------------------------------------------------------------------
(* The provider's circuit: unless it is open, a cooldown has passed since  *)
(* it was last opened or kept open, and a half-open one has counted no     *)
(* more successes than were reported since.                                *)
Circuits == [state : {"closed", "open", "half_open"}, failures : Nat, successes : Nat, openedAt : Nat]
Cooled   == opened = 0 \/ now - opened >= Cooldown

CircuitInv ==
    /\ P!TypeOK /\ circuit \in Circuits
    /\ circuit.state = "open" => circuit.openedAt = opened
    /\ circuit.state # "open" => Cooled
    /\ circuit.state = "half_open" => circuit.successes <= proof

LEMMA CircuitBegins == P!ProviderAssumption /\ P!Init => CircuitInv
<1> SUFFICES ASSUME P!ProviderAssumption, P!Init PROVE CircuitInv
  OBVIOUS
<1>1. Horizon \in Nat \ {0}
  BY DEF P!ProviderAssumption
<1>2. /\ now = 1 /\ flying = {} /\ opened = 0 /\ proof = 0
      /\ circuit = [state |-> "closed", failures |-> 0, successes |-> 0, openedAt |-> 0]
  BY DEF P!Init, P!Fresh
<1>3. circuit \in Circuits /\ circuit.state = "closed"
  BY <1>2 DEF Circuits
<1>4. now \in 1 .. Horizon /\ flying \subseteq Calls /\ opened \in 0 .. now /\ proof \in Nat
  BY <1>1, <1>2
<1>5. circuit.failures \in Nat /\ circuit.successes \in Nat /\ circuit.openedAt \in 0 .. now
  BY <1>2
<1>6. P!TypeOK
  BY <1>3, <1>4, <1>5 DEF P!TypeOK
<1> QED BY <1>2, <1>3, <1>6 DEF CircuitInv, Cooled

(* What read shows: half open as soon as the cooldown has passed.          *)
LEMMA CircuitShown ==
    ASSUME P!ProviderAssumption, CircuitInv, NEW r, r = P!Read
    PROVE  /\ r \in Circuits /\ r.openedAt \in 0 .. now
           /\ r.state = "open" => circuit.state = "open" /\ r.openedAt = opened
           /\ r.state # "open" => Cooled
           /\ r.state = "half_open" => r.successes <= proof
           /\ r.state = "closed" => circuit.state = "closed"
<1>0. /\ circuit \in Circuits /\ now \in Nat /\ opened \in Nat /\ proof \in Nat
      /\ circuit.openedAt \in 0 .. now /\ Cooldown \in Nat
  BY DEF CircuitInv, P!TypeOK, P!ProviderAssumption
<1>1. CASE circuit.state = "open" /\ now - circuit.openedAt >= Cooldown
  <2>1. r = [circuit EXCEPT !.state = "half_open", !.successes = 0]
    BY <1>1 DEF P!Read
  <2>2. r \in Circuits /\ r.state = "half_open" /\ r.successes = 0 /\ r.openedAt = circuit.openedAt
    <3>1. r = [state |-> "half_open", failures |-> circuit.failures, successes |-> 0, openedAt |-> circuit.openedAt]
      BY <1>0, <2>1 DEF Circuits
    <3>2. circuit.failures \in Nat /\ circuit.openedAt \in Nat
      BY <1>0 DEF Circuits
    <3> QED BY <3>1, <3>2 DEF Circuits
  <2>3. now - opened >= Cooldown
    BY <1>1 DEF CircuitInv
  <2> QED BY <1>0, <2>2, <2>3 DEF Cooled
<1>2. CASE ~ (circuit.state = "open" /\ now - circuit.openedAt >= Cooldown)
  <2>1. r = circuit
    BY <1>2 DEF P!Read
  <2> QED BY <1>0, <2>1 DEF CircuitInv
<1> QED BY <1>1, <1>2

LEMMA CircuitStep ==
    ASSUME P!ProviderAssumption, CircuitInv, [P!Next]_(P!vars)
    PROVE  /\ CircuitInv'
           /\ circuit.state \in {"open", "half_open"} /\ circuit'.state = "closed" /\ opened' # 0
                => proof' >= Successes
<1>0. /\ circuit \in Circuits
      /\ now \in 1 .. Horizon /\ flying \subseteq Calls /\ opened \in 0 .. now /\ proof \in Nat
      /\ circuit.openedAt \in 0 .. now
      /\ Threshold \in Nat /\ Successes \in Nat /\ Cooldown \in Nat /\ Horizon \in Nat
  BY DEF CircuitInv, P!TypeOK, P!ProviderAssumption
<1>1. CASE P!Tick
  <2>1. now' = now + 1 /\ now' \in 1 .. Horizon /\ UNCHANGED <<circuit, flying, reports, opened, proof>>
    BY <1>0, <1>1 DEF P!Tick
  <2>2. Cooled => Cooled'
    BY <1>0, <2>1 DEF Cooled
  <2>3. P!TypeOK'
    BY <1>0, <2>1 DEF CircuitInv, P!TypeOK
  <2> QED BY <2>1, <2>2, <2>3 DEF CircuitInv
<1>2. PICK r : r = P!Read
  OBVIOUS
<1>3. /\ r \in Circuits /\ r.openedAt \in 0 .. now
      /\ r.state = "open" => circuit.state = "open" /\ r.openedAt = opened
      /\ r.state # "open" => Cooled
      /\ r.state = "half_open" => r.successes <= proof
      /\ r.state = "closed" => circuit.state = "closed"
  BY <1>2, CircuitShown
<1>4. ASSUME NEW x \in Circuits, circuit' = x, x.openedAt \in 0 .. now',
             now' = now, flying' \subseteq Calls, opened' \in 0 .. now, proof' \in Nat
      PROVE  P!TypeOK' /\ circuit' \in Circuits
  BY <1>0, <1>4 DEF P!TypeOK, Circuits
<1>5. ASSUME NEW c \in Calls, P!CanRequest(c)
      PROVE  CircuitInv' /\ circuit' = r /\ opened' = opened
  <2>1. circuit' = r /\ flying' \subseteq Calls /\ UNCHANGED <<now, reports, opened, proof>>
    BY <1>0, <1>2, <1>5 DEF P!CanRequest
  <2>2. P!TypeOK' /\ circuit' \in Circuits
    BY <1>0, <1>3, <1>4, <2>1
  <2> QED BY <1>3, <2>1, <2>2 DEF CircuitInv, Cooled
<1>6. ASSUME NEW c \in Calls, P!RecordSuccess(c)
      PROVE  /\ CircuitInv'
             /\ circuit.state \in {"open", "half_open"} /\ circuit'.state = "closed" => proof' >= Successes
  <2>1. PICK s : s = [r EXCEPT !.failures = 0, !.successes = @ + 1]
    OBVIOUS
  <2>2. /\ s \in Circuits /\ s.state = r.state /\ s.successes = r.successes + 1 /\ s.openedAt = r.openedAt
        /\ s.successes \in Nat
    <3>1. /\ r.state \in {"closed", "open", "half_open"}
          /\ r.failures \in Nat /\ r.successes \in Nat /\ r.openedAt \in Nat
      BY <1>3 DEF Circuits
    <3>2. s = [state |-> r.state, failures |-> 0, successes |-> r.successes + 1, openedAt |-> r.openedAt]
      BY <1>3, <2>1 DEF Circuits
    <3> QED BY <3>1, <3>2 DEF Circuits
  <2>3. PICK closed : closed = [s EXCEPT !.state = "closed", !.successes = 0, !.openedAt = 0]
    OBVIOUS
  <2>4. closed \in Circuits /\ closed.state = "closed" /\ closed.openedAt = 0
    BY <2>2, <2>3 DEF Circuits
  <2>5. /\ circuit' = IF s.state = "half_open" /\ s.successes >= Successes THEN closed ELSE s
        /\ proof' = IF s.state = "open" THEN 0 ELSE proof + 1
        /\ now' = now /\ opened' = opened /\ flying' \subseteq Calls
    BY <1>0, <1>2, <1>6, <2>1, <2>3 DEF P!RecordSuccess
  <2>6. proof' \in Nat /\ opened' \in 0 .. now /\ 0 \in 0 .. now'
    BY <1>0, <2>5
  <2>7. CASE s.state = "half_open" /\ s.successes >= Successes
    <3>0. r.successes <= proof /\ r.successes \in Nat
      BY <1>3, <2>2, <2>7 DEF Circuits
    <3>1. circuit' = closed /\ proof' = proof + 1 /\ proof' >= Successes
      BY <1>0, <2>2, <2>5, <2>7, <3>0
    <3>2. P!TypeOK' /\ circuit' \in Circuits
      BY <1>4, <2>4, <2>5, <2>6, <3>1
    <3>3. Cooled'
      BY <1>3, <2>2, <2>5, <2>7 DEF Cooled
    <3> QED BY <2>4, <3>1, <3>2, <3>3 DEF CircuitInv
  <2>8. CASE ~ (s.state = "half_open" /\ s.successes >= Successes)
    <3>1. circuit' = s
      BY <2>5, <2>8
    <3>2. P!TypeOK' /\ circuit' \in Circuits
      BY <1>3, <1>4, <2>2, <2>5, <2>6, <3>1
    <3>3. circuit'.state # "open" => Cooled'
      BY <1>3, <2>2, <2>5, <3>1 DEF Cooled
    <3>4. circuit'.state = "half_open" => circuit'.successes <= proof'
      BY <1>0, <1>3, <2>2, <2>5, <3>1 DEF Circuits
    <3>5. circuit'.state = "closed" => circuit.state = "closed"
      BY <1>3, <2>2, <3>1
    <3>6. circuit'.state = "open" => circuit'.openedAt = opened'
      BY <1>3, <2>2, <2>5, <3>1
    <3> QED BY <3>2, <3>3, <3>4, <3>5, <3>6 DEF CircuitInv
  <2> QED BY <2>7, <2>8
<1>7. ASSUME NEW c \in Calls, P!RecordFailure(c)
      PROVE  CircuitInv' /\ (circuit'.state = "closed" => circuit.state = "closed")
  <2>1. PICK s : s = [r EXCEPT !.failures = @ + 1, !.successes = 0]
    OBVIOUS
  <2>2. s \in Circuits /\ s.state = r.state /\ s.successes = 0 /\ s.openedAt = r.openedAt
    <3>1. /\ r.state \in {"closed", "open", "half_open"}
          /\ r.failures \in Nat /\ r.successes \in Nat /\ r.openedAt \in Nat
      BY <1>3 DEF Circuits
    <3>2. s = [state |-> r.state, failures |-> r.failures + 1, successes |-> 0, openedAt |-> r.openedAt]
      BY <1>3, <2>1 DEF Circuits
    <3> QED BY <3>1, <3>2 DEF Circuits
  <2>3. PICK open : open = [s EXCEPT !.state = "open", !.openedAt = now]
    OBVIOUS
  <2>4. open \in Circuits /\ open.state = "open" /\ open.openedAt = now
    <3>1. open = [state |-> "open", failures |-> s.failures, successes |-> s.successes, openedAt |-> now]
      BY <2>2, <2>3 DEF Circuits
    <3>2. s.failures \in Nat /\ s.successes \in Nat /\ now \in Nat
      BY <1>0, <2>2 DEF Circuits
    <3> QED BY <3>1, <3>2 DEF Circuits
  <2>5. /\ circuit' = IF P!Reopens(r) THEN open ELSE s
        /\ opened' = IF P!Reopens(r) THEN now ELSE opened
        /\ proof' = 0 /\ now' = now /\ flying' \subseteq Calls
    BY <1>0, <1>2, <1>7, <2>1, <2>3 DEF P!RecordFailure
  <2>6. proof' \in Nat /\ opened' \in 0 .. now /\ now \in 0 .. now'
    BY <1>0, <2>5
  <2>7. CASE P!Reopens(r)
    <3>1. circuit' = open /\ opened' = now
      BY <2>5, <2>7
    <3>2. P!TypeOK' /\ circuit' \in Circuits
      BY <1>4, <2>4, <2>5, <2>6, <3>1
    <3> QED BY <2>4, <3>1, <3>2 DEF CircuitInv
  <2>8. CASE ~ P!Reopens(r)
    <3>1. circuit' = s /\ opened' = opened /\ r.state # "half_open"
      BY <2>5, <2>8 DEF P!Reopens
    <3>2. P!TypeOK' /\ circuit' \in Circuits
      BY <1>3, <1>4, <2>2, <2>5, <2>6, <3>1
    <3>3. circuit'.state # "open" => Cooled'
      BY <1>3, <2>2, <2>5, <3>1 DEF Cooled
    <3>4. /\ circuit'.state = "open" => circuit'.openedAt = opened'
          /\ circuit'.state # "half_open"
          /\ circuit'.state = "closed" => circuit.state = "closed"
      BY <1>3, <2>2, <3>1
    <3> QED BY <3>2, <3>3, <3>4 DEF CircuitInv
  <2> QED BY <2>7, <2>8
<1>8. CASE P!Reset
  <2>1. /\ circuit' = [state |-> "closed", failures |-> 0, successes |-> 0, openedAt |-> 0]
        /\ opened' = 0 /\ proof' = 0 /\ UNCHANGED <<now, flying, reports>>
    BY <1>8 DEF P!Reset, P!Fresh
  <2>2. circuit' \in Circuits /\ circuit'.state = "closed" /\ circuit'.openedAt = 0
    BY <2>1 DEF Circuits
  <2>3. opened' \in 0 .. now /\ proof' \in Nat /\ circuit'.openedAt \in 0 .. now'
    BY <1>0, <2>1, <2>2
  <2>4. P!TypeOK'
    BY <1>0, <1>4, <2>1, <2>2, <2>3
  <2> QED BY <2>1, <2>2, <2>4 DEF CircuitInv, Cooled
<1>9. CASE UNCHANGED P!vars
  BY <1>9 DEF P!vars, CircuitInv, P!TypeOK, Cooled
<1>10. ASSUME P!Tick \/ UNCHANGED P!vars PROVE circuit' = circuit
  BY <1>10 DEF P!Tick, P!vars
<1>11. ASSUME NEW c \in Calls, P!CanRequest(c)
       PROVE  circuit'.state = "closed" => circuit.state = "closed"
  BY <1>3, <1>5, <1>11
<1> QED BY <1>1, <1>5, <1>6, <1>7, <1>8, <1>9, <1>10, <1>11 DEF P!Next, P!Reset

LEMMA CircuitBegunLate ==
    ASSUME P!ProviderAssumption, CircuitInv, [P!Next]_(P!vars), NEW c \in Calls, c \in flying' \ flying
    PROVE  opened = 0 \/ now - opened >= Cooldown
<1>1. PICK r : r = P!Read
  OBVIOUS
<1>2. PICK d \in Calls : P!CanRequest(d)
  BY DEF P!Next, P!vars, P!Tick, P!Reset, P!RecordSuccess, P!RecordFailure
<1>3. r.state # "open"
  BY <1>1, <1>2 DEF P!CanRequest
<1> QED BY <1>1, <1>3, CircuitShown DEF Cooled

(* No call to a provider begins before the cooldown of its open circuit    *)
(* is over, and the circuit closes only on as many successes in a row as   *)
(* it asks for.                                                            *)
THEOREM CircuitWaits ==
    ASSUME P!ProviderAssumption
    PROVE  P!Spec => P!CooldownHolds /\ P!ClosesOnProof
<1>1. P!Init => CircuitInv
  BY CircuitBegins
<1>2. CircuitInv /\ [P!Next]_(P!vars) => CircuitInv'
  BY CircuitStep
<1>3. CircuitInv /\ [P!Next]_(P!vars) =>
        [\A c \in Calls : c \in flying' \ flying => opened = 0 \/ now - opened >= Cooldown]_(P!vars)
  BY CircuitBegunLate
<1>4. CircuitInv /\ [P!Next]_(P!vars) =>
        [circuit.state \in {"open", "half_open"} /\ circuit'.state = "closed" /\ opened' # 0
           => proof' >= Successes]_(P!vars)
  BY CircuitStep
<1> QED BY <1>1, <1>2, <1>3, <1>4, PTL DEF P!Spec, P!CooldownHolds, P!ClosesOnProof

-----------------------------------------------------------------------------
(* The cost switch: what a session has cost and may still cost by the      *)
(* calls in flight stays within its limit and one call of every caller.    *)
Flying(s) == {c \in Calls : call[c].session = s}
CostInv ==
    /\ session \in [Sessions -> Nat] /\ owed = session
    /\ DOMAIN call = Calls /\ \A c \in Calls : call[c] = C!NoCall \/ call[c].session \in Sessions
    /\ \A s \in Sessions :
          session[s] + Cardinality(Flying(s)) * MaxCost <= SessionLimit + Cardinality(Calls) * MaxCost

LEMMA Products ==
    \A a, b, m \in Nat : /\ a <= b => a * m <= b * m
                         /\ (a + 1) * m = a * m + m
                         /\ a * m \in Nat
<1>1. \A a, m \in Nat : a * m \in Nat /\ (a + 1) * m = a * m + m
  OBVIOUS
<1>2. ASSUME NEW a \in Nat, NEW b \in Nat, NEW m \in Nat, a <= b PROVE a * m <= b * m
  <2>1. PICK d \in Nat : b = a + d
    <3>1. b - a \in Nat /\ b = a + (b - a)
      BY <1>2
    <3> QED BY <3>1
  <2>2. b * m = a * m + d * m /\ d * m \in Nat /\ a * m \in Nat
    BY <2>1
  <2> QED BY <2>2
<1> QED BY <1>1, <1>2

LEMMA FlyingIsFinite ==
    ASSUME IsFiniteSet(Calls), NEW s
    PROVE  /\ IsFiniteSet(Flying(s)) /\ Cardinality(Flying(s)) \in Nat /\ Cardinality(Calls) \in Nat
           /\ Cardinality(Flying(s)) <= Cardinality(Calls)
<1>1. Flying(s) \subseteq Calls
  BY DEF Flying
<1> QED BY <1>1, FS_Subset, FS_CardinalityType

LEMMA CostBegins == C!SwitchAssumption /\ IsFiniteSet(Calls) /\ C!Init => CostInv
<1> SUFFICES ASSUME C!SwitchAssumption, IsFiniteSet(Calls), C!Init PROVE CostInv
  OBVIOUS
<1>1. /\ session = [s \in Sessions |-> 0] /\ owed = [s \in Sessions |-> 0]
      /\ call = [c \in Calls |-> [session |-> None, estimate |-> 0]]
  BY DEF C!Init, C!NoCall
<1>2. None \notin Sessions /\ SessionLimit \in Nat /\ MaxCost \in Nat
  BY DEF C!SwitchAssumption
<1>3. ASSUME NEW s \in Sessions
      PROVE  session[s] + Cardinality(Flying(s)) * MaxCost <= SessionLimit + Cardinality(Calls) * MaxCost
  <2>1. Flying(s) = {}
    BY <1>1, <1>2 DEF Flying
  <2>2. Cardinality(Flying(s)) = 0
    BY <2>1, FS_EmptySet
  <2>3. Cardinality(Calls) \in Nat /\ Cardinality(Calls) * MaxCost \in Nat
    BY <1>2, FlyingIsFinite, Products
  <2>4. session[s] = 0 /\ 0 * MaxCost = 0
    BY <1>1, <1>2
  <2> QED BY <1>2, <2>2, <2>3, <2>4
<1> QED BY <1>1, <1>2, <1>3 DEF CostInv, C!NoCall

LEMMA CostStep ==
    ASSUME C!SwitchAssumption, IsFiniteSet(Calls), CostInv, [C!Next]_(C!vars)
    PROVE  CostInv'
<1>0. /\ None \notin Sessions /\ SessionLimit \in Nat /\ MaxCost \in Nat /\ RequestLimit \in Nat
      /\ session \in [Sessions -> Nat] /\ owed = session /\ DOMAIN call = Calls
      /\ \A c \in Calls : call[c] = C!NoCall \/ call[c].session \in Sessions
  BY DEF C!SwitchAssumption, CostInv
<1>1. PICK n \in Nat : n = Cardinality(Calls)
  BY FlyingIsFinite
<1>2. \A s \in Sessions : session[s] + Cardinality(Flying(s)) * MaxCost <= SessionLimit + n * MaxCost
  BY <1>1 DEF CostInv
<1>3. n * MaxCost \in Nat
  BY <1>0, <1>1, Products
<1>4. ASSUME NEW s \in Sessions, session'[s] \in Nat, session'[s] <= SessionLimit
      PROVE  session'[s] + Cardinality(Flying(s))' * MaxCost <= SessionLimit + n * MaxCost
  <2>1. PICK k \in Nat : k = Cardinality(Flying(s))' /\ k <= n
    <3>1. PICK now1 : now1 = Flying(s)'
      OBVIOUS
    <3>2. now1 \subseteq Calls
      BY <3>1 DEF Flying
    <3>3. Cardinality(now1) \in Nat /\ Cardinality(now1) <= n
      BY <1>1, <3>2, FS_Subset, FS_CardinalityType
    <3> QED BY <3>1, <3>3
  <2>2. k * MaxCost \in Nat /\ k * MaxCost <= n * MaxCost
    BY <1>0, <2>1, Products
  <2> QED BY <1>0, <1>3, <1>4, <2>1, <2>2
<1>5. CASE C!Tick \/ UNCHANGED C!vars
  <2>1. UNCHANGED <<session, owed, call>>
    BY <1>5 DEF C!Tick, C!vars
  <2> QED BY <2>1 DEF CostInv, Flying, C!NoCall
<1>6. ASSUME NEW c \in Calls, NEW s \in Sessions, NEW e \in 0 .. RequestLimit + 1, C!CheckPreflight(c, s, e)
      PROVE  CostInv'
  <2>1. session' = session /\ owed' = owed
    BY <1>6 DEF C!CheckPreflight
  <2>2. CASE call' = call
    BY <2>1, <2>2 DEF CostInv, Flying, C!NoCall
  <2>3. CASE call' # call
    <3>1. C!Fits(s, e) /\ call[c] = C!NoCall /\ call' = [call EXCEPT ![c] = [session |-> s, estimate |-> e]]
      BY <1>6, <2>3 DEF C!CheckPreflight
    <3>2. session[s] <= SessionLimit
      <4>1. session[s] + e <= SessionLimit /\ session[s] \in Nat /\ e \in Nat
        BY <1>0, <3>1 DEF C!Fits
      <4> QED BY <1>0, <4>1
    <3>3. ASSUME NEW t \in Sessions
          PROVE  session'[t] + Cardinality(Flying(t))' * MaxCost <= SessionLimit + n * MaxCost
      <4>1. CASE t = s
        BY <1>0, <1>4, <2>1, <3>2, <4>1
      <4>2. CASE t # s
        <5>1. Flying(t)' = Flying(t)
          BY <1>0, <3>1, <4>2 DEF Flying, C!NoCall
        <5> QED BY <1>2, <2>1, <5>1
      <4> QED BY <4>1, <4>2
    <3>4. DOMAIN call' = Calls /\ \A d \in Calls : call'[d] = C!NoCall \/ call'[d].session \in Sessions
      BY <1>0, <3>1
    <3> QED BY <1>0, <1>1, <2>1, <3>3, <3>4 DEF CostInv, C!NoCall
  <2> QED BY <2>2, <2>3
<1>7. ASSUME NEW c \in Calls, NEW cost \in 0 .. MaxCost, C!RecordExecutionCost(c, cost)
      PROVE  CostInv'
  <2>1. PICK s : s = call[c].session
    OBVIOUS
  <2>2. /\ call[c] # C!NoCall /\ session' = [session EXCEPT ![s] = @ + cost]
        /\ owed' = [owed EXCEPT ![s] = @ + cost] /\ call' = [call EXCEPT ![c] = C!NoCall]
    BY <1>7, <2>1 DEF C!RecordExecutionCost, C!Records
  <2>3. s \in Sessions
    BY <1>0, <2>1, <2>2
  <2>4. session' \in [Sessions -> Nat] /\ owed' = session'
    BY <1>0, <2>2, <2>3
  <2>5. ASSUME NEW t \in Sessions
        PROVE  session'[t] + Cardinality(Flying(t))' * MaxCost <= SessionLimit + n * MaxCost
    <3>1. CASE t = s
      <4>1. PICK before, after : before = Flying(s) /\ after = Flying(s)'
        OBVIOUS
      <4>2. after = before \ {c} /\ c \in before
        BY <1>0, <2>1, <2>2, <2>3, <4>1 DEF Flying, C!NoCall
      <4>3. IsFiniteSet(before) /\ Cardinality(before) \in Nat
        BY <4>1, FlyingIsFinite
      <4>4. Cardinality(after) = Cardinality(before) - 1
        BY <4>2, <4>3, FS_RemoveElement
      <4>5. PICK k \in Nat : k = Cardinality(after) /\ k + 1 = Cardinality(before)
        <5>1. Cardinality(after) \in Nat
          <6>1. IsFiniteSet(after)
            BY <4>2, <4>3, FS_RemoveElement
          <6> QED BY <6>1, FS_CardinalityType
        <5> QED BY <4>3, <4>4, <5>1
      <4>6. session[s] + (k + 1) * MaxCost <= SessionLimit + n * MaxCost
        BY <1>2, <2>3, <4>1, <4>5
      <4>7. (k + 1) * MaxCost = k * MaxCost + MaxCost /\ k * MaxCost \in Nat
        BY <1>0, Products
      <4>8. session'[s] = session[s] + cost /\ session[s] \in Nat /\ cost \in Nat /\ cost <= MaxCost
        BY <1>0, <2>2, <2>3
      <4>9. session'[s] + k * MaxCost <= SessionLimit + n * MaxCost
        BY <1>0, <1>3, <4>6, <4>7, <4>8
      <4> QED BY <3>1, <4>1, <4>5, <4>9
    <3>2. CASE t # s
      <4>1. session'[t] = session[t]
        BY <1>0, <2>2, <2>3, <3>2
      <4>2. Flying(t)' = Flying(t)
        BY <1>0, <2>1, <2>2, <3>2 DEF Flying, C!NoCall
      <4> QED BY <1>2, <4>1, <4>2
    <3> QED BY <3>1, <3>2
  <2>6. DOMAIN call' = Calls /\ \A d \in Calls : call'[d] = C!NoCall \/ call'[d].session \in Sessions
    BY <1>0, <2>2
  <2> QED BY <1>1, <2>4, <2>5, <2>6 DEF CostInv, C!NoCall
<1>8. ASSUME NEW s \in Sessions, C!Reset(s) PROVE CostInv'
  <2>1. /\ session' = [session EXCEPT ![s] = 0] /\ owed' = [owed EXCEPT ![s] = 0] /\ call' = call
    BY <1>8 DEF C!Reset
  <2>2. session' \in [Sessions -> Nat] /\ owed' = session'
    BY <1>0, <2>1
  <2>3. ASSUME NEW t \in Sessions
        PROVE  session'[t] + Cardinality(Flying(t))' * MaxCost <= SessionLimit + n * MaxCost
    <3>1. CASE t = s
      <4>1. session'[t] = 0
        BY <1>0, <2>1, <3>1
      <4> QED BY <1>0, <1>4, <4>1
    <3>2. CASE t # s
      <4>1. session'[t] = session[t] /\ Flying(t)' = Flying(t)
        BY <1>0, <2>1, <3>2 DEF Flying
      <4> QED BY <1>2, <4>1
    <3> QED BY <3>1, <3>2
  <2> QED BY <1>0, <1>1, <2>1, <2>2, <2>3 DEF CostInv, C!NoCall
<1>9. CASE C!ResetAll
  <2>1. session' = [s \in Sessions |-> 0] /\ owed' = [s \in Sessions |-> 0] /\ call' = call
    BY <1>9 DEF C!ResetAll
  <2>2. ASSUME NEW t \in Sessions
        PROVE  session'[t] + Cardinality(Flying(t))' * MaxCost <= SessionLimit + n * MaxCost
    <3>1. session'[t] = 0
      BY <2>1
    <3> QED BY <1>0, <1>4, <3>1
  <2>3. session' \in [Sessions -> Nat] /\ owed' = session'
    BY <2>1
  <2>4. DOMAIN call' = Calls /\ \A d \in Calls : call'[d] = C!NoCall \/ call'[d].session \in Sessions
    BY <1>0, <2>1
  <2> QED BY <1>1, <2>2, <2>3, <2>4 DEF CostInv, C!NoCall
<1> QED BY <1>5, <1>6, <1>7, <1>8, <1>9 DEF C!Next

(* What a session has cost exceeds its limit by no more than one call of   *)
(* each caller: checks before the call and the cost after it, whatever     *)
(* calls run between the two.                                              *)
THEOREM SessionWithinAlways ==
    ASSUME C!SwitchAssumption, IsFiniteSet(Calls)
    PROVE  C!Spec => []C!SessionWithin
<1>1. CostInv => C!SessionWithin
  <2> SUFFICES ASSUME CostInv, NEW s \in Sessions
               PROVE  owed[s] <= SessionLimit + Cardinality(Calls) * MaxCost
    <3>1. C!Overshoot = Cardinality(Calls) * MaxCost
      <4>1. C!Cardinality(Calls) = Cardinality(Calls)
        BY DEF C!Cardinality, Cardinality
      <4> QED BY <4>1 DEF C!Overshoot
    <3> QED BY <3>1 DEF C!SessionWithin
  <2>1. PICK k \in Nat, n \in Nat : k = Cardinality(Flying(s)) /\ n = Cardinality(Calls)
    BY FlyingIsFinite
  <2>2. MaxCost \in Nat /\ SessionLimit \in Nat /\ session[s] \in Nat /\ owed[s] = session[s]
    BY DEF CostInv, C!SwitchAssumption
  <2>3. k * MaxCost \in Nat /\ n * MaxCost \in Nat
    BY <2>1, <2>2, Products
  <2>4. session[s] + k * MaxCost <= SessionLimit + n * MaxCost
    BY <2>1 DEF CostInv
  <2>5. owed[s] <= SessionLimit + n * MaxCost
    BY <2>2, <2>3, <2>4
  <2> QED BY <2>1, <2>5
<1>2. C!Init => CostInv
  BY CostBegins
<1>3. CostInv /\ [C!Next]_(C!vars) => CostInv'
  BY CostStep
<1> QED BY <1>1, <1>2, <1>3, PTL DEF C!Spec

-----------------------------------------------------------------------------
(* The hour.  spent is an account: what was spent until each time, which   *)
(* does not grow after now.  hourly is the same account cut at some time   *)
(* an hour ago or earlier, so cutting it again leaves what was spent in    *)
(* the last hour; and that, with what the calls in flight may cost, stays  *)
(* within the limit and one call of every caller.                          *)
Underway == {c \in Calls : call[c] # C!NoCall}
Grows(f) ==
    /\ f \in [0 .. CostHorizon -> Nat] /\ f[0] = 0
    /\ \A i, j \in 0 .. CostHorizon : i <= j => f[i] <= f[j]
Hourly(f, t) == f[t] - C!Until(f, t - Hour)
HourInv ==
    /\ now \in 1 .. CostHorizon /\ Grows(spent) /\ \A i \in now .. CostHorizon : spent[i] = spent[now]
    /\ \E p \in Int : p <= now - Hour /\ hourly = C!Since(spent, p)
    /\ DOMAIN call = Calls
    /\ \A t \in 1 .. now : Hourly(spent, t) <= HourLimit + Cardinality(Calls) * MaxCost
    /\ Hourly(spent, now) + Cardinality(Underway) * MaxCost <= HourLimit + Cardinality(Calls) * MaxCost

LEMMA UntilGrows ==
    ASSUME NEW f, Grows(f), NEW i \in Int, NEW j \in Int, i <= j, j <= CostHorizon, CostHorizon \in Nat
    PROVE  /\ C!Until(f, i) \in Nat /\ C!Until(f, j) \in Nat /\ C!Until(f, i) <= C!Until(f, j)
           /\ j >= 0 => C!Until(f, j) = f[j]
<1>1. ASSUME NEW k \in Int, k <= CostHorizon PROVE C!Until(f, k) \in Nat
  <2>1. CASE k < 0
    BY <2>1 DEF C!Until
  <2>2. CASE k >= 0
    <3>1. k \in 0 .. CostHorizon
      BY <1>1, <2>2
    <3> QED BY <2>2, <3>1 DEF C!Until, Grows
  <2> QED BY <1>1, <2>1, <2>2
<1>2. C!Until(f, i) <= C!Until(f, j)
  <2>1. CASE i < 0
    <3>1. C!Until(f, i) = 0
      BY <2>1 DEF C!Until
    <3> QED BY <1>1, <3>1
  <2>2. CASE i >= 0
    <3>1. i \in 0 .. CostHorizon /\ j \in 0 .. CostHorizon
      BY <2>2
    <3>2. C!Until(f, i) = f[i] /\ C!Until(f, j) = f[j]
      BY <2>2 DEF C!Until
    <3> QED BY <3>1, <3>2 DEF Grows
  <2> QED BY <2>1, <2>2
<1>3. i <= CostHorizon
  OBVIOUS
<1>4. j >= 0 => C!Until(f, j) = f[j]
  BY DEF C!Until
<1> QED BY <1>1, <1>2, <1>3, <1>4

(* Cutting an account twice is cutting it at the later time.               *)
LEMMA SinceLater ==
    ASSUME NEW f, Grows(f), CostHorizon \in Nat, NEW p \in Int, NEW q \in Int, p <= q, q <= CostHorizon
    PROVE  C!Since(C!Since(f, p), q) = C!Since(f, q)
<1>1. PICK g : g = C!Since(f, p)
  OBVIOUS
<1>2. g = [t \in 0 .. CostHorizon |-> IF t > p THEN f[t] - C!Until(f, p) ELSE 0]
  BY <1>1 DEF C!Since
<1>3. C!Until(f, p) \in Nat /\ C!Until(f, q) \in Nat /\ C!Until(f, p) <= C!Until(f, q)
  BY UntilGrows
<1>4. C!Until(g, q) = C!Until(f, q) - C!Until(f, p)
  <2>1. CASE q < 0
    BY <2>1 DEF C!Until
  <2>2. CASE q >= 0 /\ q > p
    <3>1. q \in 0 .. CostHorizon
      BY <2>2
    <3> QED BY <1>2, <2>2, <3>1 DEF C!Until
  <2>3. CASE q >= 0 /\ q = p
    <3>1. q \in 0 .. CostHorizon /\ ~ (q > p)
      BY <2>3
    <3>2. g[q] = 0
      BY <1>2, <3>1
    <3>3. C!Until(g, q) = 0
      BY <2>3, <3>2 DEF C!Until
    <3> QED BY <1>3, <2>3, <3>3
  <2> QED BY <2>1, <2>2, <2>3
<1>5. ASSUME NEW t \in 0 .. CostHorizon
      PROVE  (IF t > q THEN g[t] - C!Until(g, q) ELSE 0) = (IF t > q THEN f[t] - C!Until(f, q) ELSE 0)
  <2>1. CASE t > q
    <3>1. t > p
      BY <2>1
    <3>2. f[t] \in Nat
      BY DEF Grows
    <3>3. g[t] = f[t] - C!Until(f, p)
      BY <1>2, <3>1
    <3> QED BY <1>3, <1>4, <2>1, <3>2, <3>3
  <2>2. CASE ~ (t > q)
    BY <2>2
  <2> QED BY <2>1, <2>2
<1>6. C!Since(g, q) = [t \in 0 .. CostHorizon |-> IF t > q THEN g[t] - C!Until(g, q) ELSE 0]
  BY DEF C!Since
<1>7. C!Since(f, q) = [t \in 0 .. CostHorizon |-> IF t > q THEN f[t] - C!Until(f, q) ELSE 0]
  BY DEF C!Since
<1> QED BY <1>1, <1>5, <1>6, <1>7

(* What _pruneHourlyRecords leaves adds up to what the last hour cost.     *)
LEMMA RecentIs ==
    ASSUME C!SwitchAssumption, HourInv
    PROVE  /\ C!Recent(hourly) = C!Since(spent, now - Hour)
           /\ C!Total(C!Recent(hourly)) = Hourly(spent, now)
           /\ Hourly(spent, now) \in Int /\ spent[now] \in Nat /\ C!Until(spent, now - Hour) \in Nat
<1>1. /\ now \in 1 .. CostHorizon /\ CostHorizon \in Nat /\ Hour \in Nat \ {0} /\ Grows(spent)
      /\ now \in Int /\ now - Hour \in Int /\ now - Hour < now /\ now <= CostHorizon
  BY DEF HourInv, C!SwitchAssumption
<1>2. PICK p \in Int : p <= now - Hour /\ hourly = C!Since(spent, p)
  BY DEF HourInv
<1>3. C!Recent(hourly) = C!Since(spent, now - Hour)
  <2>1. C!Since(C!Since(spent, p), now - Hour) = C!Since(spent, now - Hour)
    BY <1>1, <1>2, SinceLater
  <2> QED BY <1>2, <2>1 DEF C!Recent
<1>4. C!Total(C!Since(spent, now - Hour)) = spent[CostHorizon] - C!Until(spent, now - Hour)
  <2>1. CostHorizon > now - Hour /\ CostHorizon \in 0 .. CostHorizon
    BY <1>1
  <2> QED BY <2>1 DEF C!Total, C!Since
<1>5. spent[CostHorizon] = spent[now]
  <2>1. CostHorizon \in now .. CostHorizon
    BY <1>1
  <2> QED BY <2>1 DEF HourInv
<1>6. spent[now] \in Nat
  <2>1. now \in 0 .. CostHorizon
    BY <1>1
  <2> QED BY <1>1, <2>1 DEF Grows
<1>7. C!Until(spent, now - Hour) \in Nat
  BY <1>1, UntilGrows
<1> QED BY <1>3, <1>4, <1>5, <1>6, <1>7 DEF Hourly

LEMMA UnderwayIsFinite ==
    ASSUME IsFiniteSet(Calls)
    PROVE  /\ IsFiniteSet(Underway) /\ Cardinality(Underway) \in Nat /\ Cardinality(Calls) \in Nat
           /\ Cardinality(Underway) <= Cardinality(Calls)
<1>1. Underway \subseteq Calls
  BY DEF Underway
<1> QED BY <1>1, FS_Subset, FS_CardinalityType

(* With nothing spent at all every hour is within the limit.               *)
LEMMA NothingSpent ==
    ASSUME C!SwitchAssumption
    PROVE  /\ Grows(C!Nothing) /\ \A i \in 0 .. CostHorizon : C!Nothing[i] = 0
           /\ \A t \in 1 .. CostHorizon : Hourly(C!Nothing, t) = 0
           /\ \A p \in Int : p <= CostHorizon => C!Since(C!Nothing, p) = C!Nothing
<1>1. CostHorizon \in Nat \ {0} /\ Hour \in Nat \ {0}
  BY DEF C!SwitchAssumption
<1>2. PICK f : f = C!Nothing
  OBVIOUS
<1>3. f = [t \in 0 .. CostHorizon |-> 0]
  BY <1>2 DEF C!Nothing
<1>4. Grows(f) /\ \A i \in 0 .. CostHorizon : f[i] = 0
  BY <1>1, <1>3 DEF Grows
<1>5. ASSUME NEW p \in Int, p <= CostHorizon PROVE C!Until(f, p) = 0
  <2>1. p < 0 \/ p \in 0 .. CostHorizon
    BY <1>1, <1>5
  <2> QED BY <1>4, <2>1 DEF C!Until
<1>6. ASSUME NEW t \in 1 .. CostHorizon PROVE Hourly(f, t) = 0
  <2>1. t - Hour \in Int /\ t - Hour <= CostHorizon /\ t \in 0 .. CostHorizon
    BY <1>1
  <2> QED BY <1>4, <1>5, <2>1 DEF Hourly
<1>7. ASSUME NEW p \in Int, p <= CostHorizon PROVE C!Since(f, p) = f
  <2>1. C!Since(f, p) = [t \in 0 .. CostHorizon |-> IF t > p THEN f[t] - 0 ELSE 0]
    BY <1>5, <1>7 DEF C!Since
  <2>2. \A t \in 0 .. CostHorizon : (IF t > p THEN f[t] - 0 ELSE 0) = 0
    BY <1>4
  <2> QED BY <1>3, <2>1, <2>2
<1> QED BY <1>2, <1>4, <1>6, <1>7

LEMMA HourBegins == C!SwitchAssumption /\ IsFiniteSet(Calls) /\ C!Init => HourInv
<1> SUFFICES ASSUME C!SwitchAssumption, IsFiniteSet(Calls), C!Init PROVE HourInv
  OBVIOUS
<1>1. /\ now = 1 /\ spent = C!Nothing /\ hourly = C!Nothing /\ DOMAIN call = Calls
      /\ CostHorizon \in Nat \ {0} /\ Hour \in Nat \ {0} /\ HourLimit \in Nat /\ MaxCost \in Nat
  BY DEF C!Init, C!SwitchAssumption
<1>2. now \in 1 .. CostHorizon /\ now - Hour \in Int /\ now - Hour <= CostHorizon /\ now - Hour <= now - Hour
  BY <1>1
<1>3. /\ Grows(spent) /\ hourly = C!Since(spent, now - Hour) /\ Hourly(spent, now) = 0
      /\ \A i \in 0 .. CostHorizon : spent[i] = 0
      /\ \A t \in 1 .. CostHorizon : Hourly(spent, t) = 0
  BY <1>1, <1>2, NothingSpent
<1>4. \A i \in now .. CostHorizon : spent[i] = spent[now]
  <2>1. now \in 0 .. CostHorizon /\ \A i \in now .. CostHorizon : i \in 0 .. CostHorizon
    BY <1>1
  <2> QED BY <1>3, <2>1
<1>5. PICK k \in Nat, n \in Nat : k = Cardinality(Underway) /\ n = Cardinality(Calls) /\ k <= n
  BY UnderwayIsFinite
<1>6. k * MaxCost \in Nat /\ n * MaxCost \in Nat /\ k * MaxCost <= n * MaxCost
  BY <1>1, <1>5, Products
<1>7. \A t \in 1 .. now : Hourly(spent, t) <= HourLimit + n * MaxCost
  <2>1. \A t \in 1 .. now : t \in 1 .. CostHorizon
    BY <1>1
  <2> QED BY <1>1, <1>3, <1>6, <2>1
<1>8. Hourly(spent, now) + k * MaxCost <= HourLimit + n * MaxCost
  BY <1>1, <1>3, <1>6
<1> QED BY <1>1, <1>2, <1>3, <1>4, <1>5, <1>7, <1>8 DEF HourInv

(* A tick can only drop costs from the hour.                               *)
LEMMA HourTicks ==
    ASSUME C!SwitchAssumption, IsFiniteSet(Calls), HourInv, C!Tick
    PROVE  HourInv'
<1>1. /\ now \in 1 .. CostHorizon /\ CostHorizon \in Nat /\ Hour \in Nat \ {0} /\ Grows(spent)
      /\ now < CostHorizon /\ now' = now + 1 /\ spent' = spent /\ hourly' = hourly /\ call' = call
      /\ HourLimit \in Nat /\ MaxCost \in Nat
  BY DEF HourInv, C!SwitchAssumption, C!Tick
<1>2. PICK p \in Int : p <= now - Hour /\ hourly = C!Since(spent, p)
  BY DEF HourInv
<1>3. p <= now' - Hour /\ hourly' = C!Since(spent, p)' /\ now' \in 1 .. CostHorizon
  <2>1. C!Since(spent, p)' = C!Since(spent, p)
    BY <1>1 DEF C!Since, C!Until
  <2>2. p <= now' - Hour
    BY <1>1, <1>2
  <2> QED BY <1>1, <1>2, <2>1, <2>2
<1>4. spent[now + 1] = spent[now] /\ \A i \in now + 1 .. CostHorizon : spent[i] = spent[now + 1]
  <2>1. \A i \in now .. CostHorizon : spent[i] = spent[now]
    BY DEF HourInv
  <2>2. now + 1 \in now .. CostHorizon /\ \A i \in now + 1 .. CostHorizon : i \in now .. CostHorizon
    BY <1>1
  <2> QED BY <2>1, <2>2
<1>5. PICK a \in Nat, b \in Nat, c \in Nat :
         a = C!Until(spent, now - Hour) /\ b = C!Until(spent, (now + 1) - Hour) /\ a <= b /\ c = spent[now]
  <2>1. /\ C!Until(spent, now - Hour) \in Nat /\ C!Until(spent, (now + 1) - Hour) \in Nat
        /\ C!Until(spent, now - Hour) <= C!Until(spent, (now + 1) - Hour)
    BY <1>1, UntilGrows
  <2>2. spent[now] \in Nat
    BY RecentIs
  <2> QED BY <2>1, <2>2
<1>6. PICK k \in Nat, n \in Nat : k = Cardinality(Underway) /\ n = Cardinality(Calls) /\ k <= n
  BY UnderwayIsFinite
<1>7. k * MaxCost \in Nat /\ n * MaxCost \in Nat
  BY <1>1, <1>6, Products
<1>8. Hourly(spent, now) = c - a /\ Hourly(spent, now + 1) = c - b
  <2>1. Hourly(spent, now + 1) = spent[now + 1] - C!Until(spent, (now + 1) - Hour)
    BY Zenon DEF Hourly
  <2>2. Hourly(spent, now) = spent[now] - C!Until(spent, now - Hour)
    BY Zenon DEF Hourly
  <2>3. spent[now + 1] = c
    BY <1>4, <1>5
  <2> QED BY Zenon, <1>5, <2>1, <2>2, <2>3
<1>9. c - a + k * MaxCost <= HourLimit + n * MaxCost
  <2>1. Hourly(spent, now) + Cardinality(Underway) * MaxCost <= HourLimit + Cardinality(Calls) * MaxCost
    BY DEF HourInv
  <2> QED BY <1>6, <1>8, <2>1
<1>10. c - b + k * MaxCost <= HourLimit + n * MaxCost
  BY <1>1, <1>5, <1>7, <1>9
<1>11. ASSUME NEW t \in 1 .. now + 1 PROVE Hourly(spent, t) <= HourLimit + n * MaxCost
  <2>1. CASE t \in 1 .. now
    BY <1>6, <2>1 DEF HourInv
  <2>2. CASE t = now + 1
    BY <1>1, <1>5, <1>7, <1>8, <1>10, <2>2
  <2> QED BY <1>1, <2>1, <2>2
<1>12. \A t : Hourly(spent, t)' = Hourly(spent, t')
  BY <1>1 DEF Hourly, C!Until
<1>13. Grows(spent)' /\ Underway' = Underway /\ DOMAIN call' = Calls
  BY <1>1 DEF Grows, Underway, C!NoCall, HourInv
<1>14. Hourly(spent, now)' = Hourly(spent, now + 1)
  BY <1>1 DEF Hourly, C!Until
<1>15. \A t \in 1 .. now' : Hourly(spent', t) <= HourLimit + Cardinality(Calls) * MaxCost
  BY <1>1, <1>6, <1>11
<1>16. Hourly(spent, now)' + Cardinality(Underway)' * MaxCost <= HourLimit + Cardinality(Calls) * MaxCost
  <2>1. Cardinality(Underway)' = k
    BY <1>6, <1>13
  <2> QED BY <1>6, <1>8, <1>10, <1>14, <2>1
<1> QED BY <1>1, <1>2, <1>3, <1>4, <1>13, <1>15, <1>16 DEF HourInv

(* The preflight looks at the hour, and lets a call off only within it.    *)
LEMMA HourChecks ==
    ASSUME C!SwitchAssumption, IsFiniteSet(Calls), HourInv,
           NEW c \in Calls, NEW s \in Sessions, NEW e \in 0 .. RequestLimit + 1, C!CheckPreflight(c, s, e)
    PROVE  HourInv'
<1>1. /\ HourLimit \in Nat /\ MaxCost \in Nat /\ RequestLimit \in Nat /\ Hour \in Nat
      /\ now' = now /\ spent' = spent /\ hourly' = C!Recent(hourly)
      /\ now \in 1 .. CostHorizon /\ CostHorizon \in Nat
  BY DEF C!SwitchAssumption, C!CheckPreflight, HourInv
<1>2. /\ C!Recent(hourly) = C!Since(spent, now - Hour) /\ C!Total(C!Recent(hourly)) = Hourly(spent, now)
      /\ Hourly(spent, now) \in Int
  BY RecentIs
<1>3. hourly' = C!Since(spent, now - Hour)' /\ now - Hour \in Int
  BY <1>1, <1>2 DEF C!Since, C!Until
<1>4. PICK n \in Nat : n = Cardinality(Calls) /\ n * MaxCost \in Nat
  BY <1>1, UnderwayIsFinite, Products
<1>5. PICK h \in Int : h = Hourly(spent, now)
  BY <1>2
<1>6. Hourly(spent, now)' = h /\ \A t : Hourly(spent', t) = Hourly(spent, t)
  BY <1>1, <1>5 DEF Hourly, C!Until
<1>7. PICK k \in Nat : k = Cardinality(Underway)' /\ k <= n
  <2>1. PICK later : later = Underway'
    OBVIOUS
  <2>2. later \subseteq Calls
    BY <2>1 DEF Underway
  <2>3. Cardinality(later) \in Nat /\ Cardinality(later) <= n
    BY <1>4, <2>2, FS_Subset, FS_CardinalityType
  <2> QED BY <2>1, <2>3
<1>8. h + k * MaxCost <= HourLimit + n * MaxCost
  <2>1. CASE call' = call
    <3>1. Underway' = Underway
      BY <2>1 DEF Underway, C!NoCall
    <3>2. Hourly(spent, now) + Cardinality(Underway) * MaxCost <= HourLimit + Cardinality(Calls) * MaxCost
      BY DEF HourInv
    <3>3. Cardinality(Underway)' = Cardinality(Underway)
      BY <3>1
    <3> QED BY <1>4, <1>5, <1>7, <3>2, <3>3
  <2>2. CASE call' # call
    <3>1. C!Fits(s, e)
      BY <2>2 DEF C!CheckPreflight
    <3>2. h + e <= HourLimit /\ e \in Nat
      BY <1>1, <1>2, <1>5, <3>1 DEF C!Fits
    <3>3. k * MaxCost <= n * MaxCost /\ k * MaxCost \in Nat
      BY <1>1, <1>4, <1>7, Products
    <3> QED BY <1>1, <1>4, <3>2, <3>3
  <2> QED BY <2>1, <2>2
<1>9. DOMAIN call' = Calls
  BY DEF HourInv, C!CheckPreflight
<1>10. Grows(spent)' /\ \A i \in now .. CostHorizon : spent'[i] = spent'[now]
  BY <1>1 DEF HourInv, Grows
<1>11. \A t \in 1 .. now : Hourly(spent', t) <= HourLimit + Cardinality(Calls) * MaxCost
  BY <1>6 DEF HourInv
<1>12. Hourly(spent, now)' + Cardinality(Underway)' * MaxCost <= HourLimit + Cardinality(Calls) * MaxCost
  BY <1>4, <1>6, <1>7, <1>8
<1>13. now - Hour <= now - Hour
  BY <1>3
<1> QED BY <1>1, <1>3, <1>9, <1>10, <1>11, <1>12, <1>13 DEF HourInv

LEMMA PlusGrows ==
    ASSUME NEW f, Grows(f), CostHorizon \in Nat, now \in 1 .. CostHorizon, NEW cost \in Nat
    PROVE  /\ Grows(C!Plus(f, cost)) /\ C!Plus(f, cost) = [t \in 0 .. CostHorizon |-> IF t >= now THEN f[t] + cost ELSE f[t]]
           /\ \A q \in Int : q < now => C!Until(C!Plus(f, cost), q) = C!Until(f, q)
<1>1. C!Plus(f, cost) = [t \in 0 .. CostHorizon |-> IF t >= now THEN f[t] + cost ELSE f[t]]
  BY DEF C!Plus
<1>2. PICK g : g = C!Plus(f, cost)
  OBVIOUS
<1>3. f \in [0 .. CostHorizon -> Nat] /\ f[0] = 0 /\ \A i, j \in 0 .. CostHorizon : i <= j => f[i] <= f[j]
  BY DEF Grows
<1>4. \A t \in 0 .. CostHorizon : g[t] = IF t >= now THEN f[t] + cost ELSE f[t]
  BY <1>1, <1>2
<1>5. g \in [0 .. CostHorizon -> Nat]
  <2>1. \A t \in 0 .. CostHorizon : (IF t >= now THEN f[t] + cost ELSE f[t]) \in Nat
    BY <1>3
  <2> QED BY <1>1, <1>2, <2>1
<1>6. g[0] = 0
  <2>1. 0 \in 0 .. CostHorizon /\ ~ (0 >= now)
    OBVIOUS
  <2> QED BY <1>3, <1>4, <2>1
<1>7. ASSUME NEW i \in 0 .. CostHorizon, NEW j \in 0 .. CostHorizon, i <= j PROVE g[i] <= g[j]
  <2>1. f[i] \in Nat /\ f[j] \in Nat /\ f[i] <= f[j]
    BY <1>3, <1>7
  <2>2. i >= now => j >= now
    BY <1>7
  <2>3. g[i] = (IF i >= now THEN f[i] + cost ELSE f[i]) /\ g[j] = (IF j >= now THEN f[j] + cost ELSE f[j])
    BY <1>4
  <2> QED BY <2>1, <2>2, <2>3
<1>8. ASSUME NEW q \in Int, q < now PROVE C!Until(g, q) = C!Until(f, q)
  <2>1. CASE q < 0
    BY <2>1 DEF C!Until
  <2>2. CASE q >= 0
    <3>1. q \in 0 .. CostHorizon /\ ~ (q >= now)
      BY <1>8, <2>2
    <3>2. g[q] = f[q]
      BY <1>4, <3>1
    <3> QED BY <2>2, <3>2 DEF C!Until
  <2> QED BY <2>1, <2>2
<1>9. Grows(g)
  BY <1>5, <1>6, <1>7 DEF Grows
<1> QED BY <1>1, <1>2, <1>8, <1>9

(* A cost adds to the account and to what is left of it alike.             *)
LEMMA PlusAfterCut ==
    ASSUME NEW f, Grows(f), CostHorizon \in Nat, now \in 1 .. CostHorizon, NEW cost \in Nat,
           NEW q \in Int, q < now
    PROVE  C!Plus(C!Since(f, q), cost) = C!Since(C!Plus(f, cost), q)
<1>1. PICK g : g = C!Since(f, q)
  OBVIOUS
<1>2. PICK h : h = C!Plus(f, cost)
  OBVIOUS
<1>3. g = [t \in 0 .. CostHorizon |-> IF t > q THEN f[t] - C!Until(f, q) ELSE 0]
  BY <1>1 DEF C!Since
<1>4. h = [t \in 0 .. CostHorizon |-> IF t >= now THEN f[t] + cost ELSE f[t]]
  BY <1>2, PlusGrows
<1>5. C!Until(h, q) = C!Until(f, q)
  BY <1>2, PlusGrows
<1>6. C!Until(f, q) \in Nat
  <2>1. q <= CostHorizon
    OBVIOUS
  <2> QED BY <2>1, UntilGrows
<1>7. C!Plus(g, cost) = [t \in 0 .. CostHorizon |-> IF t >= now THEN g[t] + cost ELSE g[t]]
  BY DEF C!Plus
<1>8. C!Since(h, q) = [t \in 0 .. CostHorizon |-> IF t > q THEN h[t] - C!Until(f, q) ELSE 0]
  BY <1>5 DEF C!Since
<1>9. ASSUME NEW t \in 0 .. CostHorizon
      PROVE  (IF t >= now THEN g[t] + cost ELSE g[t]) = (IF t > q THEN h[t] - C!Until(f, q) ELSE 0)
  <2>1. f[t] \in Nat /\ cost \in Int /\ now \in Int
    BY DEF Grows
  <2>2. g[t] = (IF t > q THEN f[t] - C!Until(f, q) ELSE 0) /\ h[t] = (IF t >= now THEN f[t] + cost ELSE f[t])
    BY <1>3, <1>4
  <2>3. CASE t >= now
    <3>1. t > q
      BY <2>1, <2>3
    <3> QED BY <1>6, <2>1, <2>2, <2>3, <3>1
  <2>4. CASE ~ (t >= now)
    BY <1>6, <2>1, <2>2, <2>4
  <2> QED BY <2>3, <2>4
<1> QED BY <1>1, <1>2, <1>7, <1>8, <1>9

(* A cost recorded late takes the place its call was counted with.         *)
LEMMA HourRecords ==
    ASSUME C!SwitchAssumption, IsFiniteSet(Calls), HourInv,
           NEW c \in Calls, NEW cost \in 0 .. MaxCost, C!RecordExecutionCost(c, cost)
    PROVE  HourInv'
<1>1. /\ HourLimit \in Nat /\ MaxCost \in Nat /\ Hour \in Nat \ {0} /\ now' = now
      /\ spent' = C!Plus(spent, cost) /\ hourly' = C!Plus(C!Recent(hourly), cost)
      /\ call[c] # C!NoCall /\ call' = [call EXCEPT ![c] = C!NoCall]
      /\ now \in 1 .. CostHorizon /\ CostHorizon \in Nat /\ Grows(spent) /\ cost \in Nat /\ cost <= MaxCost
      /\ DOMAIN call = Calls
  BY DEF C!SwitchAssumption, C!RecordExecutionCost, HourInv
<1>2. /\ C!Recent(hourly) = C!Since(spent, now - Hour)
      /\ Hourly(spent, now) \in Int /\ spent[now] \in Nat /\ C!Until(spent, now - Hour) \in Nat
  BY RecentIs
<1>3. now - Hour \in Int /\ now - Hour < now
  BY <1>1
<1>4. PICK new : new = C!Plus(spent, cost)
  OBVIOUS
<1>5. /\ Grows(new) /\ new = [t \in 0 .. CostHorizon |-> IF t >= now THEN spent[t] + cost ELSE spent[t]]
      /\ \A q \in Int : q < now => C!Until(new, q) = C!Until(spent, q)
  BY <1>1, <1>4, PlusGrows
<1>6. hourly' = C!Since(new, now - Hour)
  BY <1>1, <1>2, <1>3, <1>4, PlusAfterCut
<1>7. \A i \in now .. CostHorizon : new[i] = new[now]
  <2>1. \A i \in now .. CostHorizon : spent[i] = spent[now]
    BY DEF HourInv
  <2>2. \A i \in now .. CostHorizon : i \in 0 .. CostHorizon /\ i >= now
    BY <1>1
  <2>3. now \in now .. CostHorizon
    BY <1>1
  <2> QED BY <1>5, <2>1, <2>2, <2>3
<1>8. Hourly(new, now) = Hourly(spent, now) + cost
  <2>1. new[now] = spent[now] + cost
    BY <1>1, <1>5
  <2>2. C!Until(new, now - Hour) = C!Until(spent, now - Hour)
    BY <1>3, <1>5
  <2> QED BY <1>1, <1>2, <2>1, <2>2 DEF Hourly
<1>9. ASSUME NEW t \in 1 .. now, t # now PROVE Hourly(new, t) = Hourly(spent, t)
  <2>1. t \in 0 .. CostHorizon /\ ~ (t >= now) /\ t - Hour \in Int /\ t - Hour < now
    BY <1>1, <1>9
  <2> QED BY <1>5, <2>1 DEF Hourly
<1>10. PICK n \in Nat : n = Cardinality(Calls) /\ n * MaxCost \in Nat
  BY <1>1, UnderwayIsFinite, Products
<1>11. PICK before, after : before = Underway /\ after = Underway'
  OBVIOUS
<1>12. after = before \ {c} /\ c \in before
  BY <1>1, <1>11 DEF Underway, C!NoCall
<1>13. IsFiniteSet(before) /\ Cardinality(before) \in Nat
  BY <1>11, UnderwayIsFinite
<1>14. PICK k \in Nat : k = Cardinality(after) /\ k + 1 = Cardinality(before)
  <2>1. Cardinality(after) = Cardinality(before) - 1 /\ IsFiniteSet(after)
    BY <1>12, <1>13, FS_RemoveElement
  <2>2. Cardinality(after) \in Nat
    BY <2>1, FS_CardinalityType
  <2> QED BY <1>13, <2>1, <2>2
<1>15. (k + 1) * MaxCost = k * MaxCost + MaxCost /\ k * MaxCost \in Nat
  BY <1>1, Products
<1>16. PICK h \in Int : h = Hourly(spent, now) /\ h + (k + 1) * MaxCost <= HourLimit + n * MaxCost
  BY <1>2, <1>10, <1>11, <1>14 DEF HourInv
<1>17. h + cost + k * MaxCost <= HourLimit + n * MaxCost
  BY <1>1, <1>10, <1>15, <1>16
<1>18. h + cost <= HourLimit + n * MaxCost
  BY <1>1, <1>10, <1>15, <1>17
<1>19. \A t \in 1 .. now : Hourly(new, t) <= HourLimit + n * MaxCost
  <2>1. ASSUME NEW t \in 1 .. now PROVE Hourly(new, t) <= HourLimit + n * MaxCost
    <3>1. CASE t = now
      BY <1>8, <1>16, <1>18, <3>1
    <3>2. CASE t # now
      BY <1>9, <1>10, <3>2 DEF HourInv
    <3> QED BY <3>1, <3>2
  <2> QED BY <2>1
<1>20. spent' = new /\ hourly' = C!Since(spent', now' - Hour) /\ now' - Hour \in Int /\ now' - Hour <= now' - Hour
  BY <1>1, <1>3, <1>4, <1>6
<1>21. Hourly(spent, now)' + Cardinality(Underway)' * MaxCost <= HourLimit + Cardinality(Calls) * MaxCost
  <2>1. Hourly(spent, now)' = h + cost
    <3>1. Hourly(spent, now)' = Hourly(new, now)
      BY <1>1, <1>20 DEF Hourly, C!Until
    <3> QED BY <1>8, <1>16, <3>1
  <2>2. Cardinality(Underway)' = k
    BY <1>11, <1>14
  <2> QED BY <1>10, <1>17, <2>1, <2>2
<1>22. \A t \in 1 .. now' : Hourly(spent', t) <= HourLimit + Cardinality(Calls) * MaxCost
  BY <1>1, <1>10, <1>19, <1>20
<1>23. DOMAIN call' = Calls /\ Grows(spent') /\ (\A i \in now' .. CostHorizon : spent'[i] = spent'[now'])
  BY <1>1, <1>5, <1>7, <1>20
<1> QED BY <1>1, <1>20, <1>21, <1>22, <1>23 DEF HourInv

LEMMA HourStep ==
    ASSUME C!SwitchAssumption, IsFiniteSet(Calls), HourInv, [C!Next]_(C!vars)
    PROVE  HourInv'
<1>1. CASE UNCHANGED C!vars
  <2>1. UNCHANGED <<now, spent, hourly, call>>
    BY <1>1 DEF C!vars
  <2> QED BY <2>1 DEF HourInv, Hourly, Grows, Underway, C!Since, C!Until, C!NoCall
<1>2. ASSUME NEW s \in Sessions, C!Reset(s) PROVE HourInv'
  <2>1. UNCHANGED <<now, spent, hourly, call>>
    BY <1>2 DEF C!Reset
  <2> QED BY <2>1 DEF HourInv, Hourly, Grows, Underway, C!Since, C!Until, C!NoCall
<1>3. CASE C!ResetAll
  <2>1. /\ now' = now /\ call' = call /\ hourly' = C!Nothing /\ spent' = C!Nothing
        /\ CostHorizon \in Nat \ {0} /\ Hour \in Nat \ {0} /\ HourLimit \in Nat /\ MaxCost \in Nat
        /\ now \in 1 .. CostHorizon
    BY <1>3 DEF C!ResetAll, C!SwitchAssumption, HourInv
  <2>2. now - Hour \in Int /\ now - Hour <= CostHorizon /\ now - Hour <= now - Hour
    BY <2>1
  <2>3. /\ Grows(spent') /\ hourly' = C!Since(spent', now - Hour) /\ Hourly(spent', now) = 0
        /\ \A i \in 0 .. CostHorizon : spent'[i] = 0
        /\ \A t \in 1 .. CostHorizon : Hourly(spent', t) = 0
    BY <2>1, <2>2, NothingSpent
  <2>4. \A i \in now .. CostHorizon : spent'[i] = spent'[now]
    <3>1. now \in 0 .. CostHorizon /\ \A i \in now .. CostHorizon : i \in 0 .. CostHorizon
      BY <2>1
    <3> QED BY <2>3, <3>1
  <2>5. PICK k \in Nat, n \in Nat : k = Cardinality(Underway) /\ n = Cardinality(Calls) /\ k <= n
    BY UnderwayIsFinite
  <2>6. k * MaxCost \in Nat /\ n * MaxCost \in Nat /\ k * MaxCost <= n * MaxCost
    BY <2>1, <2>5, Products
  <2>7. \A t \in 1 .. now : Hourly(spent', t) <= HourLimit + n * MaxCost
    <3>1. \A t \in 1 .. now : t \in 1 .. CostHorizon
      BY <2>1
    <3> QED BY <2>1, <2>3, <2>6, <3>1
  <2>8. Underway' = Underway
    BY <2>1 DEF Underway, C!NoCall
  <2>9. Cardinality(Underway)' = k
    BY <2>5, <2>8
  <2>10. Hourly(spent', now) + k * MaxCost <= HourLimit + n * MaxCost
    BY <2>1, <2>3, <2>6
  <2>11. Hourly(spent, now)' = Hourly(spent', now)
    BY <2>1 DEF Hourly, C!Until
  <2>12. DOMAIN call' = Calls
    BY <2>1 DEF HourInv
  <2> QED BY <2>1, <2>2, <2>3, <2>4, <2>5, <2>7, <2>9, <2>10, <2>11, <2>12 DEF HourInv
<1> QED BY <1>1, <1>2, <1>3, HourTicks, HourChecks, HourRecords DEF C!Next

LEMMA HourMeans ==
    ASSUME C!SwitchAssumption, IsFiniteSet(Calls), HourInv
    PROVE  C!HourWithin
<1>1. /\ HourLimit \in Nat /\ MaxCost \in Nat /\ Hour \in Nat \ {0} /\ now \in 1 .. CostHorizon
      /\ CostHorizon \in Nat /\ Grows(spent)
  BY DEF C!SwitchAssumption, HourInv
<1>2. PICK n \in Nat : n = Cardinality(Calls) /\ n * MaxCost \in Nat
  BY <1>1, UnderwayIsFinite, Products
<1>3. C!Overshoot = n * MaxCost
  <2>1. C!Cardinality(Calls) = Cardinality(Calls)
    BY DEF C!Cardinality, Cardinality
  <2> QED BY <1>2, <2>1 DEF C!Overshoot
<1>4. \A t \in 1 .. now : Hourly(spent, t) <= HourLimit + n * MaxCost
  BY <1>2 DEF HourInv
<1>5. ASSUME NEW t \in 1 .. CostHorizon PROVE Hourly(spent, t) <= HourLimit + n * MaxCost
  <2>1. CASE t <= now
    <3>1. t \in 1 .. now
      BY <2>1
    <3> QED BY <1>4, <3>1
  <2>2. CASE t > now
    <3>1. t \in now .. CostHorizon
      BY <1>1, <2>2
    <3>2. spent[t] = spent[now]
      BY <3>1 DEF HourInv
    <3>3. now - Hour \in Int /\ t - Hour \in Int /\ now - Hour <= t - Hour /\ t - Hour <= CostHorizon
      BY <1>1, <2>2
    <3>4. /\ C!Until(spent, now - Hour) \in Nat /\ C!Until(spent, t - Hour) \in Nat
          /\ C!Until(spent, now - Hour) <= C!Until(spent, t - Hour)
      BY <1>1, <3>3, UntilGrows
    <3>5. spent[now] \in Nat
      BY RecentIs
    <3>6. now \in 1 .. now
      BY <1>1
    <3>7. spent[now] - C!Until(spent, now - Hour) <= HourLimit + n * MaxCost
      BY <1>4, <3>6 DEF Hourly
    <3>8. spent[t] - C!Until(spent, t - Hour) <= HourLimit + n * MaxCost
      BY <1>1, <1>2, <3>2, <3>4, <3>5, <3>7
    <3> QED BY <3>8 DEF Hourly
  <2> QED BY <1>1, <2>1, <2>2
<1> QED BY <1>3, <1>5 DEF C!HourWithin, C!Times, Hourly

(* In any hour since the last full reset, no more is spent than the hourly *)
(* limit and one call of every caller: pruning the records drops no cost   *)
(* that still counts, and a late one is charged to the hour it ends in.    *)
THEOREM HourWithinAlways ==
    ASSUME C!SwitchAssumption, IsFiniteSet(Calls)
    PROVE  C!Spec => []C!HourWithin
<1>1. HourInv => C!HourWithin
  BY HourMeans
<1>2. C!Init => HourInv
  BY HourBegins
<1>3. HourInv /\ [C!Next]_(C!vars) => HourInv'
  BY HourStep
<1> QED BY <1>1, <1>2, <1>3, PTL DEF C!Spec

(* Of the types of the switch, the two that matter are those of the        *)
(* accounts: an account that was cut does not go below zero.               *)
SwitchTyped ==
    /\ state \in {"ACTIVE", "TRIPPED"} /\ resets \in 0 .. MaxResets
    /\ \A c \in Calls : call[c].session \in Sessions \cup {None} /\ call[c].estimate <= RequestLimit

LEMMA SwitchTypes ==
    ASSUME C!SwitchAssumption, CostInv, HourInv, SwitchTyped
    PROVE  C!TypeOK
<1>1. now \in C!Times /\ spent \in C!Accounts /\ CostHorizon \in Nat /\ Hour \in Nat \ {0} /\ Grows(spent)
  BY DEF HourInv, Grows, C!Times, C!Accounts, C!SwitchAssumption
<1>2. PICK p \in Int : p <= now - Hour /\ hourly = C!Since(spent, p)
  BY DEF HourInv
<1>3. hourly = [t \in 0 .. CostHorizon |-> IF t > p THEN spent[t] - C!Until(spent, p) ELSE 0]
  BY <1>2 DEF C!Since
<1>4. ASSUME NEW t \in 0 .. CostHorizon PROVE (IF t > p THEN spent[t] - C!Until(spent, p) ELSE 0) \in Nat
  <2>1. CASE t > p
    <3>1. p <= t
      BY <2>1
    <3>2. t >= 0 /\ t \in Int /\ t <= CostHorizon
      BY <1>1
    <3>3. C!Until(spent, p) \in Nat /\ C!Until(spent, p) <= C!Until(spent, t) /\ C!Until(spent, t) = spent[t]
      BY <1>1, <3>1, <3>2, UntilGrows
    <3>4. spent[t] \in Nat
      BY <1>1 DEF Grows
    <3> QED BY <3>3, <3>4
  <2>2. CASE ~ (t > p)
    BY <2>2
  <2> QED BY <2>1, <2>2
<1>5. hourly \in C!Accounts
  BY <1>3, <1>4 DEF C!Accounts
<1>6. session \in [Sessions -> Nat] /\ owed \in [Sessions -> Nat]
  BY DEF CostInv
<1> QED BY <1>1, <1>5, <1>6 DEF C!TypeOK, SwitchTyped

LEMMA SwitchTypesStay ==
    ASSUME C!SwitchAssumption, HourInv, SwitchTyped, [C!Next]_(C!vars)
    PROVE  SwitchTyped'
<1>1. RequestLimit \in Nat /\ MaxResets \in Nat /\ DOMAIN call = Calls
  BY DEF C!SwitchAssumption, HourInv
<1>2. CASE UNCHANGED C!vars \/ C!Tick
  BY <1>2 DEF C!vars, C!Tick, SwitchTyped
<1>3. ASSUME NEW c \in Calls, NEW s \in Sessions, NEW e \in 0 .. RequestLimit + 1, C!CheckPreflight(c, s, e)
      PROVE  SwitchTyped'
  <2>1. resets' = resets /\ state' \in {"ACTIVE", "TRIPPED"}
    BY <1>3 DEF C!CheckPreflight, SwitchTyped
  <2>2. CASE call' = call
    BY <2>1, <2>2 DEF SwitchTyped
  <2>3. CASE call' # call
    <3>1. e <= RequestLimit /\ call' = [call EXCEPT ![c] = [session |-> s, estimate |-> e]]
      BY <1>3, <2>3 DEF C!CheckPreflight, C!Fits
    <3>2. \A d \in Calls : call'[d] = IF d = c THEN [session |-> s, estimate |-> e] ELSE call[d]
      BY <1>1, <3>1
    <3> QED BY <2>1, <3>1, <3>2 DEF SwitchTyped
  <2> QED BY <2>2, <2>3
<1>4. ASSUME NEW c \in Calls, NEW cost \in 0 .. MaxCost, C!RecordExecutionCost(c, cost) PROVE SwitchTyped'
  <2>1. resets' = resets /\ state' \in {"ACTIVE", "TRIPPED"} /\ call' = [call EXCEPT ![c] = C!NoCall]
    BY <1>4 DEF C!RecordExecutionCost, SwitchTyped
  <2>2. \A d \in Calls : call'[d] = IF d = c THEN [session |-> None, estimate |-> 0] ELSE call[d]
    BY <1>1, <2>1 DEF C!NoCall
  <2> QED BY <1>1, <2>1, <2>2 DEF SwitchTyped
<1>5. ASSUME C!ResetAll \/ \E s \in Sessions : C!Reset(s) PROVE SwitchTyped'
  <2>1. state' = "ACTIVE" /\ call' = call /\ resets < MaxResets /\ resets' = resets + 1
    BY <1>5 DEF C!ResetAll, C!Reset
  <2>2. resets' \in 0 .. MaxResets
    BY <1>1, <2>1 DEF SwitchTyped
  <2> QED BY <2>1, <2>2 DEF SwitchTyped
<1> QED BY <1>2, <1>3, <1>4, <1>5 DEF C!Next

LEMMA SwitchTypesAlways ==
    ASSUME C!SwitchAssumption, IsFiniteSet(Calls)
    PROVE  C!Spec => []C!TypeOK
<1>1. C!Init => CostInv /\ HourInv /\ SwitchTyped
  <2> SUFFICES ASSUME C!Init PROVE SwitchTyped
    BY CostBegins, HourBegins
  <2>1. /\ state = "ACTIVE" /\ resets = 0 /\ MaxResets \in Nat /\ RequestLimit \in Nat
        /\ call = [c \in Calls |-> [session |-> None, estimate |-> 0]]
    BY DEF C!Init, C!NoCall, C!SwitchAssumption
  <2> QED BY <2>1 DEF SwitchTyped
<1>2. CostInv /\ HourInv /\ SwitchTyped /\ [C!Next]_(C!vars) => (CostInv /\ HourInv /\ SwitchTyped)'
  BY CostStep, HourStep, SwitchTypesStay
<1>3. CostInv /\ HourInv /\ SwitchTyped => C!TypeOK
  BY SwitchTypes
<1> QED BY <1>1, <1>2, <1>3, PTL DEF C!Spec

-----------------------------------------------------------------------------
(* The watchdog: a prefix of the session on which it does not trip.        *)
Quiet(n) ==
    /\ n <= MaxSteps /\ ~W!Repeats(2, n) /\ ~W!Repeats(3, n)
    /\ n >= MaxIdentical => \E i \in n - MaxIdentical + 1 .. n : steps[i].act # steps[n - MaxIdentical + 1].act
    /\ n >= MaxStagnant  => \E i \in n - MaxStagnant + 1 .. n : steps[i].moved

Watching == status \in {"ACTIVE", "CLEARED"}
WatchInv ==
    /\ W!TypeOK
    /\ status = "ESCALATED_HITL" => escalates
    /\ status = "TRIPPED" => W!Runaway(steps)
    /\ status # "ESCALATED_HITL" =>
          \A n \in 1 .. Len(steps) : n < Len(steps) \/ Watching => Quiet(n)

Limits == {MaxSteps, MaxIdentical, MaxStagnant, WatchHorizon} \subseteq Nat \ {0}

LEMMA LastSteps ==
    ASSUME W!TypeOK, NEW p \in Nat \ {0}, p <= Len(steps)
    PROVE  /\ Len(W!Last(steps, p)) = p /\ DOMAIN W!Last(steps, p) = 1 .. p
           /\ \A i \in 1 .. p : W!Last(steps, p)[i] = steps[Len(steps) - p + i]
<1>1. steps \in Seq([act : Actions, moved : BOOLEAN]) /\ Len(steps) \in Nat
  BY DEF W!TypeOK
<1> QED BY <1>1 DEF W!Last

LEMMA LastCalls ==
    ASSUME W!TypeOK, NEW p \in Nat \ {0}, p <= Len(steps)
    PROVE  \A i \in 1 .. p : W!Action(W!Last(steps, p))[i] = steps[Len(steps) - p + i].act
BY LastSteps DEF W!Action

(* The three detectors say of the end of the session what they stand for.  *)
LEMMA SpinsSays ==
    ASSUME Limits, W!TypeOK
    PROVE  W!Spins(steps) <=>
              /\ Len(steps) >= MaxIdentical
              /\ \A i \in Len(steps) - MaxIdentical + 1 .. Len(steps) :
                    steps[i].act = steps[Len(steps) - MaxIdentical + 1].act
<1> SUFFICES ASSUME Len(steps) >= MaxIdentical
             PROVE  W!Spins(steps) <=>
                       \A i \in Len(steps) - MaxIdentical + 1 .. Len(steps) :
                          steps[i].act = steps[Len(steps) - MaxIdentical + 1].act
  BY DEF W!Spins
<1>1. PICK n \in Nat : n = Len(steps)
  BY DEF W!TypeOK
<1>2. MaxIdentical \in Nat \ {0} /\ n >= MaxIdentical
  BY <1>1 DEF Limits
<1>3. W!Spins(steps) <=> \A i, j \in 1 .. MaxIdentical :
         steps[n - MaxIdentical + i].act = steps[n - MaxIdentical + j].act
  <2>1. PICK lst : lst = W!Last(steps, MaxIdentical)
    OBVIOUS
  <2>2. DOMAIN lst = 1 .. MaxIdentical
    BY <1>1, <1>2, <2>1, LastSteps
  <2>3. \A i \in 1 .. MaxIdentical : W!Action(lst)[i] = steps[n - MaxIdentical + i].act
    BY <1>1, <1>2, <2>1, LastCalls
  <2>4. W!Spins(steps) <=> \A i, j \in DOMAIN lst : W!Action(lst)[i] = W!Action(lst)[j]
    BY <2>1 DEF W!Spins
  <2> QED BY <2>2, <2>3, <2>4
<1>4. ASSUME \A i, j \in 1 .. MaxIdentical : steps[n - MaxIdentical + i].act = steps[n - MaxIdentical + j].act,
             NEW k \in n - MaxIdentical + 1 .. n
      PROVE  steps[k].act = steps[n - MaxIdentical + 1].act
  <2>1. PICK i \in 1 .. MaxIdentical : k = n - MaxIdentical + i
    <3>1. k - (n - MaxIdentical) \in 1 .. MaxIdentical /\ k = n - MaxIdentical + (k - (n - MaxIdentical))
      BY <1>2
    <3> QED BY <3>1
  <2>2. 1 \in 1 .. MaxIdentical
    BY <1>2
  <2> QED BY <1>4, <2>1, <2>2
<1>5. ASSUME \A k \in n - MaxIdentical + 1 .. n : steps[k].act = steps[n - MaxIdentical + 1].act,
             NEW i \in 1 .. MaxIdentical, NEW j \in 1 .. MaxIdentical
      PROVE  steps[n - MaxIdentical + i].act = steps[n - MaxIdentical + j].act
  <2>1. {n - MaxIdentical + i, n - MaxIdentical + j} \subseteq n - MaxIdentical + 1 .. n
    BY <1>2
  <2>2. /\ steps[n - MaxIdentical + i].act = steps[n - MaxIdentical + 1].act
        /\ steps[n - MaxIdentical + j].act = steps[n - MaxIdentical + 1].act
    BY <1>5, <2>1
  <2> QED BY <2>2
<1> QED BY <1>1, <1>3, <1>4, <1>5

LEMMA StagnatesSays ==
    ASSUME Limits, W!TypeOK
    PROVE  W!Stagnates(steps) <=>
              /\ Len(steps) >= MaxStagnant
              /\ \A i \in Len(steps) - MaxStagnant + 1 .. Len(steps) : ~steps[i].moved
<1> SUFFICES ASSUME Len(steps) >= MaxStagnant
             PROVE  W!Stagnates(steps) <=>
                       \A i \in Len(steps) - MaxStagnant + 1 .. Len(steps) : ~steps[i].moved
  BY DEF W!Stagnates
<1>1. PICK n \in Nat : n = Len(steps)
  BY DEF W!TypeOK
<1>2. MaxStagnant \in Nat \ {0} /\ n >= MaxStagnant
  BY <1>1 DEF Limits
<1>3. W!Stagnates(steps) <=> \A i \in 1 .. MaxStagnant : ~steps[n - MaxStagnant + i].moved
  BY <1>1, <1>2, LastSteps DEF W!Stagnates
<1>4. ASSUME \A i \in 1 .. MaxStagnant : ~steps[n - MaxStagnant + i].moved,
             NEW k \in n - MaxStagnant + 1 .. n
      PROVE  ~steps[k].moved
  <2>1. k - (n - MaxStagnant) \in 1 .. MaxStagnant /\ k = n - MaxStagnant + (k - (n - MaxStagnant))
    BY <1>2
  <2> QED BY <1>4, <2>1
<1>5. ASSUME \A k \in n - MaxStagnant + 1 .. n : ~steps[k].moved, NEW i \in 1 .. MaxStagnant
      PROVE  ~steps[n - MaxStagnant + i].moved
  <2>1. n - MaxStagnant + i \in n - MaxStagnant + 1 .. n
    BY <1>2
  <2> QED BY <1>5, <2>1
<1> QED BY <1>1, <1>3, <1>4, <1>5

LEMMA CyclesSays ==
    ASSUME W!TypeOK
    PROVE  W!Cycles(steps) <=> W!Repeats(2, Len(steps)) \/ W!Repeats(3, Len(steps))
<1>1. PICK n \in Nat : n = Len(steps)
  BY DEF W!TypeOK
<1>2. ASSUME NEW p \in {2, 3}
      PROVE  (n >= 2 * p /\ \A i \in 1 .. p : W!Action(W!Last(steps, 2 * p))[i] = W!Action(W!Last(steps, 2 * p))[i + p])
             <=> W!Repeats(p, n)
  <2> SUFFICES ASSUME n >= 2 * p
               PROVE  (\A i \in 1 .. p : W!Action(W!Last(steps, 2 * p))[i] = W!Action(W!Last(steps, 2 * p))[i + p])
                      <=> \A k \in n - p + 1 .. n : steps[k].act = steps[k - p].act
    BY DEF W!Repeats
  <2>1. p \in Nat \ {0} /\ 2 * p \in Nat \ {0} /\ 2 * p = p + p
    OBVIOUS
  <2>2. \A i \in 1 .. 2 * p : W!Action(W!Last(steps, 2 * p))[i] = steps[n - 2 * p + i].act
    BY <1>1, <2>1, LastCalls
  <2>3. ASSUME NEW i \in 1 .. p
        PROVE  /\ W!Action(W!Last(steps, 2 * p))[i] = steps[n - p + i - p].act
               /\ W!Action(W!Last(steps, 2 * p))[i + p] = steps[n - p + i].act
    <3>1. i \in 1 .. 2 * p /\ i + p \in 1 .. 2 * p
      BY <2>1
    <3>2. n - 2 * p + i = n - p + i - p /\ n - 2 * p + (i + p) = n - p + i
      BY <2>1
    <3> QED BY <2>2, <3>1, <3>2
  <2>4. ASSUME \A i \in 1 .. p : W!Action(W!Last(steps, 2 * p))[i] = W!Action(W!Last(steps, 2 * p))[i + p],
               NEW k \in n - p + 1 .. n
        PROVE  steps[k].act = steps[k - p].act
    <3>1. PICK i \in 1 .. p : k = n - p + i
      <4>1. k - (n - p) \in 1 .. p /\ k = n - p + (k - (n - p))
        BY <2>1
      <4> QED BY <4>1
    <3> QED BY <2>3, <2>4, <3>1
  <2>5. ASSUME \A k \in n - p + 1 .. n : steps[k].act = steps[k - p].act, NEW i \in 1 .. p
        PROVE  W!Action(W!Last(steps, 2 * p))[i] = W!Action(W!Last(steps, 2 * p))[i + p]
    <3>1. n - p + i \in n - p + 1 .. n
      BY <2>1
    <3> QED BY <2>3, <2>5, <3>1
  <2> QED BY <2>4, <2>5
<1> QED BY <1>1, <1>2 DEF W!Cycles

LEMMA QuietAtEnd ==
    Limits /\ W!TypeOK /\ ~W!Runaway(steps) /\ Len(steps) > 0 => Quiet(Len(steps))
<1> SUFFICES ASSUME Limits, W!TypeOK, ~W!Runaway(steps), Len(steps) > 0
             PROVE  Quiet(Len(steps))
  OBVIOUS
<1>1. Len(steps) \in Nat /\ MaxSteps \in Nat
  BY DEF W!TypeOK, Limits
<1> QED BY <1>1, SpinsSays, StagnatesSays, CyclesSays DEF W!Runaway, Quiet

(* What is quiet stays quiet when a step is appended.                      *)
LEMMA QuietStays ==
    ASSUME Limits, W!TypeOK, NEW e, steps' = Append(steps, e), NEW n \in 1 .. Len(steps), Quiet(n)
    PROVE  Quiet(n)'
<1>1. steps \in Seq([act : Actions, moved : BOOLEAN]) /\ Len(steps) \in Nat
  BY DEF W!TypeOK
<1>2. \A i \in 1 .. Len(steps) : steps'[i] = steps[i]
  BY <1>1
<1>3. \A p \in {2, 3} : W!Repeats(p, n) <=> W!Repeats(p, n)'
  <2> SUFFICES ASSUME NEW p \in {2, 3}, n >= 2 * p
               PROVE  (\A i \in n - p + 1 .. n : steps[i].act = steps[i - p].act)
                      <=> (\A i \in n - p + 1 .. n : steps'[i].act = steps'[i - p].act)
    BY DEF W!Repeats
  <2>1. \A i \in n - p + 1 .. n : i \in 1 .. Len(steps) /\ i - p \in 1 .. Len(steps)
    BY <1>1
  <2> QED BY <1>2, <2>1
<1>4. MaxIdentical \in Nat \ {0} /\ MaxStagnant \in Nat \ {0}
  BY DEF Limits
<1>5. n >= MaxIdentical =>
         \E i \in n - MaxIdentical + 1 .. n : steps'[i].act # steps'[n - MaxIdentical + 1].act
  <2> SUFFICES ASSUME n >= MaxIdentical
               PROVE  \E i \in n - MaxIdentical + 1 .. n : steps'[i].act # steps'[n - MaxIdentical + 1].act
    OBVIOUS
  <2>1. \A i \in n - MaxIdentical + 1 .. n : i \in 1 .. Len(steps)
    BY <1>1, <1>4
  <2>2. n - MaxIdentical + 1 \in n - MaxIdentical + 1 .. n
    BY <1>4
  <2> QED BY <1>2, <2>1, <2>2 DEF Quiet
<1>6. n >= MaxStagnant => \E i \in n - MaxStagnant + 1 .. n : steps'[i].moved
  <2> SUFFICES ASSUME n >= MaxStagnant
               PROVE  \E i \in n - MaxStagnant + 1 .. n : steps'[i].moved
    OBVIOUS
  <2>1. \A i \in n - MaxStagnant + 1 .. n : i \in 1 .. Len(steps)
    BY <1>1, <1>4
  <2> QED BY <1>2, <2>1 DEF Quiet
<1> QED BY <1>3, <1>5, <1>6 DEF Quiet

LEMMA WatchStep ==
    ASSUME Limits, WatchInv, [W!Next]_(W!vars)
    PROVE  WatchInv'
<1>0. /\ W!TypeOK /\ steps \in Seq([act : Actions, moved : BOOLEAN]) /\ Len(steps) \in Nat /\ Len(steps) <= WatchHorizon
      /\ WatchHorizon \in Nat
  BY DEF WatchInv, W!TypeOK, Limits
<1>1. CASE W!Reset
  <2>1. steps' = <<>> /\ status' = "CLEARED"
    BY <1>1 DEF W!Reset
  <2>2. W!TypeOK'
    BY <1>0, <2>1 DEF W!TypeOK
  <2> QED BY <2>1, <2>2 DEF WatchInv
<1>2. ASSUME NEW a \in Actions, NEW went \in BOOLEAN, W!RecordStep(a, went)
      PROVE  WatchInv'
  <2>1. /\ Len(steps) < WatchHorizon /\ status # "TRIPPED" /\ escalates' = escalates
        /\ steps' = Append(steps, [act |-> a, moved |-> went])
        /\ status' = IF ~W!Runaway(steps') THEN status ELSE IF escalates THEN "ESCALATED_HITL" ELSE "TRIPPED"
    BY <1>2 DEF W!RecordStep
  <2>2. [act |-> a, moved |-> went] \in [act : Actions, moved : BOOLEAN]
    OBVIOUS
  <2>3. /\ steps' \in Seq([act : Actions, moved : BOOLEAN]) /\ Len(steps') = Len(steps) + 1
    BY <1>0, <2>1, <2>2
  <2>4. W!TypeOK'
    BY <1>0, <2>1, <2>3 DEF W!TypeOK
  <2>5. (status = "ESCALATED_HITL" => escalates) /\ (status' = "ESCALATED_HITL" => escalates')
    BY <2>1 DEF WatchInv
  <2>6. status' = "TRIPPED" => W!Runaway(steps')
    BY <2>1
  <2>7. ASSUME status' # "ESCALATED_HITL", NEW n \in 1 .. Len(steps'), n < Len(steps') \/ Watching'
        PROVE  Quiet(n)'
    <3>1. Watching
      BY <1>0, <2>1, <2>5, <2>7 DEF W!TypeOK, Watching
    <3>2. CASE n = Len(steps')
      <4>1. Watching'
        BY <3>2, <2>3, <2>7, <1>0
      <4>2. ~W!Runaway(steps')
        BY <2>1, <4>1 DEF Watching
      <4>3. (Limits /\ W!TypeOK /\ ~W!Runaway(steps) /\ Len(steps) > 0 => Quiet(Len(steps)))'
        BY QuietAtEnd, PTL
      <4>4. Limits' /\ Len(steps') > 0
        BY <1>0, <2>3 DEF Limits
      <4>5. (Quiet(Len(steps)))'
        BY <2>4, <4>2, <4>3, <4>4
      <4> QED BY <3>2, <4>5
    <3>3. CASE n # Len(steps')
      <4>1. n \in 1 .. Len(steps)
        BY <1>0, <2>3, <3>3
      <4>2. Quiet(n)
        BY <3>1, <4>1 DEF WatchInv, Watching
      <4> QED BY <1>0, <2>1, <4>1, <4>2, QuietStays
    <3> QED BY <3>2, <3>3
  <2> QED BY <2>4, <2>5, <2>6, <2>7 DEF WatchInv
<1>3. CASE UNCHANGED W!vars
  <2>1. steps' = steps /\ status' = status /\ escalates' = escalates
    BY <1>3 DEF W!vars
  <2>2. W!TypeOK' /\ (status' = "ESCALATED_HITL" => escalates')
    BY <2>1 DEF WatchInv, W!TypeOK
  <2>3. W!Runaway(steps') <=> W!Runaway(steps)
    BY <2>1
  <2>4. Watching' <=> Watching
    BY <2>1 DEF Watching
  <2>5. ASSUME NEW n PROVE Quiet(n)' <=> Quiet(n)
    BY <2>1 DEF Quiet, W!Repeats
  <2> QED BY <2>1, <2>2, <2>3, <2>4, <2>5 DEF WatchInv
<1> QED BY <1>1, <1>2, <1>3 DEF W!Next

(* Meanings.                                                               *)
LEMMA WatchShown ==
    ASSUME Limits, WatchInv
    PROVE  W!StoppedInTime /\ W!StopsHaveReasons
<1>0. /\ W!TypeOK /\ steps \in Seq([act : Actions, moved : BOOLEAN]) /\ Len(steps) \in Nat
      /\ {MaxSteps, MaxIdentical, MaxStagnant} \subseteq Nat \ {0}
  BY DEF WatchInv, W!TypeOK, Limits
<1>1. ASSUME status # "ESCALATED_HITL"
      PROVE  /\ Len(steps) <= MaxSteps + 1
             /\ \A n \in 1 .. Len(steps) - 1 :
                   /\ ~W!Repeats(2, n) /\ ~W!Repeats(3, n)
                   /\ \A m \in 0 .. n - MaxIdentical : \E i \in m + 1 .. m + MaxIdentical :
                         steps[i].act # steps[m + 1].act
                   /\ \A m \in 0 .. n - MaxStagnant : \E i \in m + 1 .. m + MaxStagnant : steps[i].moved
  <2>1. \A n \in 1 .. Len(steps) - 1 : Quiet(n)
    BY <1>0, <1>1 DEF WatchInv
  <2>2. Len(steps) <= MaxSteps + 1
    <3>1. CASE Len(steps) <= 1
      BY <1>0, <3>1
    <3>2. CASE Len(steps) > 1
      <4>1. Quiet(Len(steps) - 1)
        BY <1>0, <2>1, <3>2
      <4>2. Len(steps) - 1 <= MaxSteps
        BY <4>1 DEF Quiet
      <4> QED BY <1>0, <4>2
    <3> QED BY <1>0, <3>1, <3>2
  <2>3. ASSUME NEW n \in 1 .. Len(steps) - 1, NEW m \in 0 .. n - MaxIdentical
        PROVE  \E i \in m + 1 .. m + MaxIdentical : steps[i].act # steps[m + 1].act
    <3>1. PICK k : k = m + MaxIdentical /\ k \in 1 .. Len(steps) - 1 /\ k - MaxIdentical + 1 = m + 1 /\ k >= MaxIdentical
      BY <1>0
    <3>2. Quiet(k)
      BY <2>1, <3>1
    <3> QED BY <3>1, <3>2 DEF Quiet
  <2>4. ASSUME NEW n \in 1 .. Len(steps) - 1, NEW m \in 0 .. n - MaxStagnant
        PROVE  \E i \in m + 1 .. m + MaxStagnant : steps[i].moved
    <3>1. PICK k : k = m + MaxStagnant /\ k \in 1 .. Len(steps) - 1 /\ k - MaxStagnant + 1 = m + 1 /\ k >= MaxStagnant
      BY <1>0
    <3>2. Quiet(k)
      BY <2>1, <3>1
    <3> QED BY <3>1, <3>2 DEF Quiet
  <2> QED BY <2>1, <2>2, <2>3, <2>4 DEF Quiet
<1>2. ASSUME status = "TRIPPED"
      PROVE  LET n == Len(steps)
             IN  \/ n > MaxSteps \/ W!Repeats(2, n) \/ W!Repeats(3, n)
                 \/ \A i \in 1 .. MaxIdentical : n >= MaxIdentical /\ steps[n - i + 1].act = steps[n].act
                 \/ \A i \in 1 .. MaxStagnant : n >= MaxStagnant /\ ~steps[n - i + 1].moved
  <2>1. W!Runaway(steps)
    BY <1>2 DEF WatchInv
  <2>2. PICK n \in Nat : n = Len(steps)
    BY <1>0
  <2>3. ASSUME W!Spins(steps), NEW i \in 1 .. MaxIdentical
        PROVE  n >= MaxIdentical /\ steps[n - i + 1].act = steps[n].act
    <3>1. n >= MaxIdentical /\ \A k \in n - MaxIdentical + 1 .. n : steps[k].act = steps[n - MaxIdentical + 1].act
      BY <1>0, <2>2, <2>3, SpinsSays
    <3>2. n - i + 1 \in n - MaxIdentical + 1 .. n /\ n \in n - MaxIdentical + 1 .. n
      BY <1>0, <2>2
    <3>3. /\ steps[n - i + 1].act = steps[n - MaxIdentical + 1].act
          /\ steps[n].act = steps[n - MaxIdentical + 1].act
      BY <3>1, <3>2
    <3> QED BY <3>1, <3>3
  <2>4. ASSUME W!Stagnates(steps), NEW i \in 1 .. MaxStagnant
        PROVE  n >= MaxStagnant /\ ~steps[n - i + 1].moved
    <3>1. n >= MaxStagnant /\ \A k \in n - MaxStagnant + 1 .. n : ~steps[k].moved
      BY <1>0, <2>2, <2>4, StagnatesSays
    <3>2. n - i + 1 \in n - MaxStagnant + 1 .. n
      BY <1>0, <2>2
    <3> QED BY <3>1, <3>2
  <2> QED BY <1>0, <2>1, <2>2, <2>3, <2>4, CyclesSays DEF W!Runaway
<1> QED BY <1>1, <1>2 DEF W!StoppedInTime, W!StopsHaveReasons

(* The watchdog stops a session no later than the step that makes it a     *)
(* runaway (too many steps, repeats, cycles or steps that move nothing),   *)
(* and stops none that is not.                                             *)
THEOREM StopsInTimeAlways ==
    ASSUME W!WatchdogAssumption
    PROVE  W!Spec => [](W!StoppedInTime /\ W!StopsHaveReasons)
<1>0. Limits
  BY DEF Limits, W!WatchdogAssumption
<1>1. W!Init => WatchInv
  <2> SUFFICES ASSUME W!Init PROVE WatchInv
    OBVIOUS
  <2>1. steps = <<>> /\ status = "ACTIVE" /\ WatchHorizon \in Nat
    BY <1>0 DEF W!Init, Limits
  <2> QED BY <2>1 DEF WatchInv, W!TypeOK
<1>2. WatchInv /\ [W!Next]_(W!vars) => WatchInv'
  BY <1>0, WatchStep
<1>3. WatchInv => W!StoppedInTime /\ W!StopsHaveReasons
  BY <1>0, WatchShown
<1> QED BY <1>1, <1>2, <1>3, PTL DEF W!Spec

-----------------------------------------------------------------------------
(* The dispatch of model calls.  A conversation that is waiting for an     *)
(* answer has been described by the call it waits for, and what it has     *)
(* logged and replied follows from where it is.                            *)
Roles == {"none", "chat", "fallback", "remember", "command", "unusable"}
Kinds == /\ pc \in [Conversations -> {"new", "calling", "waiting", "done"}]
         /\ role \in [Conversations -> Roles] /\ last \in [Conversations -> Roles]
         /\ reply \in [Conversations -> [from : Roles, meta : Roles]]
         /\ rows \in [Conversations -> {<<>>, <<"user">>, <<"user", "assistant">>}]
         /\ DOMAIN message = Conversations /\ used \in Nat /\ Limit \in Nat

Served(c) ==
    /\ pc[c] = "new" => reply[c].from = "none" /\ rows[c] = <<>>
    /\ pc[c] \in {"calling", "waiting"} => role[c] \in {"chat", "fallback", "remember", "command"}
    /\ pc[c] = "waiting" /\ role[c] # "remember" => last[c] = role[c]
    /\ pc[c] \in {"calling", "waiting"} /\ role[c] \in {"chat", "fallback"}
           => reply[c].from = "none" /\ rows[c] = (IF D!Ephemeral(message[c]) THEN <<>> ELSE <<"user">>)
    /\ pc[c] \in {"calling", "waiting"} /\ role[c] = "command" => reply[c].from = "none" /\ rows[c] = <<>>
    /\ pc[c] \in {"calling", "waiting"} /\ role[c] = "remember" => reply[c].from = "chat"
    /\ reply[c].from \in {"chat", "fallback", "command"} => reply[c].meta = reply[c].from
    /\ reply[c].from = "unusable" => message[c].kind = "command" /\ reply[c].meta = "none" /\ rows[c] = <<>>
                                     /\ pc[c] = "done"
    /\ pc[c] # "new" /\ role[c] = "command" => message[c].kind = "command"
    /\ reply[c].from \in {"chat", "fallback"} /\ ~D!Ephemeral(message[c]) => rows[c] = <<"user", "assistant">>
    /\ reply[c].from = "none" => rows[c] \in {<<>>, <<"user">>}

(* Every call so far was one its message allows, and the message of a      *)
(* conversation that has called stays what it was.                         *)
Permitted(x) == /\ x.of \in Conversations /\ pc[x.of] # "new"
           /\ LET m == message[x.of]
              IN  m.zone = "private" \/ m.marked \in {"internal", "secret"} \/ m.bound \/ config.backend = "local"
                      => x.place \in D!Local

Falling     == {c \in Conversations : pc[c] \in {"calling", "waiting"} /\ role[c] = "fallback"}
DispatchInv == /\ Kinds /\ \A c \in Conversations : Served(c)
               /\ \A x \in calls : Permitted(x)

(* What a conversation does leaves the others where they were.             *)
LEMMA OthersServed ==
    ASSUME Kinds, NEW c \in Conversations, NEW d \in Conversations, d # c, Served(d),
           pc'[d] = pc[d], role'[d] = role[d], last'[d] = last[d], reply'[d] = reply[d], rows'[d] = rows[d],
           message'[d] = message[d]
    PROVE  Served(d)'
BY DEF Served, D!Ephemeral

LEMMA FailsServed ==
    ASSUME Kinds, NEW c \in Conversations, NEW passing \in BOOLEAN, NEW described \in Roles, Served(c),
           pc[c] \in {"calling", "waiting"}, D!Fails(c, passing, described)
    PROVE  /\ Kinds' /\ Served(c)' /\ config' = config /\ message' = message /\ rows' = rows /\ used' = used
           /\ pc'[c] # "new"
           /\ \A d \in Conversations \ {c} : /\ pc'[d] = pc[d] /\ role'[d] = role[d] /\ last'[d] = last[d]
                                             /\ reply'[d] = reply[d]
<1>1. config' = config /\ message' = message /\ rows' = rows /\ used' = used
  BY DEF D!Fails
<1>2. CASE D!FallsBack(c, passing)
  <2>1. /\ pc' = [pc EXCEPT ![c] = "calling"] /\ role' = [role EXCEPT ![c] = "fallback"]
        /\ last' = [last EXCEPT ![c] = described] /\ reply' = reply /\ role[c] = "chat"
    BY <1>2 DEF D!Fails, D!FallsBack
  <2>2. Kinds'
    BY <1>1, <2>1 DEF Kinds, Roles
  <2>3. pc'[c] = "calling" /\ role'[c] = "fallback"
    BY <2>1 DEF Kinds
  <2>4. Served(c)'
    BY <1>1, <2>1, <2>3 DEF Served, D!Ephemeral
  <2> QED BY <1>1, <2>1, <2>2, <2>3, <2>4 DEF Kinds
<1>3. CASE ~D!FallsBack(c, passing)
  <2>1. /\ pc' = [pc EXCEPT ![c] = "done"] /\ last' = [last EXCEPT ![c] = "none"]
        /\ reply' = IF role[c] = "remember" THEN reply ELSE [reply EXCEPT ![c].meta = described]
        /\ role' = role
    BY <1>3 DEF D!Fails
  <2>2. reply[c] \in [from : Roles, meta : Roles]
    BY DEF Kinds
  <2>3. Kinds'
    BY <1>1, <2>1, <2>2 DEF Kinds, Roles
  <2>4. pc'[c] = "done" /\ reply'[c].from = reply[c].from /\ (role[c] = "remember" => reply'[c] = reply[c])
    BY <2>1, <2>2 DEF Kinds
  <2>5. Served(c)'
    BY <1>1, <2>1, <2>4 DEF Served, D!Ephemeral
  <2> QED BY <1>1, <2>1, <2>3, <2>4, <2>5 DEF Kinds
<1> QED BY <1>2, <1>3

LEMMA Pair == ASSUME NEW x, NEW y PROVE Append(<<x>>, y) = <<x, y>>
<1>1. Append(<<x>>, y) = [i \in 1 .. 2 |-> IF i = 1 THEN x ELSE y]
  OBVIOUS
<1>2. [i \in 1 .. 2 |-> IF i = 1 THEN x ELSE y] = <<x, y>>
  OBVIOUS
<1> QED BY <1>1, <1>2

LEMMA AnswersServed ==
    ASSUME Kinds, NEW c \in Conversations, Served(c), NEW usable \in BOOLEAN, NEW remembers \in BOOLEAN,
           D!Answer(c, usable, remembers)
    PROVE  /\ Kinds' /\ Served(c)' /\ config' = config /\ message' = message /\ calls' = calls
           /\ pc'[c] # "new"
           /\ \A d \in Conversations \ {c} : /\ pc'[d] = pc[d] /\ role'[d] = role[d] /\ last'[d] = last[d]
                                             /\ reply'[d] = reply[d] /\ rows'[d] = rows[d]
<1>1. /\ pc[c] = "waiting" /\ role[c] # "remember" /\ config' = config /\ message' = message /\ calls' = calls
      /\ rows' = IF role[c] = "command" \/ D!Ephemeral(message[c]) THEN rows
                 ELSE [rows EXCEPT ![c] = Append(@, "assistant")]
      /\ (usable \/ role[c] = "command")
      /\ reply' = [reply EXCEPT ![c] = IF usable THEN [from |-> role[c], meta |-> last[c]]
                                        ELSE [from |-> "unusable", meta |-> "none"]]
      /\ last' = [last EXCEPT ![c] = "none"]
      /\ used' = IF role[c] = "fallback" THEN used + 1 ELSE used
  BY DEF D!Answer, D!Answers, D!Undescribed
<1>2. \/ /\ role[c] = "chat" /\ ~D!Ephemeral(message[c])
         /\ pc' = [pc EXCEPT ![c] = "calling"] /\ role' = [role EXCEPT ![c] = "remember"]
      \/ pc' = [pc EXCEPT ![c] = "done"] /\ role' = role
  BY DEF D!Answer, D!Durable, D!Ephemeral
<1>3. role[c] \in {"chat", "fallback", "command"} /\ last[c] = role[c]
  BY <1>1 DEF Served
<1>4. Append(<<"user">>, "assistant") = <<"user", "assistant">>
  BY Pair
<1>5. rows'[c] = IF role[c] = "command" THEN <<>>
                 ELSE IF D!Ephemeral(message[c]) THEN <<>> ELSE <<"user", "assistant">>
  <2>1. CASE role[c] = "command"
    BY <1>1, <2>1 DEF Served
  <2>2. CASE role[c] # "command" /\ D!Ephemeral(message[c])
    BY <1>1, <1>3, <2>2 DEF Served
  <2>3. CASE role[c] # "command" /\ ~D!Ephemeral(message[c])
    <3>1. rows[c] = <<"user">> /\ rows' = [rows EXCEPT ![c] = Append(@, "assistant")]
      BY <1>1, <1>3, <2>3 DEF Served
    <3> QED BY <1>4, <2>3, <3>1 DEF Kinds
  <2> QED BY <2>1, <2>2, <2>3
<1>6. \A d \in Conversations \ {c} : rows'[d] = rows[d]
  BY <1>1 DEF Kinds
<1>7. rows' \in [Conversations -> {<<>>, <<"user">>, <<"user", "assistant">>}]
  <2>1. DOMAIN rows' = Conversations /\ rows' = [d \in Conversations |-> rows'[d]]
    BY <1>1 DEF Kinds
  <2>2. \A d \in Conversations : rows'[d] \in {<<>>, <<"user">>, <<"user", "assistant">>}
    BY <1>5, <1>6 DEF Kinds
  <2> QED BY <2>1, <2>2
<1>8. reply'[c] = IF usable THEN [from |-> role[c], meta |-> last[c]] ELSE [from |-> "unusable", meta |-> "none"]
  BY <1>1 DEF Kinds
<1>9. Kinds'
  <2>1. pc' \in [Conversations -> {"new", "calling", "waiting", "done"}] /\ role' \in [Conversations -> Roles]
    BY <1>2 DEF Kinds, Roles
  <2>2. last' \in [Conversations -> Roles] /\ reply' \in [Conversations -> [from : Roles, meta : Roles]]
    <3>1. [from |-> role[c], meta |-> last[c]] \in [from : Roles, meta : Roles]
          /\ [from |-> "unusable", meta |-> "none"] \in [from : Roles, meta : Roles]
      BY <1>3 DEF Roles
    <3> QED BY <1>1, <3>1 DEF Kinds, Roles
  <2>3. DOMAIN message' = Conversations /\ used' \in Nat
    BY <1>1 DEF Kinds
  <2> QED BY <1>7, <2>1, <2>2, <2>3 DEF Kinds
<1>10. Served(c)'
  <2>1. \/ pc'[c] = "calling" /\ role'[c] = "remember" /\ role[c] = "chat"
        \/ pc'[c] = "done" /\ role'[c] = role[c]
    BY <1>2 DEF Kinds
  <2>2. D!Ephemeral(message[c])' <=> D!Ephemeral(message[c])
    BY <1>1 DEF D!Ephemeral
  <2>4. role[c] = "command" => message'[c].kind = "command"
    BY <1>1 DEF Served
  <2>5. CASE usable
    <3>1. reply'[c].from = role[c] /\ reply'[c].meta = role[c]
      BY <1>3, <1>8, <2>5
    <3> QED BY <1>1, <1>3, <1>5, <2>1, <2>2, <2>4, <3>1 DEF Served
  <2>6. CASE ~usable
    <3>1. reply'[c].from = "unusable" /\ reply'[c].meta = "none" /\ role[c] = "command"
      BY <1>1, <1>8, <2>6
    <3> QED BY <1>1, <1>3, <1>5, <2>1, <2>2, <2>4, <3>1 DEF Served
  <2> QED BY <2>5, <2>6
<1> QED BY <1>1, <1>2, <1>6, <1>9, <1>10 DEF Kinds

LEMMA ReceiveServed ==
    ASSUME D!DispatchAssumption, Kinds, NEW c \in Conversations, Served(c), NEW m \in Messages, D!Receive(c, m)
    PROVE  /\ Kinds' /\ Served(c)' /\ pc[c] = "new" /\ config' = config /\ calls' = calls /\ used' = used
           /\ role'[c] # "fallback"
           /\ \A d \in Conversations \ {c} : /\ pc'[d] = pc[d] /\ role'[d] = role[d] /\ last'[d] = last[d]
                                             /\ reply'[d] = reply[d] /\ rows'[d] = rows[d]
                                             /\ message'[d] = message[d]
<1>1. /\ pc[c] = "new" /\ message' = [message EXCEPT ![c] = m]
      /\ rows' = [rows EXCEPT ![c] =
                    IF D!Unserved(m) \/ m.kind = "command" \/ D!Ephemeral(m) THEN @ ELSE <<"user">>]
      /\ pc' = [pc EXCEPT ![c] = IF D!Unserved(m) \/ (m.kind = "chat" /\ D!Confined(m)) THEN "done" ELSE "calling"]
      /\ role' = [role EXCEPT ![c] = m.kind]
      /\ config' = config /\ last' = last /\ reply' = reply /\ used' = used /\ calls' = calls
  BY DEF D!Receive
<1>2. m.kind \in {"chat", "command"}
  BY DEF D!DispatchAssumption
<1>3. reply[c].from = "none" /\ rows[c] = <<>>
  BY <1>1 DEF Served
<1>4. /\ message'[c] = m /\ role'[c] = m.kind /\ pc'[c] \in {"calling", "done"}
      /\ (pc'[c] = "calling" => ~D!Unserved(m))
      /\ rows'[c] = IF D!Unserved(m) \/ m.kind = "command" \/ D!Ephemeral(m) THEN <<>> ELSE <<"user">>
  BY <1>1, <1>3 DEF Kinds
<1>5. Kinds'
  BY <1>1, <1>2 DEF Kinds, Roles
<1>6. D!Ephemeral(message[c])' <=> D!Ephemeral(m)
  BY <1>4 DEF D!Ephemeral
<1>7. Served(c)'
  BY <1>1, <1>2, <1>3, <1>4, <1>6 DEF Served
<1> QED BY <1>1, <1>2, <1>4, <1>5, <1>7 DEF Kinds

(* The request of c leaves for a place its message allows, or fails before *)
(* it.                                                                     *)
LEMMA CallServed ==
    ASSUME Kinds, NEW c \in Conversations, Served(c), D!Call(c)
    PROVE  \/ /\ \E passing \in BOOLEAN, described \in Roles : D!Fails(c, passing, described)
              /\ pc[c] = "calling" /\ calls' = calls
           \/ /\ Kinds' /\ Served(c)' /\ config' = config /\ message' = message /\ used' = used /\ role' = role
              /\ pc[c] = "calling" /\ pc'[c] = "waiting" /\ reply' = reply /\ rows' = rows
              /\ \A d \in Conversations \ {c} : pc'[d] = pc[d] /\ last'[d] = last[d]
              /\ \E x : x.of = c /\ calls' = calls \cup {x} /\ Permitted(x)'
<1> DEFINE m == message[c]
           place == D!Reach(m, role[c])
<1>1. CASE D!Isolated(m) /\ D!Remote(place)
  <2>1. D!Fails(c, TRUE, last[c]) /\ calls' = calls /\ pc[c] = "calling"
    BY <1>1 DEF D!Call
  <2> QED BY <2>1 DEF Kinds
<1>2. CASE ~(D!Isolated(m) /\ D!Remote(place)) /\ (~D!Permits(m, place) \/ place = "none")
  <2>1. D!Fails(c, TRUE, role[c]) /\ calls' = calls /\ pc[c] = "calling"
    BY <1>2 DEF D!Call
  <2> QED BY <2>1 DEF Kinds
<1>3. CASE ~(D!Isolated(m) /\ D!Remote(place)) /\ D!Permits(m, place) /\ place # "none"
  <2>1. PICK x : x = [of |-> c, role |-> role[c], place |-> place]
    OBVIOUS
  <2>2. /\ pc[c] = "calling" /\ calls' = calls \cup {x}
        /\ pc' = [pc EXCEPT ![c] = "waiting"] /\ last' = [last EXCEPT ![c] = role[c]]
        /\ config' = config /\ message' = message /\ role' = role /\ reply' = reply /\ rows' = rows /\ used' = used
    BY <1>3, <2>1 DEF D!Call
  <2>3. Kinds'
    BY <2>2 DEF Kinds
  <2>4. pc'[c] = "waiting" /\ last'[c] = role[c]
    BY <2>2 DEF Kinds
  <2>5. D!Ephemeral(message[c])' <=> D!Ephemeral(message[c])
    BY <2>2 DEF D!Ephemeral
  <2>6. Served(c)'
    BY <2>2, <2>4, <2>5 DEF Served
  <2>7. m.zone = "private" \/ m.marked \in {"internal", "secret"} \/ m.bound \/ config.backend = "local"
           => place \in D!Local
    BY <1>3 DEF D!Isolated, D!Permits, D!Internal, D!Remote
  <2>8. x.of = c /\ x.place = place
    BY <2>1
  <2>9. Permitted(x)'
    BY <2>2, <2>4, <2>7, <2>8 DEF Permitted, D!Local
  <2> QED BY <2>2, <2>3, <2>4, <2>6, <2>8, <2>9 DEF Kinds
<1> QED BY <1>1, <1>2, <1>3

LEMMA RefuseServed ==
    ASSUME Kinds, NEW c \in Conversations, NEW failure \in D!Failures, D!Refuse(c, failure)
    PROVE  /\ \E passing \in BOOLEAN, described \in Roles : D!Fails(c, passing, described)
           /\ pc[c] = "waiting" /\ calls' = calls
<1>1. D!Fails(c, failure \in D!Passing, role[c]) /\ pc[c] = "waiting" /\ calls' = calls
  BY DEF D!Refuse
<1>2. CASE failure \in D!Passing
  <2>1. D!Fails(c, TRUE, role[c])
    BY <1>1, <1>2 DEF D!Fails, D!FallsBack
  <2> QED BY <1>1, <2>1 DEF Kinds
<1>3. CASE failure \notin D!Passing
  <2>1. D!Fails(c, FALSE, role[c])
    BY <1>1, <1>3 DEF D!Fails, D!FallsBack
  <2> QED BY <1>1, <2>1 DEF Kinds
<1> QED BY <1>2, <1>3

LEMMA DispatchStep ==
    ASSUME D!DispatchAssumption, DispatchInv, [D!Next]_(D!vars)
    PROVE  DispatchInv'
<1>0. Kinds /\ (\A d \in Conversations : Served(d)) /\ \A x \in calls : Permitted(x)
  BY DEF DispatchInv
<1>1. ASSUME NEW c \in Conversations, NEW m \in Messages, D!Receive(c, m)
      PROVE  DispatchInv'
  <2>1. /\ Kinds' /\ Served(c)' /\ pc[c] = "new" /\ config' = config /\ calls' = calls
        /\ \A d \in Conversations \ {c} : /\ pc'[d] = pc[d] /\ role'[d] = role[d] /\ last'[d] = last[d]
                                          /\ reply'[d] = reply[d] /\ rows'[d] = rows[d]
                                          /\ message'[d] = message[d]
    BY <1>0, <1>1, ReceiveServed
  <2>2. \A d \in Conversations : Served(d)'
    BY <1>0, <2>1, OthersServed
  <2>3. \A x \in calls : Permitted(x)'
    BY <1>0, <2>1 DEF Permitted, D!Local
  <2> QED BY <2>1, <2>2, <2>3 DEF DispatchInv
<1>2. ASSUME NEW c \in Conversations, NEW passing \in BOOLEAN, NEW described \in Roles,
             D!Fails(c, passing, described), pc[c] \in {"calling", "waiting"}, calls' = calls
      PROVE  DispatchInv'
  <2>1. /\ Kinds' /\ Served(c)' /\ config' = config /\ message' = message /\ rows' = rows /\ pc'[c] # "new"
        /\ \A d \in Conversations \ {c} : /\ pc'[d] = pc[d] /\ role'[d] = role[d] /\ last'[d] = last[d]
                                          /\ reply'[d] = reply[d]
    BY <1>0, <1>2, FailsServed
  <2>2. \A d \in Conversations : Served(d)'
    BY <1>0, <2>1, OthersServed
  <2>3. \A x \in calls : Permitted(x)'
    BY <1>0, <2>1 DEF Permitted, D!Local
  <2> QED BY <1>2, <2>1, <2>2, <2>3 DEF DispatchInv
<1>3. ASSUME NEW c \in Conversations, D!Call(c)
      PROVE  DispatchInv'
  <2>1. CASE \E passing \in BOOLEAN, described \in Roles : D!Fails(c, passing, described)
             /\ pc[c] = "calling" /\ calls' = calls
    BY <1>2, <2>1
  <2>2. CASE /\ Kinds' /\ Served(c)' /\ config' = config /\ message' = message /\ role' = role
             /\ pc'[c] = "waiting" /\ reply' = reply /\ rows' = rows
             /\ \A d \in Conversations \ {c} : pc'[d] = pc[d] /\ last'[d] = last[d]
             /\ \E x : x.of = c /\ calls' = calls \cup {x} /\ Permitted(x)'
    <3>1. \A d \in Conversations : Served(d)'
      BY <1>0, <2>2, OthersServed
    <3>2. PICK x : calls' = calls \cup {x} /\ Permitted(x)'
      BY <2>2
    <3>3. \A y \in calls : Permitted(y)'
      BY <1>0, <2>2 DEF Permitted, D!Local
    <3> QED BY <2>2, <3>1, <3>2, <3>3 DEF DispatchInv
  <2> QED BY <1>0, <1>3, <2>1, <2>2, CallServed
<1>4. ASSUME NEW c \in Conversations, NEW failure \in D!Failures, D!Refuse(c, failure)
      PROVE  DispatchInv'
  BY <1>0, <1>2, <1>4, RefuseServed
<1>5. ASSUME NEW c \in Conversations, NEW usable \in BOOLEAN, NEW remembers \in BOOLEAN,
           D!Answer(c, usable, remembers)
      PROVE  DispatchInv'
  <2>1. /\ Kinds' /\ Served(c)' /\ config' = config /\ message' = message /\ calls' = calls /\ pc'[c] # "new"
        /\ \A d \in Conversations \ {c} : /\ pc'[d] = pc[d] /\ role'[d] = role[d] /\ last'[d] = last[d]
                                          /\ reply'[d] = reply[d] /\ rows'[d] = rows[d]
    BY <1>0, <1>5, AnswersServed
  <2>2. \A d \in Conversations : Served(d)'
    BY <1>0, <2>1, OthersServed
  <2>3. \A x \in calls : Permitted(x)'
    BY <1>0, <2>1 DEF Permitted, D!Local
  <2> QED BY <2>1, <2>2, <2>3 DEF DispatchInv
<1>6. ASSUME NEW c \in Conversations, D!Remembered(c)
      PROVE  DispatchInv'
  <2>1. /\ pc[c] = "waiting" /\ role[c] = "remember" /\ pc' = [pc EXCEPT ![c] = "done"]
        /\ config' = config /\ message' = message /\ role' = role /\ last' = last /\ reply' = reply
        /\ rows' = rows /\ used' = used /\ calls' = calls
    BY <1>6 DEF D!Remembered
  <2>2. Kinds' /\ pc'[c] = "done" /\ \A d \in Conversations \ {c} : pc'[d] = pc[d]
    BY <1>0, <2>1 DEF Kinds
  <2>3. Served(c)'
    BY <1>0, <2>1, <2>2 DEF Served, D!Ephemeral
  <2>4. \A d \in Conversations : Served(d)'
    BY <1>0, <2>1, <2>2, <2>3, OthersServed
  <2>5. \A x \in calls : Permitted(x)'
    BY <1>0, <2>1, <2>2 DEF Permitted, D!Local
  <2> QED BY <2>1, <2>2, <2>4, <2>5 DEF DispatchInv
<1>7. CASE UNCHANGED D!vars
  <2>1. /\ config' = config /\ message' = message /\ pc' = pc /\ role' = role /\ last' = last /\ reply' = reply
        /\ rows' = rows /\ used' = used /\ calls' = calls
    BY <1>7 DEF D!vars
  <2>2. Kinds'
    BY <1>0, <2>1 DEF Kinds
  <2>3. \A d \in Conversations : Served(d)'
    BY <1>0, <2>1 DEF Served, D!Ephemeral
  <2>4. \A x \in calls : Permitted(x)'
    BY <1>0, <2>1 DEF Permitted, D!Local
  <2> QED BY <2>1, <2>2, <2>3, <2>4 DEF DispatchInv
<1> QED BY <1>1, <1>3, <1>4, <1>5, <1>6, <1>7 DEF D!Next

(* Initially nothing has been called or replied.                           *)
LEMMA DispatchStart ==
    ASSUME D!DispatchAssumption, D!Init
    PROVE  DispatchInv
<1>1. /\ DOMAIN message = Conversations /\ used \in 0 .. Limit /\ calls = {} /\ Limit \in Nat
      /\ pc = [c \in Conversations |-> "new"] /\ role = [c \in Conversations |-> "chat"]
      /\ last = [c \in Conversations |-> "none"] /\ rows = [c \in Conversations |-> <<>>]
      /\ reply = [c \in Conversations |-> [from |-> "none", meta |-> "none"]]
  BY DEF D!Init, D!DispatchAssumption
<1>2. Kinds
  BY <1>1 DEF Kinds, Roles
<1>3. ASSUME NEW c \in Conversations PROVE Served(c)
  BY <1>1 DEF Served
<1> QED BY <1>1, <1>2, <1>3 DEF DispatchInv

LEMMA DispatchTypes ==
    ASSUME D!DispatchAssumption, DispatchInv, config \in Configs, message \in [Conversations -> Messages],
           [D!Next]_(D!vars)
    PROVE  config' \in Configs /\ message' \in [Conversations -> Messages]
<1>1. ASSUME NEW c \in Conversations, NEW m \in Messages, D!Receive(c, m)
      PROVE  config' = config /\ message' \in [Conversations -> Messages]
  BY <1>1 DEF D!Receive
<1>2. ASSUME NEW c \in Conversations, NEW passing, NEW described, D!Fails(c, passing, described)
      PROVE  config' = config /\ message' = message
  BY <1>2 DEF D!Fails
<1>3. ASSUME NEW c \in Conversations, D!Call(c) \/ \E failure \in D!Failures : D!Refuse(c, failure)
      PROVE  config' = config /\ message' = message
  BY <1>2, <1>3 DEF D!Call, D!Refuse
<1>4. ASSUME NEW c \in Conversations, D!Remembered(c) \/ \E usable, remembers \in BOOLEAN : D!Answer(c, usable, remembers)
      PROVE  config' = config /\ message' = message
  BY <1>4 DEF D!Remembered, D!Answer
<1>5. UNCHANGED D!vars => config' = config /\ message' = message
  BY DEF D!vars
<1> QED BY <1>1, <1>3, <1>4, <1>5 DEF D!Next

(* The calls, replies and rows of every conversation keep their types.     *)
THEOREM DispatchTyped ==
    ASSUME D!DispatchAssumption, Messages # {}
    PROVE  D!Spec => []D!TypeOK
<1> DEFINE Typed == config \in Configs /\ message \in [Conversations -> Messages]
<1>1. D!Init => DispatchInv /\ Typed
  BY DispatchStart DEF D!Init
<1>2. DispatchInv /\ Typed /\ [D!Next]_(D!vars) => (DispatchInv /\ Typed)'
  BY DispatchStep, DispatchTypes
<1>3. DispatchInv /\ Typed => D!TypeOK
  BY DEF DispatchInv, Kinds, Roles, D!TypeOK
<1> QED BY <1>1, <1>2, <1>3, PTL DEF D!Spec

(* Whatever fails, falls back or is remembered after it, a call made for a *)
(* private message, for one marked internal or secret, under a local       *)
(* boundary or by a server whose backend is local stays on the machine or  *)
(* its LAN.                                                                *)
THEOREM StaysLocalAlways ==
    ASSUME D!DispatchAssumption
    PROVE  D!Spec => []D!StaysLocal
<1>1. D!Init => DispatchInv
  BY DispatchStart
<1>2. DispatchInv /\ [D!Next]_(D!vars) => DispatchInv'
  BY DispatchStep
<1>3. DispatchInv => D!StaysLocal
  BY DEF DispatchInv, Permitted, D!StaysLocal
<1> QED BY <1>1, <1>2, <1>3, PTL DEF D!Spec

(* The metadata of a reply describe the call its text came from, although  *)
(* lastRoutingPolicyRecord is written by every call and cleared by others, *)
(* but for the reply to a command that found no use for the answer, which  *)
(* has none; and the log holds the messages that were answered, and no     *)
(* others.                                                                 *)
THEOREM RepliesDescribeTheirCalls ==
    ASSUME D!DispatchAssumption
    PROVE  D!Spec => []D!ReplyDescribesItsCall
<1>1. D!Init => DispatchInv
  BY DispatchStart
<1>2. DispatchInv /\ [D!Next]_(D!vars) => DispatchInv'
  BY DispatchStep
<1>3. DispatchInv => D!ReplyDescribesItsCall
  BY DEF DispatchInv, Served, D!ReplyDescribesItsCall
<1> QED BY <1>1, <1>2, <1>3, PTL DEF D!Spec

-----------------------------------------------------------------------------
(* The conversations at a fallback use up, when they succeed, what is left *)
(* of the limit and no more than one use each.                             *)
FallbackInv == DispatchInv /\ used + Cardinality(Falling) < Limit + Cardinality(Conversations)

LEMMA OneMore ==
    ASSUME NEW S, IsFiniteSet(S), NEW x \in S, NEW T \in SUBSET S, NEW U \in SUBSET S, T \ {x} = U \ {x}
    PROVE  /\ Cardinality(T) \in Nat /\ Cardinality(U) \in Nat /\ Cardinality(S) \in Nat
           /\ Cardinality(T) <= Cardinality(S)
           /\ x \in U \/ x \notin T => Cardinality(T) <= Cardinality(U)
           /\ x \notin U /\ x \in T => Cardinality(T) = Cardinality(U) + 1
<1>1. IsFiniteSet(T) /\ IsFiniteSet(U)
  BY FS_Subset
<1>2. Cardinality(T) \in Nat /\ Cardinality(U) \in Nat /\ Cardinality(S) \in Nat
  BY <1>1, FS_CardinalityType
<1>3. Cardinality(T) <= Cardinality(S)
  BY FS_Subset
<1>4. ASSUME x \in U \/ x \notin T PROVE Cardinality(T) <= Cardinality(U)
  <2>1. T \subseteq U
    BY <1>4
  <2> QED BY <1>1, <2>1, FS_Subset
<1>5. ASSUME x \notin U, x \in T PROVE Cardinality(T) = Cardinality(U) + 1
  <2>1. T = U \cup {x}
    BY <1>5
  <2> QED BY <1>1, <1>5, <2>1, FS_AddElement
<1> QED BY <1>2, <1>3, <1>4, <1>5

LEMMA FallbackStep ==
    ASSUME D!DispatchAssumption, IsFiniteSet(Conversations), FallbackInv, [D!Next]_(D!vars)
    PROVE  FallbackInv'
<1>0. /\ DispatchInv /\ Kinds /\ (\A d \in Conversations : Served(d)) /\ used \in Nat /\ Limit \in Nat
      /\ used + Cardinality(Falling) < Limit + Cardinality(Conversations)
  BY DEF FallbackInv, DispatchInv, Kinds
<1> DEFINE FewFall == used' + Cardinality(Falling') < Limit + Cardinality(Conversations)
<1>1. ASSUME NEW c \in Conversations, \A d \in Conversations \ {c} : pc'[d] = pc[d] /\ role'[d] = role[d]
      PROVE  /\ Cardinality(Falling') \in Nat /\ Cardinality(Falling) \in Nat
             /\ Cardinality(Conversations) \in Nat /\ Cardinality(Falling') <= Cardinality(Conversations)
             /\ c \in Falling \/ c \notin Falling' => Cardinality(Falling') <= Cardinality(Falling)
             /\ c \in Falling /\ c \notin Falling' => Cardinality(Falling) = Cardinality(Falling') + 1
  <2>1. Falling' \ {c} = Falling \ {c} /\ Falling \in SUBSET Conversations /\ Falling' \in SUBSET Conversations
    BY <1>1 DEF Falling
  <2> HIDE DEF Falling
  <2>2. PICK T \in SUBSET Conversations : T = Falling'
    BY <2>1
  <2> QED BY <2>1, <2>2, OneMore
<1>2. ASSUME NEW c \in Conversations, NEW m \in Messages, D!Receive(c, m) PROVE FewFall
  <2>1. /\ pc[c] = "new" /\ used' = used /\ role'[c] # "fallback"
        /\ \A d \in Conversations \ {c} : pc'[d] = pc[d] /\ role'[d] = role[d]
    BY <1>0, <1>2, ReceiveServed
  <2>2. c \notin Falling'
    BY <2>1 DEF Falling
  <2> QED BY <1>0, <1>1, <2>1, <2>2
<1>3. ASSUME NEW c \in Conversations, NEW passing \in BOOLEAN, NEW described \in Roles,
             D!Fails(c, passing, described), pc[c] \in {"calling", "waiting"}
      PROVE  FewFall
  <2>1. /\ used' = used /\ \A d \in Conversations \ {c} : pc'[d] = pc[d] /\ role'[d] = role[d]
    BY <1>0, <1>3, FailsServed
  <2>2. CASE D!FallsBack(c, passing)
    <3>1. used < Limit
      BY <2>2 DEF D!FallsBack, D!Room
    <3> QED BY <1>0, <1>1, <2>1, <3>1
  <2>3. CASE ~D!FallsBack(c, passing)
    <3>1. pc' = [pc EXCEPT ![c] = "done"]
      BY <1>3, <2>3 DEF D!Fails
    <3>2. c \notin Falling'
      BY <1>0, <3>1 DEF Falling, Kinds
    <3> QED BY <1>0, <1>1, <2>1, <3>2
  <2> QED BY <2>2, <2>3
<1>4. ASSUME NEW c \in Conversations, D!Call(c) PROVE FewFall
  <2>1. CASE \E passing \in BOOLEAN, described \in Roles : D!Fails(c, passing, described)
             /\ pc[c] = "calling"
    BY <1>3, <2>1
  <2>2. CASE /\ used' = used /\ role' = role /\ pc[c] = "calling"
             /\ \A d \in Conversations \ {c} : pc'[d] = pc[d]
    <3>1. c \in Falling \/ c \notin Falling'
      BY <2>2 DEF Falling
    <3> QED BY <1>0, <1>1, <2>2, <3>1
  <2> QED BY <1>0, <1>4, <2>1, <2>2, CallServed
<1>5. ASSUME NEW c \in Conversations, NEW failure \in D!Failures, D!Refuse(c, failure) PROVE FewFall
  BY <1>0, <1>3, <1>5, RefuseServed
<1>6. ASSUME NEW c \in Conversations, NEW usable \in BOOLEAN, NEW remembers \in BOOLEAN,
           D!Answer(c, usable, remembers) PROVE FewFall
  <2>1. \A d \in Conversations \ {c} : pc'[d] = pc[d] /\ role'[d] = role[d]
    BY <1>0, <1>6, AnswersServed
  <2>2. /\ pc[c] = "waiting" /\ used' = IF role[c] = "fallback" THEN used + 1 ELSE used
        /\ \/ pc' = [pc EXCEPT ![c] = "calling"] /\ role' = [role EXCEPT ![c] = "remember"]
           \/ pc' = [pc EXCEPT ![c] = "done"] /\ role' = role
    BY <1>6 DEF D!Answer, D!Answers, D!Undescribed
  <2>3. c \notin Falling'
    BY <1>0, <2>2 DEF Falling, Kinds
  <2>4. CASE role[c] = "fallback"
    <3>1. c \in Falling /\ used' = used + 1
      BY <2>2, <2>4 DEF Falling
    <3> QED BY <1>0, <1>1, <2>1, <2>3, <3>1
  <2>5. CASE role[c] # "fallback"
    BY <1>0, <1>1, <2>1, <2>2, <2>3, <2>5
  <2> QED BY <2>4, <2>5
<1>7. ASSUME NEW c \in Conversations, D!Remembered(c) PROVE FewFall
  <2>1. role[c] = "remember" /\ pc' = [pc EXCEPT ![c] = "done"] /\ role' = role /\ used' = used
    BY <1>7 DEF D!Remembered
  <2>2. c \notin Falling' /\ \A d \in Conversations \ {c} : pc'[d] = pc[d]
    BY <1>0, <2>1 DEF Falling, Kinds
  <2> QED BY <1>0, <1>1, <2>1, <2>2
<1>8. ASSUME UNCHANGED D!vars PROVE FewFall
  <2>1. pc' = pc /\ role' = role /\ used' = used
    BY <1>8 DEF D!vars
  <2>2. Falling' = Falling
    BY <2>1 DEF Falling
  <2>3. Cardinality(Falling') = Cardinality(Falling)
    BY <2>2
  <2> QED BY <1>0, <2>1, <2>3
<1> HIDE DEF FewFall
<1>9. FewFall
  <2>1. D!Next \/ UNCHANGED D!vars
    OBVIOUS
  <2> QED BY <1>2, <1>4, <1>5, <1>6, <1>7, <1>8, <2>1 DEF D!Next
<1>10. DispatchInv'
  BY <1>0, DispatchStep
<1> QED BY <1>9, <1>10 DEF FallbackInv, FewFall

(* Turns that found room at the same time may all use it: the fallbacks    *)
(* recorded in an hour pass their limit by fewer than there are            *)
(* conversations, and by no more.                                          *)
THEOREM FallbacksWithinAlways ==
    ASSUME D!DispatchAssumption, IsFiniteSet(Conversations), Conversations # {}
    PROVE  D!Spec => []D!FallbacksWithin
<1>1. D!Init => FallbackInv
  <2> SUFFICES ASSUME D!Init PROVE FallbackInv
    OBVIOUS
  <2>1. used \in 0 .. Limit /\ Limit \in Nat /\ pc = [c \in Conversations |-> "new"]
    BY DEF D!Init, D!DispatchAssumption
  <2>2. Falling = {}
    BY <2>1 DEF Falling
  <2>3. Cardinality(Falling) = 0 /\ Cardinality(Conversations) \in Nat /\ Cardinality(Conversations) # 0
    BY <2>2, FS_EmptySet, FS_CardinalityType
  <2>4. used + Cardinality(Falling) < Limit + Cardinality(Conversations)
    BY <2>1, <2>3
  <2> QED BY <2>4, DispatchStart DEF FallbackInv
<1>2. FallbackInv /\ [D!Next]_(D!vars) => FallbackInv'
  BY FallbackStep
<1>3. FallbackInv => D!FallbacksWithin
  <2> SUFFICES ASSUME FallbackInv PROVE D!FallbacksWithin
    OBVIOUS
  <2>1. IsFiniteSet(Falling)
    BY FS_Subset DEF Falling
  <2>2. Cardinality(Falling) \in Nat /\ Cardinality(Conversations) \in Nat
    BY <2>1, FS_CardinalityType
  <2> HIDE DEF Falling
  <2>3. used \in Nat /\ Limit \in Nat /\ used + Cardinality(Falling) < Limit + Cardinality(Conversations)
    BY DEF FallbackInv, DispatchInv, Kinds
  <2>4. used < Limit + Cardinality(Conversations)
    BY <2>2, <2>3
  <2>5. Cardinality(Conversations) = D!Cardinality(Conversations)
    BY DEF Cardinality, D!Cardinality
  <2> QED BY <2>4, <2>5 DEF D!FallbacksWithin
<1> QED BY <1>1, <1>2, <1>3, PTL DEF D!Spec

-----------------------------------------------------------------------------
(* The contracts of steps.  What a passed step leaves stays, since nothing *)
(* removes an artifact; a step that was given up is on record as such.     *)
Statuses   == {"PASSED", "FAILED_PRECONDITION", "FAILED_POSTCONDITION", "FAILED_EXECUTION", "FAILED_TIMEOUT"}
Faulty     == {"none", "orchestration", "logic"}
ResultType == [step : Steps, status : Statuses, class : Faulty]
Attempts   == [step : Steps, n : Nat]

StepsInv ==
    /\ world \in [Artifacts -> Nat] /\ results \in Seq(ResultType)
    /\ running # K!NoAttempt => running \in Attempts /\ running.n = Len(results) + 1
    /\ \A a \in late : a \in Attempts /\ a.n \in 1 .. Len(results) /\ results[a.n].status = "FAILED_TIMEOUT"
    /\ \A i \in 1 .. Len(results) : results[i].status = "PASSED" =>
           results[i].class = "none" /\ \A a \in Leaves[results[i].step] : world[a] > 0

Unclassed == {i \in 1 .. receipt.of : results[i].status # "PASSED" /\ results[i].class = "none"}
ReceiptInv ==
    /\ receipt.of \in 0 .. Len(results)
    /\ receipt.verdict = "VERIFIED_PASSED" => \A i \in 1 .. receipt.of : results[i].status = "PASSED"
    /\ receipt.failed = receipt.orchestration + receipt.logic + Cardinality(Unclassed)

ContractInv == StepsInv /\ ReceiptInv

LEMMA ResultsTyped ==
    ASSUME K!ContractAssumption, ContractInv
    PROVE  /\ results \in Seq(ResultType) /\ DOMAIN results = 1 .. Len(results) /\ Len(results) \in Nat
           /\ \A i \in 1 .. Len(results) :
                 /\ results[i] \in ResultType /\ Leaves[results[i].step] \subseteq Artifacts
                 /\ results[i].class \in Faulty /\ (results[i].status = "PASSED" => results[i].class = "none")
<1>1. results \in Seq(ResultType) /\ DOMAIN results = 1 .. Len(results) /\ Len(results) \in Nat
  BY DEF ContractInv, StepsInv
<1>2. ASSUME NEW i \in 1 .. Len(results)
      PROVE  /\ results[i] \in ResultType /\ Leaves[results[i].step] \subseteq Artifacts
             /\ results[i].class \in Faulty /\ (results[i].status = "PASSED" => results[i].class = "none")
  <2>1. results[i] \in ResultType
    BY <1>1
  <2>2. results[i].step \in Steps /\ results[i].class \in Faulty
    BY <2>1 DEF ResultType
  <2>3. results[i].status = "PASSED" => results[i].class = "none"
    BY DEF ContractInv, StepsInv
  <2> QED BY <2>1, <2>2, <2>3 DEF K!ContractAssumption
<1> QED BY <1>1, <1>2

(* An attempt that concludes adds one result, and what it writes is added. *)
Adds(w) == w \in [Artifacts -> Nat] /\ \A a \in Artifacts : world[a] > 0 => w[a] > 0

LEMMA WrittenAdds ==
    ASSUME StepsInv, NEW attempt \in Attempts, attempt.n > 0, NEW w \in {world, K!Written(attempt)}
    PROVE  Adds(w)
BY DEF StepsInv, Adds, K!Written, Attempts

LEMMA Concluded ==
    ASSUME K!ContractAssumption, ContractInv, NEW attempt \in Attempts, NEW outcome \in Statuses, NEW class \in Faulty,
           NEW w, Adds(w), attempt.n = Len(results) + 1,
           outcome = "PASSED" => class = "none" /\ \A a \in Leaves[attempt.step] : w[a] > 0,
           K!Concludes(attempt, outcome, class, w),
           late' = late \/ (late' = late \cup {attempt} /\ outcome = "FAILED_TIMEOUT")
    PROVE  ContractInv'
<1> DEFINE r == [step |-> attempt.step, status |-> outcome, class |-> class]
<1>1. /\ results' = Append(results, r) /\ running' = K!NoAttempt /\ world' = w /\ receipt' = receipt
  BY DEF K!Concludes
<1>2. r \in ResultType /\ r.status = outcome /\ r.class = class /\ r.step = attempt.step
  BY DEF ResultType, Attempts
<1> HIDE DEF r
<1>3. /\ results' \in Seq(ResultType) /\ Len(results') = Len(results) + 1 /\ results'[Len(results) + 1] = r
      /\ \A i \in 1 .. Len(results) : results'[i] = results[i]
      /\ Len(results) \in Nat /\ world' \in [Artifacts -> Nat]
  BY <1>1, <1>2 DEF ContractInv, StepsInv, Adds
<1>4. \A i \in 1 .. Len(results) : results[i] \in ResultType /\ Leaves[results[i].step] \subseteq Artifacts
  BY ResultsTyped
<1>5. ASSUME NEW i \in 1 .. Len(results'), results'[i].status = "PASSED"
      PROVE  results'[i].class = "none" /\ \A a \in Leaves[results'[i].step] : world'[a] > 0
  <2>1. CASE i = Len(results) + 1
    BY <1>1, <1>2, <1>3, <1>5, <2>1
  <2>2. CASE i # Len(results) + 1
    BY <1>1, <1>3, <1>4, <1>5, <2>2 DEF ContractInv, StepsInv, Adds
  <2> QED BY <2>1, <2>2
<1>6. ASSUME NEW a \in late'
      PROVE  a \in Attempts /\ a.n \in 1 .. Len(results') /\ results'[a.n].status = "FAILED_TIMEOUT"
  <2>1. CASE a \in late
    BY <1>3, <2>1 DEF ContractInv, StepsInv
  <2>2. CASE a \notin late
    BY <1>2, <1>3, <1>6, <2>2
  <2> QED BY <2>1, <2>2
<1>7. StepsInv'
  BY <1>1, <1>3, <1>5, <1>6 DEF StepsInv
<1>8. Unclassed' = Unclassed
  BY <1>1, <1>3 DEF Unclassed, ContractInv, ReceiptInv
<1>9. ReceiptInv'
  BY <1>1, <1>3, <1>8 DEF ContractInv, ReceiptInv
<1> QED BY <1>7, <1>9 DEF ContractInv

LEMMA RunningTyped ==
    ASSUME ContractInv, running # K!NoAttempt
    PROVE  running \in Attempts /\ running.n = Len(results) + 1 /\ running.n > 0 /\ running.step \in Steps
BY DEF ContractInv, StepsInv, Attempts

LEMMA BeginKeeps ==
    ASSUME K!ContractAssumption, ContractInv, NEW step \in Steps, K!Begin(step)
    PROVE  ContractInv'
<1> DEFINE attempt == [step |-> step, n |-> Len(results) + 1]
<1>1. attempt \in Attempts /\ attempt.n = Len(results) + 1
  BY DEF Attempts, ContractInv, StepsInv
<1>2. CASE K!Present(Needs[step], world)
  <2>1. running' = attempt /\ UNCHANGED <<world, late, results, receipt>>
    BY <1>2 DEF K!Begin
  <2>2. StepsInv'
    BY <1>1, <2>1 DEF ContractInv, StepsInv
  <2>3. ReceiptInv'
    BY <2>1 DEF ContractInv, ReceiptInv, Unclassed
  <2> QED BY <2>2, <2>3 DEF ContractInv
<1>3. CASE ~K!Present(Needs[step], world)
  <2>1. PICK class \in K!CheckFaults : K!Concludes(attempt, "FAILED_PRECONDITION", class, world) /\ late' = late
    BY <1>3 DEF K!Begin
  <2>2. class \in Faulty /\ "FAILED_PRECONDITION" \in Statuses /\ Adds(world)
    BY DEF K!CheckFaults, Faulty, Statuses, Adds, ContractInv, StepsInv
  <2> HIDE DEF attempt
  <2> QED BY <1>1, <2>1, <2>2, Concluded
<1> QED BY <1>2, <1>3

LEMMA ReturnKeeps ==
    ASSUME K!ContractAssumption, ContractInv, K!Return
    PROVE  ContractInv'
<1>1. running # K!NoAttempt /\ late' = late
  BY DEF K!Return
<1>2. PICK w \in {world, K!Written(running)} :
          IF K!PostconditionsHold(running.step, w) THEN K!Concludes(running, "PASSED", "none", w)
          ELSE \E class \in K!CheckFaults : K!Concludes(running, "FAILED_POSTCONDITION", class, w)
  BY DEF K!Return
<1>3. /\ running \in Attempts /\ running.n = Len(results) + 1 /\ running.n > 0 /\ Adds(w)
      /\ "PASSED" \in Statuses /\ "FAILED_POSTCONDITION" \in Statuses /\ "none" \in Faulty
  BY <1>1, RunningTyped, WrittenAdds DEF ContractInv, Statuses, Faulty
<1>4. CASE K!PostconditionsHold(running.step, w)
  <2>1. \A a \in Leaves[running.step] : w[a] > 0
    BY <1>4 DEF K!PostconditionsHold, K!Present
  <2> QED BY <1>1, <1>2, <1>3, <1>4, <2>1, Concluded
<1>5. CASE ~K!PostconditionsHold(running.step, w)
  <2>1. PICK class \in K!CheckFaults : K!Concludes(running, "FAILED_POSTCONDITION", class, w)
    BY <1>2, <1>5
  <2>2. class \in Faulty
    BY DEF K!CheckFaults, Faulty
  <2> QED BY <1>1, <1>3, <2>1, <2>2, Concluded
<1> QED BY <1>4, <1>5

LEMMA ThrowKeeps ==
    ASSUME K!ContractAssumption, ContractInv, K!Throw
    PROVE  ContractInv'
<1>1. running # K!NoAttempt /\ late' = late
  BY DEF K!Throw
<1>2. PICK w \in {world, K!Written(running)}, class \in {"orchestration", "logic"} :
          K!Concludes(running, "FAILED_EXECUTION", class, w)
  BY DEF K!Throw
<1>3. /\ running \in Attempts /\ running.n = Len(results) + 1 /\ Adds(w)
      /\ "FAILED_EXECUTION" \in Statuses /\ class \in Faulty
  BY <1>1, RunningTyped, WrittenAdds DEF ContractInv, Statuses, Faulty
<1> QED BY <1>1, <1>2, <1>3, Concluded

LEMMA TimeoutKeeps ==
    ASSUME K!ContractAssumption, ContractInv, K!Timeout
    PROVE  ContractInv'
<1>1. running # K!NoAttempt /\ late' = late \cup {running}
      /\ K!Concludes(running, "FAILED_TIMEOUT", "orchestration", world)
  BY DEF K!Timeout
<1>2. /\ running \in Attempts /\ running.n = Len(results) + 1 /\ Adds(world)
      /\ "FAILED_TIMEOUT" \in Statuses /\ "orchestration" \in Faulty
  BY <1>1, RunningTyped DEF ContractInv, StepsInv, Statuses, Faulty, Adds
<1> QED BY <1>1, <1>2, Concluded

LEMMA LateEndKeeps ==
    ASSUME K!ContractAssumption, ContractInv, K!LateEnd
    PROVE  ContractInv'
<1>1. PICK attempt \in late : world' \in {world, K!Written(attempt)} /\ late' = late \ {attempt}
  BY DEF K!LateEnd
<1>2. running' = running /\ results' = results /\ receipt' = receipt
  BY DEF K!LateEnd
<1>3. attempt \in Attempts /\ attempt.n > 0
  BY DEF ContractInv, StepsInv
<1>4. Adds(world')
  BY <1>1, <1>3, WrittenAdds DEF ContractInv
<1>5. \A i \in 1 .. Len(results) : results[i] \in ResultType /\ Leaves[results[i].step] \subseteq Artifacts
  BY ResultsTyped
<1>6. StepsInv'
  BY <1>1, <1>2, <1>4, <1>5 DEF ContractInv, StepsInv, Adds
<1>7. ReceiptInv'
  BY <1>2 DEF ContractInv, ReceiptInv, Unclassed
<1> QED BY <1>6, <1>7 DEF ContractInv

(* A set in three parts.                                                   *)
LEMMA Parts ==
    ASSUME NEW S, NEW T, NEW U, IsFiniteSet(S), IsFiniteSet(T), IsFiniteSet(U),
           S \cap T = {}, S \cap U = {}, T \cap U = {}
    PROVE  /\ Cardinality(S \cup T \cup U) = Cardinality(S) + Cardinality(T) + Cardinality(U)
<1>1. /\ IsFiniteSet(S \cup T)
      /\ Cardinality(S \cup T) = Cardinality(S) + Cardinality(T) - Cardinality(S \cap T)
  BY FS_Union
<1>2. Cardinality(S \cup T \cup U)
         = Cardinality(S \cup T) + Cardinality(U) - Cardinality((S \cup T) \cap U)
  BY <1>1, FS_Union
<1>3. Cardinality(S \cap T) = 0 /\ Cardinality((S \cup T) \cap U) = 0
  <2>1. (S \cup T) \cap U = {} /\ Cardinality({}) = 0
    BY FS_EmptySet
  <2> QED BY <2>1
<1>4. Cardinality(S) \in Nat /\ Cardinality(T) \in Nat /\ Cardinality(U) \in Nat
  BY FS_CardinalityType
<1> QED BY <1>1, <1>2, <1>3, <1>4

LEMMA SameCount == ASSUME NEW S PROVE K!Cardinality(S) = Cardinality(S)
BY DEF K!Cardinality, Cardinality

LEMMA CreateKeeps ==
    ASSUME K!ContractAssumption, ContractInv, K!CreateReceipt
    PROVE  ContractInv'
<1> DEFINE F == {i \in 1 .. Len(results) : results[i].status # "PASSED"}
           O == {i \in 1 .. Len(results) : results[i].class = "orchestration"}
           G == {i \in 1 .. Len(results) : results[i].class = "logic"}
           N == {i \in 1 .. Len(results) : results[i].status # "PASSED" /\ results[i].class = "none"}
<1>1. world' = world /\ running' = running /\ late' = late /\ results' = results
  BY DEF K!CreateReceipt
<1>2. /\ results \in Seq(ResultType) /\ DOMAIN results = 1 .. Len(results) /\ Len(results) \in Nat
      /\ \A i \in 1 .. Len(results) : /\ results[i].class \in Faulty
                                      /\ results[i].status = "PASSED" => results[i].class = "none"
  BY ResultsTyped
<1>3. K!FailedResults = F /\ K!Classed("orchestration") = O /\ K!Classed("logic") = G
  BY <1>2 DEF K!FailedResults, K!Failed, K!Classed
<1>4. PICK v \in {"VERIFIED_PASSED", "REJECTED_FAILED"} :
         /\ receipt' = [verdict |-> v, failed |-> K!Cardinality(F), orchestration |-> K!Cardinality(O),
                        logic |-> K!Cardinality(G), of |-> Len(results)]
         /\ v = "VERIFIED_PASSED" => F = {}
  BY <1>3 DEF K!CreateReceipt, K!AllPassed
<1>5. F = O \cup G \cup N /\ O \cap G = {} /\ O \cap N = {} /\ G \cap N = {}
  BY <1>2 DEF Faulty
<1>6. IsFiniteSet(O) /\ IsFiniteSet(G) /\ IsFiniteSet(N)
  <2>1. IsFiniteSet(1 .. Len(results))
    BY <1>2, FS_Interval
  <2>2. O \subseteq 1 .. Len(results) /\ G \subseteq 1 .. Len(results) /\ N \subseteq 1 .. Len(results)
    OBVIOUS
  <2> HIDE DEF O, G, N
  <2> QED BY <2>1, <2>2, FS_Subset
<1>7. /\ receipt'.of = Len(results) /\ receipt'.verdict = v /\ receipt'.failed = Cardinality(F)
      /\ receipt'.orchestration = Cardinality(O) /\ receipt'.logic = Cardinality(G)
  BY <1>4, SameCount
<1>8. Unclassed' = N
  BY <1>1, <1>7 DEF Unclassed
<1>9. v = "VERIFIED_PASSED" => \A i \in 1 .. Len(results) : results[i].status = "PASSED"
  BY <1>4
<1> HIDE DEF F, O, G, N
<1>10. Cardinality(F) = Cardinality(O) + Cardinality(G) + Cardinality(N)
  BY <1>5, <1>6, Parts
<1>11. ReceiptInv'
  BY <1>1, <1>2, <1>7, <1>8, <1>9, <1>10 DEF ReceiptInv
<1>12. StepsInv'
  BY <1>1 DEF ContractInv, StepsInv
<1> QED BY <1>11, <1>12 DEF ContractInv

LEMMA ContractStep ==
    ASSUME K!ContractAssumption, ContractInv, [K!Next]_(K!contracts)
    PROVE  ContractInv'
<1>1. ASSUME UNCHANGED <<world, running, late, results, receipt>> PROVE ContractInv'
  <2>1. StepsInv'
    BY <1>1 DEF ContractInv, StepsInv
  <2>2. ReceiptInv'
    BY <1>1 DEF ContractInv, ReceiptInv, Unclassed
  <2> QED BY <2>1, <2>2 DEF ContractInv
<1>2. K!Transition => ContractInv'
  BY <1>1 DEF K!Transition
<1>3. UNCHANGED K!contracts => ContractInv'
  BY <1>1 DEF K!contracts
<1> QED BY <1>2, <1>3, BeginKeeps, ReturnKeeps, ThrowKeeps, TimeoutKeeps, LateEndKeeps, CreateKeeps DEF K!Next

LEMMA ContractStart ==
    ASSUME K!ContractAssumption, K!Init
    PROVE  ContractInv
<1>1. /\ world = [a \in Artifacts |-> 0] /\ running = K!NoAttempt /\ late = {} /\ results = <<>>
      /\ receipt = K!NoReceipt
  BY DEF K!Init
<1>2. StepsInv
  BY <1>1 DEF StepsInv
<1>3. receipt.of = 0 /\ receipt.verdict = "none" /\ receipt.failed = 0 /\ receipt.orchestration = 0 /\ receipt.logic = 0
  BY <1>1 DEF K!NoReceipt
<1>4. Unclassed = {} /\ Cardinality({}) = 0
  BY <1>3, FS_EmptySet DEF Unclassed
<1>5. ReceiptInv
  BY <1>1, <1>3, <1>4 DEF ReceiptInv
<1> QED BY <1>2, <1>5 DEF ContractInv

(* A receipt that says everything passed is complete whatever executors    *)
(* finish late: each of its steps left what its postconditions ask for,    *)
(* and none of them was given up; and the failures a receipt counts add up.*)
THEOREM ReceiptsAreComplete ==
    ASSUME K!ContractAssumption
    PROVE  K!Spec => [](K!PassIsComplete /\ K!FailuresAreClassed)
<1>1. K!Init => ContractInv
  BY ContractStart
<1>2. ContractInv /\ [K!Next]_(K!contracts) => ContractInv'
  BY ContractStep
<1>3. ContractInv => K!PassIsComplete /\ K!FailuresAreClassed
  <2> SUFFICES ASSUME ContractInv PROVE K!PassIsComplete /\ K!FailuresAreClassed
    OBVIOUS
  <2>1. results \in Seq(ResultType) /\ Len(results) \in Nat /\ receipt.of \in 0 .. Len(results)
    BY DEF ContractInv, StepsInv, ReceiptInv
  <2>2. K!PassIsComplete
    BY <2>1 DEF ContractInv, StepsInv, ReceiptInv, K!PassIsComplete, K!Present, Attempts
  <2>3. K!FailuresAreClassed
    <3>1. Unclassed = {i \in 1 .. receipt.of : K!Failed(results[i]) /\ results[i].class = "none"}
      BY DEF Unclassed, K!Failed
    <3>2. receipt.failed = receipt.orchestration + receipt.logic + K!Cardinality(Unclassed)
      BY SameCount DEF ContractInv, ReceiptInv
    <3> QED BY <3>1, <3>2 DEF K!FailuresAreClassed
  <2> QED BY <2>2, <2>3
<1> QED BY <1>1, <1>2, <1>3, PTL DEF K!Spec

-----------------------------------------------------------------------------
(* The sentinel                                                            *)
Still(h, i, j) == \A k \in i .. j : ~h[k]

(* How many steps at the end moved nothing, as far as they are counted.    *)
LEMMA NoopsSays ==
    ASSUME K!ContractAssumption, NEW h \in Seq(BOOLEAN)
    PROVE  /\ K!Noops(h) \in 0 .. Len(h) /\ K!Noops(h) <= NoopThreshold + 1
           /\ Still(h, Len(h) - K!Noops(h) + 1, Len(h))
           /\ \A k \in 0 .. Len(h) : k <= NoopThreshold + 1 /\ Still(h, Len(h) - k + 1, Len(h)) => k <= K!Noops(h)
<1> DEFINE n == Len(h)
           cap == K!Min({n, NoopThreshold + 1})
           still == {k \in 0 .. cap : \A i \in (n - k + 1) .. n : ~h[i]}
<1>1. n \in Nat /\ NoopThreshold \in Nat \ {0}
  BY DEF K!ContractAssumption
<1>2. cap \in Nat /\ cap <= n /\ cap <= NoopThreshold + 1 /\ (cap = n \/ cap = NoopThreshold + 1)
  <2> DEFINE least == CHOOSE x \in {n, NoopThreshold + 1} : \A y \in {n, NoopThreshold + 1} : x <= y
  <2>1. \E x \in {n, NoopThreshold + 1} : \A y \in {n, NoopThreshold + 1} : x <= y
    BY <1>1
  <2>2. least \in {n, NoopThreshold + 1} /\ \A y \in {n, NoopThreshold + 1} : least <= y
    BY <2>1
  <2>3. cap = least
    BY DEF K!Min
  <2> HIDE DEF cap, least
  <2> QED BY <1>1, <2>2, <2>3
<1> HIDE DEF cap
<1>3. 0 \in still /\ \A k \in still : k \in 0 .. cap
  BY <1>1, <1>2
<1>4. \E m \in still : \A k \in still : m >= k
  <2>1. CASE still \subseteq {0}
    BY <1>3, <2>1
  <2>2. CASE ~(still \subseteq {0})
    <3>1. PICK m \in still \ {0} : \A k \in still \ {0} : k <= m
      <4>1. still \ {0} \in SUBSET (1 .. cap) /\ still \ {0} # {}
        BY <1>2, <1>3, <2>2
      <4> HIDE DEF still
      <4> QED BY <1>2, <4>1, Largest
    <3>2. ASSUME NEW k \in still PROVE m >= k
      <4>1. m \in 0 .. cap /\ k \in 0 .. cap /\ m # 0
        BY <1>3, <3>1
      <4>2. k # 0 => k <= m
        BY <3>1, <3>2
      <4> QED BY <1>2, <4>1, <4>2
    <3> QED BY <3>1, <3>2
  <2> QED BY <2>1, <2>2
<1> DEFINE most == CHOOSE x \in still : \A y \in still : x >= y
<1>5. most \in still /\ \A y \in still : most >= y
  BY <1>4
<1>6. K!Noops(h) = most
  BY DEF K!Noops, K!Max, cap
<1> HIDE DEF most
<1>7. /\ most \in 0 .. n /\ most <= NoopThreshold + 1 /\ Still(h, n - most + 1, n)
  BY <1>1, <1>2, <1>5 DEF Still
<1>8. ASSUME NEW k \in 0 .. n, k <= NoopThreshold + 1, Still(h, n - k + 1, n)
      PROVE  k <= most
  <2>1. k \in still
    BY <1>1, <1>2, <1>8 DEF Still
  <2> QED BY <1>1, <1>2, <1>5, <2>1
<1> QED BY <1>6, <1>7, <1>8

LEMMA AdviceSays ==
    ASSUME K!ContractAssumption, NEW h \in Seq(BOOLEAN)
    PROVE  K!Advice(h) = "kill" <=> Len(h) >= NoopThreshold /\ Still(h, Len(h) - NoopThreshold + 1, Len(h))
<1> DEFINE n == Len(h)
           t == NoopThreshold
           k == K!Noops(h)
<1>1. n \in Nat /\ t \in Nat \ {0}
  BY DEF K!ContractAssumption
<1>2. /\ k \in 0 .. n /\ Still(h, n - k + 1, n)
      /\ \A i \in 0 .. n : i <= t + 1 /\ Still(h, n - i + 1, n) => i <= k
  BY NoopsSays
<1>3. K!Advice(h) = "kill" <=> k >= t
  BY <1>1, <1>2 DEF K!Advice
<1> HIDE DEF k
<1>4. ASSUME k >= t PROVE n >= t /\ Still(h, n - t + 1, n)
  BY <1>1, <1>2, <1>4 DEF Still
<1>5. ASSUME n >= t, Still(h, n - t + 1, n) PROVE k >= t
  BY <1>1, <1>2, <1>5
<1> QED BY <1>3, <1>4, <1>5

(* Only a step that was let begin concludes, and none is let begin after   *)
(* the advice to stop.                                                     *)
Stuck == Len(moved) >= NoopThreshold /\ Still(moved, Len(moved) - NoopThreshold + 1, Len(moved))
SentinelInv ==
    /\ moved \in Seq(BOOLEAN)
    /\ running # K!NoAttempt => advice # "kill"
    /\ advice = "kill" <=> Stuck
    /\ \A i \in 1 .. Len(moved) : i + NoopThreshold <= Len(moved) => ~Still(moved, i, i + NoopThreshold)

LEMMA ConcludesLooks ==
    ASSUME K!ContractAssumption, SentinelInv, advice # "kill",
           NEW attempt, NEW outcome, NEW class, NEW w, K!Concludes(attempt, outcome, class, w)
    PROVE  SentinelInv'
<1>1. \E b \in BOOLEAN : moved' = Append(moved, b) /\ advice' = K!Advice(moved')
  <2>1. moved' = Append(moved, w # seen) /\ advice' = K!Advice(Append(moved, w # seen))
    BY DEF K!Concludes
  <2>2. CASE w # seen
    <3>1. moved' = Append(moved, TRUE)
      BY <2>1, <2>2
    <3> QED BY <2>1, <3>1
  <2>3. CASE w = seen
    <3>1. moved' = Append(moved, FALSE)
      BY <2>1, <2>3
    <3> QED BY <2>1, <3>1
  <2> QED BY <2>2, <2>3
<1>2. PICK b \in BOOLEAN : moved' = Append(moved, b) /\ advice' = K!Advice(moved')
  BY <1>1
<1>3. /\ moved' \in Seq(BOOLEAN) /\ Len(moved') = Len(moved) + 1 /\ Len(moved) \in Nat
      /\ \A i \in 1 .. Len(moved) : moved'[i] = moved[i]
  BY <1>2 DEF SentinelInv
<1>4. NoopThreshold \in Nat \ {0} /\ running' = K!NoAttempt
  BY DEF K!ContractAssumption, K!Concludes
<1>5. ASSUME NEW h, h = moved' PROVE advice' = "kill" <=> Stuck'
  <2>1. h \in Seq(BOOLEAN) /\ advice' = K!Advice(h)
    BY <1>2, <1>3, <1>5
  <2>2. K!Advice(h) = "kill" <=> Len(h) >= NoopThreshold /\ Still(h, Len(h) - NoopThreshold + 1, Len(h))
    BY <2>1, AdviceSays
  <2> QED BY <1>5, <2>1, <2>2 DEF Stuck, Still
<1>6. ASSUME NEW i \in 1 .. Len(moved'), i + NoopThreshold <= Len(moved')
      PROVE  ~Still(moved', i, i + NoopThreshold)
  <2>1. CASE i + NoopThreshold <= Len(moved)
    <3>1. PICK k \in i .. i + NoopThreshold : moved[k]
      BY <1>3, <1>4, <2>1 DEF SentinelInv, Still
    <3>2. k \in 1 .. Len(moved)
      BY <1>3, <1>4, <2>1, <3>1
    <3>3. moved'[k]
      BY <1>3, <3>1, <3>2
    <3> QED BY <3>1, <3>3 DEF Still
  <2>2. CASE i + NoopThreshold = Len(moved')
    <3>1. Len(moved) >= NoopThreshold /\ i = Len(moved) - NoopThreshold + 1
      BY <1>3, <1>4, <2>2
    <3>2. PICK k \in Len(moved) - NoopThreshold + 1 .. Len(moved) : moved[k]
      BY <3>1 DEF SentinelInv, Stuck, Still
    <3>3. k \in 1 .. Len(moved) /\ k \in i .. i + NoopThreshold
      BY <1>3, <1>4, <3>1, <3>2
    <3>4. moved'[k]
      BY <1>3, <3>2, <3>3
    <3> QED BY <3>3, <3>4 DEF Still
  <2> QED BY <1>3, <1>4, <1>6, <2>1, <2>2
<1>7. \A i \in 1 .. Len(moved) : (moved')[i] = moved'[i]
  OBVIOUS
<1>8. advice' = "kill" <=> Stuck'
  BY <1>5
<1> QED BY <1>3, <1>4, <1>6, <1>8 DEF SentinelInv, Still

LEMMA SentinelStep ==
    ASSUME K!ContractAssumption, SentinelInv, [K!Next]_(K!contracts)
    PROVE  SentinelInv'
<1>1. ASSUME UNCHANGED <<moved, advice>>, running' # K!NoAttempt => advice # "kill"
      PROVE  SentinelInv'
  BY <1>1 DEF SentinelInv, Stuck, Still
<1>2. ASSUME NEW step \in Steps, K!Begin(step) PROVE SentinelInv'
  <2>1. advice # "kill"
    BY <1>2 DEF K!Begin
  <2>2. \/ UNCHANGED <<moved, advice>>
        \/ \E attempt, outcome, class, w : K!Concludes(attempt, outcome, class, w)
    BY <1>2 DEF K!Begin
  <2> QED BY <1>1, <2>1, <2>2, ConcludesLooks
<1>3. ASSUME K!Return \/ K!Throw \/ K!Timeout PROVE SentinelInv'
  <2>1. advice # "kill"
    BY <1>3 DEF K!Return, K!Throw, K!Timeout, SentinelInv
  <2>2. \E attempt, outcome, class, w : K!Concludes(attempt, outcome, class, w)
    <3>1. CASE K!Return
      BY <3>1 DEF K!Return
    <3>2. CASE K!Throw
      BY <3>2 DEF K!Throw
    <3>3. CASE K!Timeout
      BY <3>3 DEF K!Timeout
    <3> QED BY <1>3, <3>1, <3>2, <3>3
  <2> QED BY <2>1, <2>2, ConcludesLooks
<1>4. ASSUME K!LateEnd \/ K!CreateReceipt \/ K!Transition \/ UNCHANGED K!contracts PROVE SentinelInv'
  <2>1. UNCHANGED <<moved, advice, running>>
    BY <1>4 DEF K!LateEnd, K!CreateReceipt, K!Transition, K!contracts
  <2> QED BY <1>1, <2>1 DEF SentinelInv
<1> QED BY <1>2, <1>3, <1>4 DEF K!Next

(* The sentinel stops a trajectory when the threshold of steps has moved   *)
(* nothing, no later and no sooner, whatever late executors write between. *)
THEOREM SentinelIsExactAlways ==
    ASSUME K!ContractAssumption
    PROVE  K!Spec => []K!SentinelIsExact
<1>1. K!Init => SentinelInv
  <2> SUFFICES ASSUME K!Init PROVE SentinelInv
    OBVIOUS
  <2>1. moved = <<>> /\ running = K!NoAttempt /\ advice = "continue" /\ NoopThreshold \in Nat \ {0}
    BY DEF K!Init, K!ContractAssumption
  <2>2. ~Stuck
    BY <2>1 DEF Stuck
  <2> QED BY <2>1, <2>2 DEF SentinelInv
<1>2. SentinelInv /\ [K!Next]_(K!contracts) => SentinelInv'
  BY SentinelStep
<1>3. SentinelInv => K!SentinelIsExact
  BY DEF SentinelInv, Stuck, Still, K!SentinelIsExact
<1> QED BY <1>1, <1>2, <1>3, PTL DEF K!Spec

(* No sequence of transitions lifts a claim above its evidence.            *)
THEOREM ClaimsAreEarnedAlways == K!Spec => []K!ClaimsAreEarned
<1>1. K!Init => K!ClaimsAreEarned
  BY DEF K!Init, K!ClaimsAreEarned
<1>2. K!ClaimsAreEarned /\ [K!Next]_(K!contracts) => K!ClaimsAreEarned'
  <2> SUFFICES ASSUME K!ClaimsAreEarned, [K!Next]_(K!contracts) PROVE K!ClaimsAreEarned'
    OBVIOUS
  <2>1. CASE claim' = claim /\ earned' = earned
    BY <2>1 DEF K!ClaimsAreEarned
  <2>2. CASE K!Transition
    <3>1. PICK to \in {"synthetic", "local", "global"}, settlement \in K!Settlements, reason \in BOOLEAN :
             /\ to # claim /\ K!Allowed(claim, to, settlement, reason) /\ claim' = to
             /\ earned' = CASE to = "synthetic" -> {} [] to = "global" -> earned \cup settlement
                            [] OTHER -> earned \cup (IF claim = "synthetic" THEN {receipt.verdict} ELSE {})
      BY <2>2 DEF K!Transition
    <3>2. CASE to = "synthetic"
      BY <3>1, <3>2 DEF K!ClaimsAreEarned
    <3>3. CASE to = "local"
      <4>1. earned' = earned \cup (IF claim = "synthetic" THEN {receipt.verdict} ELSE {})
        BY <3>1, <3>3
      <4>2. claim = "synthetic" => receipt.verdict = "VERIFIED_PASSED"
        BY <3>1, <3>3 DEF K!Allowed
      <4> QED BY <3>1, <3>3, <4>1, <4>2 DEF K!ClaimsAreEarned
    <3>4. CASE to = "global"
      <4>1. earned' = earned \cup settlement
        BY <3>1, <3>4
      <4>2. claim = "local" /\ "proof" \in settlement /\ settlement \cap {"inbound", "approved"} # {}
        BY <3>1, <3>4 DEF K!Allowed
      <4> QED BY <3>1, <3>4, <4>1, <4>2 DEF K!ClaimsAreEarned
    <3> QED BY <3>1, <3>2, <3>3, <3>4
  <2>3. (\E step \in Steps : K!Begin(step)) \/ K!Return \/ K!Throw \/ K!Timeout \/ K!LateEnd \/ K!CreateReceipt
        \/ UNCHANGED K!contracts => claim' = claim /\ earned' = earned
    BY DEF K!Begin, K!Return, K!Throw, K!Timeout, K!LateEnd, K!CreateReceipt, K!Concludes, K!contracts
  <2> QED BY <2>1, <2>2, <2>3 DEF K!Next
<1> QED BY <1>1, <1>2, PTL DEF K!Spec
-----------------------------------------------------------------------------
(* RoutingPlan: where a request may be sent.                               *)

PlanType == [asked : RP!RouteRequests, tier : RP!Tiers, chain : Seq(Evidence), handled : BOOLEAN,
             approved : BOOLEAN]
TriedType == [route : Evidence, answer : {"stale"} \cup RP!Outcomes, permits : RP!Permits]
SentType  == [route : Evidence, when : Nat]

(* What a route of a plan was chosen for: everything it may be sent but    *)
(* that its evidence is still good.                                        *)
Suits(r, p) ==
    /\ p.asked.private => r.private
    /\ p.tier \in r.tiers /\ RP!BoundaryAllowed(r, p.asked)
Due(p) ==
    /\ p.tier \in RP!Policy[p.asked.class].min .. RP!Policy[p.asked.class].max
    /\ RP!Granted(p.asked, p.tier) /\ ~ p.handled

(* An attempt that another may follow.                                     *)
Passable(t) ==
    /\ t.answer # "good" /\ t.permits # "no"
    /\ t.answer # "throws" => t.permits = "yes"

PlanInv ==
    /\ plan \in PlanType /\ Len(plan.chain) <= 2
    /\ \A i, j \in DOMAIN plan.chain : plan.chain[i] = plan.chain[j] => i = j
    /\ \A i \in DOMAIN plan.chain : Suits(plan.chain[i], plan)
    /\ plan.chain # <<>> => Due(plan)
RoutingInv ==
    /\ now \in 1 .. RouteHorizon /\ at \in {"none", "ready", "calling", "done", "blocked"}
    /\ PlanInv
    /\ tried \in Seq(TriedType) /\ Len(tried) <= Len(plan.chain)
    /\ \A i \in DOMAIN tried : tried[i].route = plan.chain[i]
    /\ \A i \in DOMAIN tried : i < Len(tried) => Passable(tried[i])
    /\ sent \in Seq(SentType)
    /\ \A i \in DOMAIN sent : /\ \E j \in DOMAIN plan.chain : sent[i].route = plan.chain[j]
                              /\ sent[i].route.until > sent[i].when /\ sent[i].when \in 1 .. now
    /\ at \in {"none", "ready"} => tried = <<>> /\ sent = <<>>
    /\ at = "none" => plan.chain = <<>>
    /\ at = "calling" => /\ Len(tried) < Len(plan.chain)
                         /\ \A i \in DOMAIN tried : Passable(tried[i])
    /\ at = "calling" \/ sent # <<>> => (plan.asked.unsure => plan.approved)
    /\ at = "done" /\ ~ plan.handled => tried # <<>> /\ tried[Len(tried)].answer = "good"

LEMMA LeastOfTwo ==
    ASSUME NEW a \in Int, NEW b \in Int PROVE RP!Min({a, b}) = IF a <= b THEN a ELSE b
<1>1. CASE a <= b
  <2>1. a \in {a, b} /\ \A y \in {a, b} : a <= y
    BY <1>1
  <2>2. \A x \in {a, b} : (\A y \in {a, b} : x <= y) => x = a
    BY <1>1
  <2> QED BY <1>1, <2>1, <2>2 DEF RP!Min
<1>2. CASE ~ a <= b
  <2>1. b \in {a, b} /\ \A y \in {a, b} : b <= y
    BY <1>2
  <2>2. \A x \in {a, b} : (\A y \in {a, b} : x <= y) => x = b
    BY <1>2
  <2> QED BY <1>2, <2>1, <2>2 DEF RP!Min
<1> QED BY <1>1, <1>2

LEMMA MostOfTwo ==
    ASSUME NEW a \in Int, NEW b \in Int PROVE RP!Max({a, b}) = IF a >= b THEN a ELSE b
<1>1. CASE a >= b
  <2>1. a \in {a, b} /\ \A y \in {a, b} : a >= y
    BY <1>1
  <2>2. \A x \in {a, b} : (\A y \in {a, b} : x >= y) => x = a
    BY <1>1
  <2> QED BY <1>1, <2>1, <2>2 DEF RP!Max
<1>2. CASE ~ a >= b
  <2>1. b \in {a, b} /\ \A y \in {a, b} : b >= y
    BY <1>2
  <2>2. \A x \in {a, b} : (\A y \in {a, b} : x >= y) => x = b
    BY <1>2
  <2> QED BY <1>2, <2>1, <2>2 DEF RP!Max
<1> QED BY <1>1, <1>2

(* The rules: a class that lets T3 through asks for its authorization, and *)
(* the synthesis of code stays on the machine.                             *)
LEMMA RulesAre ==
    ASSUME NEW c \in RP!Classes
    PROVE  /\ RP!Policy[c].min \in 0 .. 3 /\ RP!Policy[c].max \in 0 .. 3
           /\ RP!Policy[c].min <= RP!Policy[c].max
           /\ RP!Policy[c].max = 3 => RP!Policy[c].t3
           /\ c = "code_synthesis" => ~ RP!Policy[c].cloud
  BY DEF RP!Policy, RP!Rule, RP!Classes

(* Whatever the hints, the tier is one that the class allows.              *)
LEMMA TierIsAllowed ==
    ASSUME NEW c \in RP!Classes, NEW h \in RP!Hints
    PROVE  RP!TierOf(RP!Policy[c], h) \in RP!Policy[c].min .. RP!Policy[c].max
<1>0. PICK rule : rule = RP!Policy[c]
  OBVIOUS
<1>1. rule.min \in 0 .. 3 /\ rule.max \in 0 .. 3 /\ rule.min <= rule.max
  BY <1>0, RulesAre
<1>2. h.effort \in 0 .. 3 /\ h.fast \in -1 .. 3
  BY DEF RP!Hints, RP!Tiers
<1>3. RP!Clamped(rule, h) \in rule.min .. rule.max
  <2>1. RP!Max({rule.min, h.effort}) = IF rule.min >= h.effort THEN rule.min ELSE h.effort
    BY <1>1, <1>2, MostOfTwo
  <2>2. PICK n : n = RP!Max({rule.min, h.effort})
    OBVIOUS
  <2>3. n \in Int /\ n >= rule.min
    BY <1>1, <1>2, <2>1, <2>2
  <2>4. RP!Min({rule.max, n}) = IF rule.max <= n THEN rule.max ELSE n
    BY <1>1, <2>3, LeastOfTwo
  <2>5. RP!Clamped(rule, h) = IF h.zero /\ rule.min = 0 THEN 0 ELSE RP!Min({rule.max, n})
    BY <2>2 DEF RP!Clamped
  <2> QED BY <1>1, <2>3, <2>4, <2>5
<1>4. RP!Relieved(rule, h) \in rule.min .. rule.max
  <2>1. RP!Max({rule.min, 1}) = IF rule.min >= 1 THEN rule.min ELSE 1
    BY <1>1, MostOfTwo
  <2>2. PICK n, m : n = RP!Max({rule.min, 1}) /\ m = RP!Clamped(rule, h)
    OBVIOUS
  <2>3. n \in Int /\ n >= rule.min /\ m \in rule.min .. rule.max
    BY <1>1, <1>3, <2>1, <2>2
  <2>4. RP!Min({m, n}) = IF m <= n THEN m ELSE n
    BY <1>1, <2>3, LeastOfTwo
  <2>5. RP!Relieved(rule, h) = IF h.pressed THEN RP!Min({m, n}) ELSE m
    BY <2>2 DEF RP!Relieved
  <2> QED BY <1>1, <2>3, <2>4, <2>5
<1>5. PICK m : m = RP!Relieved(rule, h)
  OBVIOUS
<1>6. m \in rule.min .. rule.max /\ m \in Int
  BY <1>1, <1>4, <1>5
<1>7. RP!Min({m, h.fast}) = IF m <= h.fast THEN m ELSE h.fast
  BY <1>2, <1>6, LeastOfTwo
<1>8. RP!TierOf(rule, h) = IF h.fast >= rule.min THEN RP!Min({m, h.fast}) ELSE m
  BY <1>5 DEF RP!TierOf
<1> QED BY <1>0, <1>1, <1>2, <1>6, <1>7, <1>8

(* The routes of a chain are eligible, two at the most, and different.     *)
LEMMA ChainsAre ==
    ASSUME NEW q, NEW tier, NEW c \in RP!Chains(q, tier)
    PROVE  /\ c \in Seq(Evidence) /\ Len(c) <= 2
           /\ \A i, j \in DOMAIN c : c[i] = c[j] => i = j
           /\ \A i \in DOMAIN c : RP!Eligible(c[i], q, tier)
<1>0. PICK able : able = {r \in Evidence : RP!Eligible(r, q, tier)}
  OBVIOUS
<1>1. PICK n \in 0 .. 2 : c \in [1 .. n -> able]
  BY <1>0 DEF RP!Chains
<1>2. c \in Seq(able) /\ Len(c) = n /\ DOMAIN c = 1 .. n
  BY <1>1
<1>3. \A i \in DOMAIN c : c[i] \in RP!Best(RP!LeftFor(c, i, able))
  BY <1>0 DEF RP!Chains
<1>4. \A i \in DOMAIN c : \A j \in 1 .. i - 1 : c[i] # c[j]
  BY <1>3 DEF RP!Best, RP!LeftFor
<1>5. \A i, j \in DOMAIN c : j < i => j \in 1 .. i - 1
  BY <1>2
<1>6. \A i, j \in DOMAIN c : c[i] = c[j] => i = j
  <2> SUFFICES ASSUME NEW i \in DOMAIN c, NEW j \in DOMAIN c, c[i] = c[j], i # j PROVE FALSE
    OBVIOUS
  <2>1. i < j \/ j < i
    BY <1>2
  <2> QED BY <1>4, <1>5, <2>1
<1>7. c \in Seq(Evidence) /\ \A i \in DOMAIN c : RP!Eligible(c[i], q, tier)
  BY <1>0, <1>1, <1>2
<1> QED BY <1>1, <1>2, <1>6, <1>7

LEMMA RouteStart ==
    ASSUME RP!RoutingAssumption, RP!Init PROVE RoutingInv
<1>1. now = 1 /\ at = "none" /\ tried = <<>> /\ sent = <<>>
  BY DEF RP!Init
<1>2. plan = [asked |-> CHOOSE q \in RP!RouteRequests : TRUE, tier |-> 0, chain |-> <<>>,
              handled |-> FALSE, approved |-> FALSE]
  BY DEF RP!Init
<1>3. (CHOOSE q \in RP!RouteRequests : TRUE) \in RP!RouteRequests
  <2>1. [class |-> "chat", private |-> FALSE, affords |-> 0, authorized |-> FALSE, unsure |-> FALSE] \in RP!RouteRequests
    BY DEF RP!RouteRequests, RP!Classes, RP!Tiers
  <2> QED BY <2>1
<1>4. plan \in PlanType /\ plan.chain = <<>> /\ DOMAIN plan.chain = {} /\ Len(plan.chain) = 0
  BY <1>2, <1>3 DEF PlanType, RP!Tiers
<1>5. PlanInv
  BY <1>4 DEF PlanInv
<1>6. 1 \in 1 .. RouteHorizon
  BY DEF RP!RoutingAssumption
<1>7. tried \in Seq(TriedType) /\ sent \in Seq(SentType) /\ DOMAIN tried = {} /\ DOMAIN sent = {} /\ Len(tried) = 0
  BY <1>1
<1> QED BY <1>1, <1>4, <1>5, <1>6, <1>7 DEF RoutingInv

LEMMA PlanKeeps ==
    ASSUME RP!RoutingAssumption, RoutingInv, RP!PlanRouting PROVE RoutingInv'
<1>1. /\ at = "none" /\ at' = "ready" /\ UNCHANGED <<now, tried, sent>>
      /\ tried = <<>> /\ sent = <<>>
  BY DEF RP!PlanRouting, RoutingInv
<1>2. PICK q \in RP!RouteRequests, h \in RP!Hints, fits \in BOOLEAN, handler \in BOOLEAN :
        LET grants  == RP!Granted(q, RP!TierOf(RP!Policy[q.class], h)) /\ fits
            handles == grants /\ RP!TierOf(RP!Policy[q.class], h) = 0 /\ handler
        IN \E chain \in IF grants /\ ~ handles THEN RP!Chains(q, RP!TierOf(RP!Policy[q.class], h)) ELSE {<<>>} :
              plan' = [asked |-> q, tier |-> RP!TierOf(RP!Policy[q.class], h), chain |-> chain,
                       handled |-> handles, approved |-> FALSE]
  BY DEF RP!PlanRouting
<1>20. PICK tier : \E granted, handled \in BOOLEAN :
        /\ tier = RP!TierOf(RP!Policy[q.class], h)
        /\ granted = (RP!Granted(q, tier) /\ fits) /\ handled = (granted /\ tier = 0 /\ handler)
        /\ \E chain \in IF granted /\ ~ handled THEN RP!Chains(q, tier) ELSE {<<>>} :
              plan' = [asked |-> q, tier |-> tier, chain |-> chain, handled |-> handled,
                       approved |-> FALSE]
  BY <1>2
<1>21. PICK granted \in BOOLEAN, handled \in BOOLEAN :
        /\ tier = RP!TierOf(RP!Policy[q.class], h)
        /\ granted = (RP!Granted(q, tier) /\ fits) /\ handled = (granted /\ tier = 0 /\ handler)
        /\ \E chain \in IF granted /\ ~ handled THEN RP!Chains(q, tier) ELSE {<<>>} :
              plan' = [asked |-> q, tier |-> tier, chain |-> chain, handled |-> handled,
                       approved |-> FALSE]
  BY <1>20
<1>3. PICK chain \in IF granted /\ ~ handled THEN RP!Chains(q, tier) ELSE {<<>>} :
              plan' = [asked |-> q, tier |-> tier, chain |-> chain, handled |-> handled,
                       approved |-> FALSE]
  BY <1>21
<1>4. q.class \in RP!Classes
  BY DEF RP!RouteRequests
<1>5. tier \in RP!Policy[q.class].min .. RP!Policy[q.class].max /\ tier \in RP!Tiers
  BY <1>21, <1>4, TierIsAllowed, RulesAre DEF RP!Tiers
<1>6. granted \in BOOLEAN /\ handled \in BOOLEAN
  BY <1>21
<1>7. /\ chain \in Seq(Evidence) /\ Len(chain) <= 2
      /\ \A i, j \in DOMAIN chain : chain[i] = chain[j] => i = j
      /\ \A i \in DOMAIN chain : RP!Eligible(chain[i], q, tier)
      /\ chain # <<>> => granted /\ ~ handled
  <2>1. CASE granted /\ ~ handled
    BY <1>3, <2>1, ChainsAre
  <2>2. CASE ~ (granted /\ ~ handled)
    <3>1. chain = <<>>
      BY <1>3, <2>2
    <3>2. chain \in Seq(Evidence) /\ Len(chain) = 0 /\ DOMAIN chain = {}
      BY <3>1
    <3> QED BY <3>1, <3>2
  <2> QED BY <2>1, <2>2
<1>8. /\ plan'.asked = q /\ plan'.tier = tier /\ plan'.chain = chain /\ plan'.handled = handled
      /\ plan' \in PlanType
  BY <1>3, <1>5, <1>6, <1>7 DEF PlanType
<1>9. PlanInv'
  <2>1. chain # <<>> => Due(plan')
    BY <1>21, <1>5, <1>7, <1>8 DEF Due
  <2>2. \A i \in DOMAIN chain : Suits(chain[i], plan')
    BY <1>7, <1>8 DEF Suits, RP!Eligible
  <2> QED BY <1>7, <1>8, <2>1, <2>2 DEF PlanInv
<1>10. Len(tried') = 0 /\ DOMAIN tried' = {} /\ DOMAIN sent' = {} /\ tried' = <<>> /\ sent' = <<>>
  BY <1>1
<1>11. Len(chain) \in Nat
  BY <1>7
<1> QED BY <1>1, <1>8, <1>9, <1>10, <1>11 DEF RoutingInv

LEMMA ExecuteKeeps ==
    ASSUME RP!RoutingAssumption, RoutingInv, NEW approved \in BOOLEAN, NEW works \in BOOLEAN,
           RP!Execute(approved, works)
    PROVE  RoutingInv'
<1>1. /\ at = "ready" /\ tried = <<>> /\ sent = <<>> /\ UNCHANGED <<now, tried, sent>>
      /\ at' = IF plan.asked.unsure /\ ~approved THEN "blocked"
               ELSE IF plan.chain # <<>> /\ plan.tier # 0 THEN "calling"
               ELSE IF plan.handled /\ works THEN "done" ELSE "blocked"
      /\ plan' = [plan EXCEPT !.approved = approved]
  BY DEF RP!Execute, RoutingInv
<1>2. plan \in PlanType
  BY DEF RoutingInv, PlanInv
<1>3. /\ plan' \in PlanType /\ plan'.asked = plan.asked /\ plan'.tier = plan.tier /\ plan'.chain = plan.chain
      /\ plan'.handled = plan.handled /\ plan'.approved = approved
  BY <1>1, <1>2 DEF PlanType
<1>4. PlanInv'
  BY <1>3 DEF RoutingInv, PlanInv, Suits, Due
<1>5. Len(tried') = 0 /\ DOMAIN tried' = {} /\ DOMAIN sent' = {} /\ tried' = <<>> /\ sent' = <<>>
  BY <1>1
<1>6. at' = "calling" => 0 < Len(plan'.chain)
  BY <1>1, <1>2, <1>3 DEF PlanType
<1>7. Len(plan'.chain) \in Nat
  BY <1>3 DEF PlanType
<1>8. at' \in {"blocked", "calling", "done"} /\ (at' = "done" => plan'.handled)
      /\ (at' = "calling" => (plan'.asked.unsure => plan'.approved))
  BY <1>1, <1>3
<1> QED BY <1>1, <1>3, <1>4, <1>5, <1>6, <1>7, <1>8 DEF RoutingInv

(* One attempt, made or not: what it adds, and whether another follows.    *)
LEMMA AttemptKeeps ==
    ASSUME RP!RoutingAssumption, RoutingInv, at = "calling", NEW t \in TriedType,
           t.route = plan.chain[Len(tried) + 1], tried' = Append(tried, t), UNCHANGED <<now, plan>>,
           \/ at' = "done" /\ t.answer = "good"
           \/ at' = "blocked"
           \/ at' = "calling" /\ Len(plan.chain) > Len(tried) + 1 /\ Passable(t),
           \/ UNCHANGED sent
           \/ t.route.until > now /\ sent' = Append(sent, [route |-> t.route, when |-> now])
    PROVE  RoutingInv'
<1>0. plan \in PlanType /\ tried \in Seq(TriedType) /\ sent \in Seq(SentType) /\ Len(tried) < Len(plan.chain)
      /\ plan.chain \in Seq(Evidence) /\ now \in 1 .. RouteHorizon /\ RouteHorizon \in Nat
  BY DEF RoutingInv, PlanInv, PlanType, RP!RoutingAssumption
<1>1. Len(tried) \in Nat /\ Len(plan.chain) \in Nat /\ DOMAIN tried = 1 .. Len(tried)
      /\ DOMAIN plan.chain = 1 .. Len(plan.chain)
  BY <1>0
<1>2. PICK n \in Nat : n = Len(tried)
  BY <1>1
<1>3. /\ tried' \in Seq(TriedType) /\ Len(tried') = n + 1 /\ DOMAIN tried' = 1 .. n + 1
      /\ tried'[n + 1] = t /\ \A i \in 1 .. n : tried'[i] = tried[i]
  BY <1>0, <1>2
<1>4. n + 1 \in DOMAIN plan.chain /\ n + 1 <= Len(plan.chain)
  BY <1>0, <1>1, <1>2
<1>5. \A i \in DOMAIN tried' : tried'[i].route = plan.chain[i]
  <2> SUFFICES ASSUME NEW i \in DOMAIN tried' PROVE tried'[i].route = plan.chain[i]
    OBVIOUS
  <2>1. i = n + 1 \/ i \in 1 .. n
    BY <1>3
  <2> QED BY <1>1, <1>2, <1>3, <2>1 DEF RoutingInv
<1>6. \A i \in DOMAIN tried' : (i < n + 1 \/ Passable(t)) => Passable(tried'[i])
  <2> SUFFICES ASSUME NEW i \in DOMAIN tried', i < n + 1 \/ Passable(t) PROVE Passable(tried'[i])
    OBVIOUS
  <2>1. i = n + 1 \/ i \in 1 .. n
    BY <1>3
  <2> QED BY <1>1, <1>2, <1>3, <2>1 DEF RoutingInv
<1>7. plan.asked.unsure => plan.approved
  BY DEF RoutingInv
<1>8. /\ sent' \in Seq(SentType)
      /\ \A i \in DOMAIN sent' : /\ \E j \in DOMAIN plan.chain : sent'[i].route = plan.chain[j]
                                 /\ sent'[i].route.until > sent'[i].when /\ sent'[i].when \in 1 .. now
  <2>1. CASE UNCHANGED sent
    BY <2>1 DEF RoutingInv
  <2>2. CASE t.route.until > now /\ sent' = Append(sent, [route |-> t.route, when |-> now])
    <3>1. PICK s : s = [route |-> t.route, when |-> now]
      OBVIOUS
    <3>2. s \in SentType /\ s.route = t.route /\ s.when = now
      BY <1>0, <3>1 DEF SentType, TriedType
    <3>3. /\ sent' \in Seq(SentType) /\ DOMAIN sent' = 1 .. Len(sent) + 1 /\ Len(sent) \in Nat
          /\ sent'[Len(sent) + 1] = s /\ \A i \in DOMAIN sent : sent'[i] = sent[i]
          /\ DOMAIN sent = 1 .. Len(sent)
      BY <1>0, <2>2, <3>1, <3>2
    <3>4. now \in 1 .. now
      BY <1>0
    <3> SUFFICES ASSUME NEW i \in DOMAIN sent'
                 PROVE  /\ \E j \in DOMAIN plan.chain : sent'[i].route = plan.chain[j]
                        /\ sent'[i].route.until > sent'[i].when /\ sent'[i].when \in 1 .. now
      BY <3>3
    <3>5. i = Len(sent) + 1 \/ i \in DOMAIN sent
      BY <3>3
    <3>6. CASE i = Len(sent) + 1
      BY <1>2, <1>4, <2>2, <3>2, <3>3, <3>4, <3>6
    <3>7. CASE i \in DOMAIN sent
      BY <3>3, <3>7 DEF RoutingInv
    <3> QED BY <3>5, <3>6, <3>7
  <2> QED BY <2>1, <2>2
<1>9. PlanInv'
  BY DEF RoutingInv, PlanInv, Suits, Due
<1>10. tried' # <<>> /\ tried'[Len(tried')] = t
  BY <1>2, <1>3
<1> QED BY <1>0, <1>1, <1>2, <1>3, <1>4, <1>5, <1>6, <1>7, <1>8, <1>9, <1>10 DEF RoutingInv

LEMMA RoutingStep ==
    ASSUME RP!RoutingAssumption, RoutingInv, [RP!Next]_(RP!vars) PROVE RoutingInv'
<1>0. at = "calling" => /\ Len(tried) < Len(plan.chain)
                        /\ plan.chain[Len(tried) + 1] \in Evidence
  BY DEF RoutingInv, PlanInv, PlanType
<1>1. CASE RP!Tick
  <2>1. at # "none" /\ now < RouteHorizon /\ now' = now + 1 /\ UNCHANGED <<plan, at, tried, sent>>
    BY <1>1 DEF RP!Tick
  <2>2. now \in Nat /\ RouteHorizon \in Nat /\ now' \in 1 .. RouteHorizon /\ 1 .. now \subseteq 1 .. now'
    BY <2>1 DEF RP!RoutingAssumption, RoutingInv
  <2>3. \A i \in DOMAIN sent' : /\ \E j \in DOMAIN plan.chain : sent'[i].route = plan.chain[j]
                                /\ sent'[i].route.until > sent'[i].when /\ sent'[i].when \in 1 .. now'
    BY <2>1, <2>2 DEF RoutingInv
  <2>4. PlanInv'
    BY <2>1 DEF RoutingInv, PlanInv, Suits, Due
  <2> QED BY <2>1, <2>2, <2>3, <2>4 DEF RoutingInv
<1>2. CASE RP!PlanRouting
  BY <1>2, PlanKeeps
<1>3. CASE \E approved, works \in BOOLEAN : RP!Execute(approved, works)
  BY <1>3, ExecuteKeeps
<1>4. CASE \E permits \in RP!Permits : RP!Stale(permits)
  <2>1. PICK permits \in RP!Permits : RP!Stale(permits)
    BY <1>4
  <2>2. PICK t : t = [route |-> plan.chain[Len(tried) + 1], answer |-> "stale", permits |-> permits]
    OBVIOUS
  <2>3. /\ at = "calling" /\ tried' = Append(tried, t) /\ UNCHANGED <<now, plan, sent>>
        /\ at' = IF permits = "yes" /\ Len(plan.chain) > Len(tried) + 1 THEN "calling" ELSE "blocked"
    BY <2>1, <2>2 DEF RP!Stale, RP!Route, RP!Goes
  <2>4. /\ t \in TriedType /\ t.route = plan.chain[Len(tried) + 1] /\ t.answer = "stale" /\ t.permits = permits
    BY <1>0, <2>1, <2>2, <2>3 DEF TriedType
  <2>5. permits = "yes" => Passable(t)
    BY <2>4 DEF Passable
  <2> QED BY <2>3, <2>4, <2>5, AttemptKeeps
<1>5. CASE \E answer \in RP!Outcomes, permits \in RP!Permits : RP!Call(answer, permits)
  <2>1. PICK answer \in RP!Outcomes, permits \in RP!Permits : RP!Call(answer, permits)
    BY <1>5
  <2>2. PICK t : t = [route |-> plan.chain[Len(tried) + 1], answer |-> answer, permits |-> permits]
    OBVIOUS
  <2>3. /\ at = "calling" /\ tried' = Append(tried, t) /\ UNCHANGED <<now, plan>>
        /\ plan.chain[Len(tried) + 1].until > now
        /\ sent' = Append(sent, [route |-> plan.chain[Len(tried) + 1], when |-> now])
        /\ at' = IF answer = "good" THEN "done"
                 ELSE IF (permits = "yes" \/ (answer = "throws" /\ permits = "absent"))
                         /\ Len(plan.chain) > Len(tried) + 1 THEN "calling" ELSE "blocked"
    BY <2>1, <2>2 DEF RP!Call, RP!Route, RP!Goes, RP!Fresh
  <2>4. /\ t \in TriedType /\ t.route = plan.chain[Len(tried) + 1] /\ t.answer = answer /\ t.permits = permits
    BY <1>0, <2>1, <2>2, <2>3 DEF TriedType
  <2>5. answer # "good" /\ (permits = "yes" \/ (answer = "throws" /\ permits = "absent")) => Passable(t)
    BY <2>1, <2>4 DEF Passable, RP!Outcomes
  <2> QED BY <2>3, <2>4, <2>5, AttemptKeeps
<1>6. CASE UNCHANGED RP!vars
  <2>1. UNCHANGED <<now, plan, at, tried, sent>>
    BY <1>6 DEF RP!vars
  <2> QED BY <2>1 DEF RoutingInv, PlanInv, Suits, Due
<1> QED BY <1>1, <1>2, <1>3, <1>4, <1>5, <1>6 DEF RP!Next

LEMMA RoutingMeans ==
    ASSUME RP!RoutingAssumption, RoutingInv
    PROVE  RP!TypeOK /\ RP!SentWithinBounds /\ RP!FallbackIsBounded
<1>0. /\ plan \in PlanType /\ plan.chain \in Seq(Evidence) /\ tried \in Seq(TriedType) /\ sent \in Seq(SentType)
      /\ now \in 1 .. RouteHorizon /\ RouteHorizon \in Nat
  BY DEF RoutingInv, PlanInv, PlanType, RP!RoutingAssumption
<1>1. /\ DOMAIN plan.chain = 1 .. Len(plan.chain) /\ DOMAIN tried = 1 .. Len(tried)
      /\ Len(plan.chain) \in Nat /\ Len(tried) \in Nat /\ Len(tried) <= Len(plan.chain) /\ Len(plan.chain) <= 2
      /\ \A i \in DOMAIN tried : i \in DOMAIN plan.chain
  BY <1>0 DEF RoutingInv, PlanInv
<1>2. RP!TypeOK
  <2>1. RP!ToSet(plan.chain) \subseteq Evidence
    BY <1>0, <1>1 DEF RP!ToSet
  <2>2. \A i \in DOMAIN tried : tried[i].route \in Evidence /\ tried[i].permits \in RP!Permits
    <3>1. \A i \in DOMAIN tried : tried[i] \in TriedType
      BY <1>0
    <3>2. \A t \in TriedType : t.route \in Evidence /\ t.permits \in RP!Permits
      BY DEF TriedType
    <3> QED BY <3>1, <3>2
  <2>3. \A i \in DOMAIN sent : sent[i].route \in Evidence /\ sent[i].when \in 1 .. now
    BY <1>0 DEF SentType, RoutingInv
  <2>4. /\ plan.asked \in RP!RouteRequests /\ plan.tier \in RP!Tiers /\ plan.handled \in BOOLEAN
        /\ plan.approved \in BOOLEAN
    BY <1>0 DEF PlanType
  <2> QED BY <1>0, <2>1, <2>2, <2>3, <2>4 DEF RP!TypeOK, RoutingInv
<1>3. RP!SentWithinBounds
  <2> SUFFICES ASSUME NEW i \in DOMAIN sent
               PROVE  LET q == plan.asked  r == sent[i].route
                      IN  /\ q.private => r.private /\ r.boundary = "local" /\ r.adapter = "local"
                          /\ q.class = "code_synthesis" => r.boundary = "local"
                          /\ r.until > sent[i].when
                          /\ plan.tier \in r.tiers
                          /\ plan.tier \in RP!Policy[q.class].min .. RP!Policy[q.class].max
                          /\ plan.tier <= q.affords /\ (plan.tier = 3 => q.authorized)
                          /\ q.unsure => plan.approved
    BY DEF RP!SentWithinBounds
  <2>1. PICK j \in DOMAIN plan.chain : sent[i].route = plan.chain[j]
    BY DEF RoutingInv
  <2>2. PICK r : r = sent[i].route
    OBVIOUS
  <2>3. r \in Evidence /\ Suits(r, plan) /\ r.until > sent[i].when
    BY <1>0, <2>1, <2>2 DEF RoutingInv, PlanInv
  <2>4. plan.chain # <<>> /\ sent # <<>>
    BY <1>1, <2>1
  <2>5. Due(plan) /\ (plan.asked.unsure => plan.approved)
    BY <2>4 DEF RoutingInv, PlanInv
  <2>6. PICK q, c, tier : q = plan.asked /\ c = q.class /\ tier = plan.tier
    OBVIOUS
  <2>7. c \in RP!Classes /\ tier \in 0 .. 3 /\ q \in RP!RouteRequests
    BY <1>0, <2>6 DEF PlanType, RP!RouteRequests, RP!Tiers
  <2>8. tier \in RP!Policy[c].min .. RP!Policy[c].max /\ RP!Granted(q, tier)
    BY <2>5, <2>6 DEF Due
  <2>9. tier <= q.affords /\ (tier = 3 => q.authorized)
    <3>1. tier = 3 => RP!Policy[c].max = 3 /\ RP!Policy[c].t3
      BY <2>7, <2>8, RulesAre
    <3> QED BY <2>6, <2>8, <3>1 DEF RP!Granted
  <2>10. /\ q.private => r.private /\ r.boundary = "local" /\ r.adapter = "local"
         /\ q.class = "code_synthesis" => r.boundary = "local"
         /\ tier \in r.tiers
    <3>1. r.adapter \in {"local", "cloud"} /\ r.boundary \in {"local", "cloud"}
      BY <2>3 DEF RP!RoutingAssumption
    <3>2. /\ r.adapter = "cloud" => r.boundary = "cloud"
          /\ q.private \/ ~ RP!Policy[c].cloud => r.boundary = "local"
      BY <2>3, <2>6 DEF Suits, RP!BoundaryAllowed
    <3>3. c = "code_synthesis" => ~ RP!Policy[c].cloud
      BY <2>7, RulesAre
    <3> QED BY <2>3, <2>6, <3>1, <3>2, <3>3 DEF Suits
  <2> QED BY <2>2, <2>3, <2>5, <2>6, <2>8, <2>9, <2>10
<1>4. RP!FallbackIsBounded
  <2>1. Len(tried) <= 2
    BY <1>1
  <2>2. RP!IsInjective([i \in DOMAIN tried |-> tried[i].route])
    <3>1. \A i, j \in DOMAIN tried : tried[i].route = tried[j].route => i = j
      BY <1>1 DEF RoutingInv, PlanInv
    <3> QED BY <3>1 DEF RP!IsInjective
  <2>3. \A i \in DOMAIN tried :
           i < Len(tried) => /\ tried[i].answer # "good" /\ tried[i].permits # "no"
                             /\ tried[i].answer # "throws" => tried[i].permits = "yes"
    BY DEF RoutingInv, Passable
  <2>4. at = "done" /\ ~ plan.handled => tried # <<>> /\ RP!Last(tried).answer = "good"
    BY DEF RoutingInv, RP!Last
  <2> QED BY <2>1, <2>2, <2>3, <2>4 DEF RP!FallbackIsBounded
<1> QED BY <1>2, <1>3, <1>4

(* For any routes and any clock: wherever a request is sent, and however   *)
(* late, it stays within its boundary, on evidence that is good at that    *)
(* moment, at a tier that is allowed, authorized, paid for and approved;   *)
(* two routes are tried at the most, each once, the second only if the     *)
(* first may be passed over.                                               *)
THEOREM RoutesStayWithin ==
    ASSUME RP!RoutingAssumption
    PROVE  RP!Spec => [](RP!TypeOK /\ RP!SentWithinBounds /\ RP!FallbackIsBounded)
<1>1. RP!Init => RoutingInv
  BY RouteStart
<1>2. RoutingInv /\ [RP!Next]_(RP!vars) => RoutingInv'
  BY RoutingStep
<1>3. RoutingInv => RP!TypeOK /\ RP!SentWithinBounds /\ RP!FallbackIsBounded
  BY RoutingMeans
<1> QED BY <1>1, <1>2, <1>3, PTL DEF RP!Spec
-----------------------------------------------------------------------------
(* IngressQuota: what gets through, and when a client may come back.       *)

Bucket == [count : Nat, resetAt : Nat]
Purse  == [tokens : Nat, updatedAt : Nat]

(* How many windows of the limiter may begin in d ticks.                   *)
Windows(d) == (d + Window - 1) \div Window

(* What had passed by the time t, in an account f of it.                   *)
By(f, t) == IF t < 0 THEN 0 ELSE f[t]

IsAccount(f) ==
    /\ f \in [0 .. QuotaHorizon -> Nat] /\ f[0] = 0
    /\ \A s, t \in 0 .. QuotaHorizon : s <= t => f[s] <= f[t]
    /\ \A t \in 0 .. QuotaHorizon : t >= now => f[t] = f[now]

QuotaTyped ==
    /\ now \in 1 .. QuotaHorizon /\ prune \in Nat /\ enabled \subseteq {"rate", "budget"}
    /\ asked \in [Keys -> 0 .. MaxAsked]
    /\ rate \in [Keys -> Bucket] /\ quota \in [Keys -> Purse]
    /\ told \in [Keys -> [by : {"none", "rate", "budget"}, at : Nat]]
    /\ let \in [Keys -> [0 .. QuotaHorizon -> Nat]]
    /\ \A k \in Keys : IsAccount(let[k]) /\ quota[k].updatedAt <= now /\ quota[k].tokens <= BudgetCapacity * Window

(* The window that began last, at s: what passed before it and in it, and  *)
(* nothing after it; its bucket is there while it lasts.                   *)
Latest(f, b, s) ==
    /\ s <= now
    /\ \A i \in 1 .. QuotaHorizon : i <= s => By(f, s - 1) - f[i - 1] <= RateLimit * Windows(s - i)
    /\ f[now] - By(f, s - 1) <= RateLimit
    /\ \A t \in 0 .. QuotaHorizon : t >= s + Window - 1 => f[t] = f[now]
    /\ \/ b.resetAt = s + Window /\ b.count >= f[now] - By(f, s - 1)
       \/ s + Window <= now /\ b.resetAt <= now

Rated(f) ==
    \A i, j \in 1 .. QuotaHorizon : i <= j => f[j] - f[i - 1] <= RateLimit * (1 + Windows(j - i))

Paid(f) ==
    \A i, j \in 1 .. QuotaHorizon : i <= j => Cost * Window * (f[j] - f[i - 1]) <= BudgetCapacity * (Window + j - i)

(* What has passed since i and the tokens that are left.                   *)
Funded(f, tokens) ==
    \A i \in 1 .. QuotaHorizon :
       i <= now => Cost * Window * (f[now] - f[i - 1]) + tokens <= BudgetCapacity * (Window + now - i)

(* What a client was told comes true: its window is over by then, or its   *)
(* tokens are enough.                                                      *)
Promised(k) ==
    /\ told[k].by = "rate" => "rate" \in enabled /\ rate[k].resetAt <= told[k].at
    /\ told[k].by = "budget" =>
          /\ "budget" \in enabled /\ told[k].at >= quota[k].updatedAt
          /\ quota[k].tokens + BudgetCapacity * (told[k].at - quota[k].updatedAt) >= Cost * Window

IngressInv ==
    /\ QuotaTyped
    /\ "rate" \in enabled =>
          \A k \in Keys : Rated(let[k]) /\ \E s \in Int : Latest(let[k], rate[k], s)
    /\ "budget" \in enabled => \A k \in Keys : Paid(let[k]) /\ Funded(let[k], IQ!Tokens(k))
    /\ \A k \in Keys : Promised(k)

LEMMA LesserOfTwo ==
    ASSUME NEW a \in Int, NEW b \in Int PROVE IQ!Min({a, b}) = IF a <= b THEN a ELSE b
<1>1. CASE a <= b
  <2>1. a \in {a, b} /\ \A y \in {a, b} : a <= y
    BY <1>1
  <2>2. \A x \in {a, b} : (\A y \in {a, b} : x <= y) => x = a
    BY <1>1
  <2> QED BY <1>1, <2>1, <2>2 DEF IQ!Min
<1>2. CASE ~ a <= b
  <2>1. b \in {a, b} /\ \A y \in {a, b} : b <= y
    BY <1>2
  <2>2. \A x \in {a, b} : (\A y \in {a, b} : x <= y) => x = b
    BY <1>2
  <2> QED BY <1>2, <2>1, <2>2 DEF IQ!Min
<1> QED BY <1>1, <1>2

LEMMA Quotients ==
    ASSUME NEW w \in Nat \ {0}, NEW a \in Int
    PROVE  /\ a \div w \in Int /\ w * (a \div w) <= a /\ a < w * (a \div w) + w
  OBVIOUS

(* Quotients by one number are ordered as the numbers, and go up by one    *)
(* with it.                                                                *)
LEMMA QuotientsGrow ==
    ASSUME NEW w \in Nat \ {0}, NEW a \in Int, NEW b \in Int
    PROVE  /\ a <= b => a \div w <= b \div w
           /\ (a + w) \div w = a \div w + 1
           /\ a >= 0 => a \div w >= 0
<1>1. PICK x, y, z : x = a \div w /\ y = b \div w /\ z = (a + w) \div w
  OBVIOUS
<1>2. /\ x \in Int /\ w * x <= a /\ a < w * x + w
      /\ y \in Int /\ w * y <= b /\ b < w * y + w
      /\ z \in Int /\ w * z <= a + w /\ a + w < w * z + w
  BY <1>1, Quotients
<1>3. ASSUME NEW m \in Int, NEW n \in Int, w * m < w * n + w PROVE m <= n
  <2> SUFFICES ASSUME m >= n + 1 PROVE FALSE
    OBVIOUS
  <2>1. w * m >= w * (n + 1) /\ w * (n + 1) = w * n + w
    OBVIOUS
  <2> QED BY <1>3, <2>1
<1>4. a <= b => x <= y
  <2> SUFFICES ASSUME a <= b PROVE x <= y
    OBVIOUS
  <2>1. w * x \in Int /\ w * y \in Int
    BY <1>2
  <2>2. w * x < w * y + w
    BY <1>2, <2>1
  <2> QED BY <1>2, <1>3, <2>2
<1>5. z = x + 1
  <2>1. w * (x + 1) = w * x + w /\ w * x \in Int /\ w * z \in Int
    BY <1>2
  <2>2. w * z < w * (x + 1) + w /\ w * (x + 1) < w * z + w
    BY <1>2, <2>1
  <2> QED BY <1>2, <1>3, <2>2
<1>6. a >= 0 => x >= 0
  <2> SUFFICES ASSUME a >= 0 PROVE 0 <= x
    BY <1>2
  <2>1. w * x \in Int /\ w * 0 = 0
    BY <1>2
  <2>2. w * 0 < w * x + w
    BY <1>2, <2>1
  <2> QED BY <1>2, <1>3, <2>2
<1> QED BY <1>1, <1>4, <1>5, <1>6

LEMMA WindowsGrow ==
    ASSUME IQ!QuotaAssumption, NEW c \in Int, NEW d \in Int
    PROVE  /\ Windows(c) \in Int /\ RateLimit * Windows(c) \in Int
           /\ c <= d => Windows(c) <= Windows(d) /\ RateLimit * Windows(c) <= RateLimit * Windows(d)
           /\ RateLimit * Windows(c + Window) = RateLimit + RateLimit * Windows(c)
           /\ c >= 0 => Windows(c) >= 0 /\ RateLimit * Windows(c) >= 0
           /\ c >= 1 => RateLimit * Windows(c) >= RateLimit
           /\ RateLimit * (1 + Windows(c)) = RateLimit + RateLimit * Windows(c)
<1>1. Window \in Nat \ {0} /\ RateLimit \in Nat \ {0}
  BY DEF IQ!QuotaAssumption
<1>2. PICK x, y, z, u : x = Windows(c) /\ y = Windows(d) /\ z = Windows(c + Window) /\ u = Windows(1)
  OBVIOUS
<1>3. /\ c + Window - 1 \in Int /\ d + Window - 1 \in Int /\ (c + Window) + Window - 1 = (c + Window - 1) + Window
      /\ 1 + Window - 1 = 0 + Window
  BY <1>1
<1>4. x \in Int /\ y \in Int /\ z \in Int /\ u \in Int /\ z = x + 1
  BY <1>1, <1>2, <1>3, Quotients, QuotientsGrow DEF Windows
<1>5. u = 1
  <2>1. 0 \div Window = 0
    BY <1>1
  <2> QED BY <1>1, <1>2, <1>3, <2>1, QuotientsGrow DEF Windows
<1>6. /\ c <= d => x <= y
      /\ c >= 0 => x >= 0
      /\ c >= 1 => u <= x
  BY <1>1, <1>2, <1>3, QuotientsGrow DEF Windows
<1>7. \A m, n \in Int : m <= n => RateLimit * m <= RateLimit * n
  BY <1>1
<1>10. RateLimit * x \in Int
  BY <1>1, <1>4
<1>8. RateLimit * 0 = 0 /\ RateLimit * 1 = RateLimit /\ RateLimit * (1 + x) = RateLimit + RateLimit * x
  BY <1>1, <1>4
<1>9. RateLimit * z = RateLimit + RateLimit * x
  BY <1>4, <1>8
<1> QED BY <1>2, <1>4, <1>5, <1>6, <1>7, <1>8, <1>9, <1>10

(* What the last window says of all intervals that end now or later.       *)
LEMMA LatestBounds ==
    ASSUME IQ!QuotaAssumption, NEW f, IsAccount(f), now \in 1 .. QuotaHorizon, NEW b, NEW s \in Int, Latest(f, b, s),
           NEW i \in 1 .. QuotaHorizon, NEW j \in 1 .. QuotaHorizon, i <= j, j >= now
    PROVE  f[j] - f[i - 1] <= RateLimit * (1 + Windows(j - i))
<1>0. /\ QuotaHorizon \in Nat \ {0} /\ RateLimit \in Nat /\ Window \in Nat \ {0} /\ now \in Nat /\ s <= now
      /\ i - 1 \in 0 .. QuotaHorizon /\ j \in 0 .. QuotaHorizon /\ now \in 0 .. QuotaHorizon /\ f \in [0 .. QuotaHorizon -> Nat]
  BY DEF IQ!QuotaAssumption, Latest, IsAccount
<1>1. f[j] = f[now] /\ f[j] \in Nat /\ f[i - 1] \in Nat
  BY <1>0 DEF IsAccount
<1>2. By(f, s - 1) \in Nat /\ f[now] - By(f, s - 1) <= RateLimit
  <2>1. s - 1 < 0 \/ s - 1 \in 0 .. QuotaHorizon
    BY <1>0
  <2> QED BY <1>0, <2>1 DEF By, Latest
<1>3. PICK p, lw, lt : p = By(f, s - 1) /\ lw = RateLimit * Windows(j - i) /\ lt = RateLimit * (1 + Windows(j - i))
  OBVIOUS
<1>4. lw \in Int /\ lw >= 0 /\ lt = RateLimit + lw
  <2>1. j - i \in Int /\ j - i >= 0
    BY <1>0
  <2>2. Windows(j - i) \in Int /\ RateLimit * Windows(j - i) >= 0
        /\ RateLimit * (1 + Windows(j - i)) = RateLimit + RateLimit * Windows(j - i)
    BY <2>1, WindowsGrow
  <2> QED BY <1>0, <1>3, <2>2
<1>5. CASE i <= s
  <2>1. p - f[i - 1] <= RateLimit * Windows(s - i)
    BY <1>3, <1>5 DEF Latest
  <2>2. s - i \in Int /\ j - i \in Int /\ s - i <= j - i
    BY <1>0
  <2>3. PICK lv : lv = RateLimit * Windows(s - i)
    OBVIOUS
  <2>4. lv \in Int /\ lv <= lw
    BY <1>3, <2>2, <2>3, WindowsGrow
  <2>5. p \in Nat /\ f[now] - p <= RateLimit /\ p - f[i - 1] <= lv
    BY <1>2, <1>3, <2>1, <2>3
  <2>6. f[j] - f[i - 1] <= RateLimit + lw
    <3> HIDE <1>3, <1>4, <2>1, <2>2, <2>3
    <3>1. lw \in Int /\ RateLimit \in Nat
      BY <1>0, <1>4
    <3> QED BY <1>1, <2>4, <2>5, <3>1
  <2> QED BY <1>3, <1>4, <2>6
<1>6. CASE i > s
  <2>1. p <= f[i - 1]
    <3>1. s - 1 < 0 \/ s - 1 \in 0 .. QuotaHorizon
      BY <1>0
    <3>2. s - 1 \in 0 .. QuotaHorizon => f[s - 1] <= f[i - 1]
      BY <1>0, <1>6 DEF IsAccount
    <3> QED BY <1>1, <1>3, <3>1, <3>2 DEF By
  <2>2. p \in Nat /\ f[now] - p <= RateLimit
    BY <1>2, <1>3
  <2>3. f[j] - f[i - 1] <= RateLimit + lw
    <3>1. lw \in Int /\ lw >= 0 /\ RateLimit \in Nat
      BY <1>0, <1>4
    <3> QED BY <1>1, <2>1, <2>2, <3>1
  <2> QED BY <1>3, <1>4, <2>3
<1> QED BY <1>5, <1>6, <1>0

(* A bucket that lasts, or is dropped when it is over, still describes the *)
(* last window at a later time.                                            *)
LEMMA LatestLasts ==
    ASSUME IQ!QuotaAssumption, NEW f, IsAccount(f), now \in 1 .. QuotaHorizon, NEW b \in Bucket, NEW s \in Int,
           Latest(f, b, s), NEW d \in Bucket, d = b \/ (d.resetAt = 0 /\ b.resetAt <= now)
    PROVE  Latest(f, d, s)
<1>1. s + Window \in Int /\ now \in Nat /\ b.resetAt \in Nat /\ (d.resetAt = 0 => d.resetAt <= now)
  BY DEF IQ!QuotaAssumption, Bucket
<1> QED BY <1>1 DEF Latest

(* What a window has left when it counted at least what passed in it.      *)
LEMMA LeftInWindow ==
    ASSUME NEW x \in Nat, NEW y \in Nat, NEW c \in Nat, NEW r \in Nat, c >= x - y, c + 1 <= r
    PROVE  x + 1 - y <= r /\ c + 1 >= x + 1 - y
<1> QED OBVIOUS

(* One more request passes in the window that lasts.                       *)
LEMMA LatestCounts ==
    ASSUME IQ!QuotaAssumption, NEW f, IsAccount(f), now \in 1 .. QuotaHorizon, NEW b \in Bucket, NEW s \in Int,
           Latest(f, b, s), b.resetAt > now, NEW g, g = f \/ (g = IQ!More(f) /\ b.count + 1 <= RateLimit),
           NEW d \in Bucket, d.count = b.count + 1, d.resetAt = b.resetAt
    PROVE  Latest(g, d, s)
<1>0. /\ QuotaHorizon \in Nat \ {0} /\ RateLimit \in Nat /\ Window \in Nat \ {0} /\ now \in Nat /\ s <= now
      /\ now \in 0 .. QuotaHorizon /\ f \in [0 .. QuotaHorizon -> Nat] /\ f[now] \in Nat
  BY DEF IQ!QuotaAssumption, Latest, IsAccount
<1>1. b.resetAt = s + Window /\ b.count >= f[now] - By(f, s - 1) /\ b.count \in Nat
  BY <1>0 DEF Latest, Bucket
<1>2. By(f, s - 1) \in Nat
  <2>1. s - 1 < 0 \/ s - 1 \in 0 .. QuotaHorizon
    BY <1>0
  <2> QED BY <1>0, <2>1 DEF By
<1>3. CASE g = f
  BY <1>0, <1>1, <1>2, <1>3 DEF Latest
<1>4. CASE g = IQ!More(f) /\ b.count + 1 <= RateLimit
  <2>1. /\ \A t \in 0 .. QuotaHorizon : g[t] = IF t >= now THEN f[t] + 1 ELSE f[t]
    BY <1>4 DEF IQ!More
  <2>2. g[now] = f[now] + 1
    BY <1>0, <2>1
  <2>3. By(g, s - 1) = By(f, s - 1)
    <3>1. s - 1 < 0 \/ (s - 1 \in 0 .. QuotaHorizon /\ ~ s - 1 >= now)
      BY <1>0
    <3> QED BY <2>1, <3>1 DEF By
  <2>4. \A i \in 1 .. QuotaHorizon : i <= s => g[i - 1] = f[i - 1]
    <3> SUFFICES ASSUME NEW i \in 1 .. QuotaHorizon, i <= s PROVE g[i - 1] = f[i - 1]
      OBVIOUS
    <3>1. i - 1 \in 0 .. QuotaHorizon /\ ~ i - 1 >= now
      BY <1>0
    <3> QED BY <2>1, <3>1
  <2>5. \A t \in 0 .. QuotaHorizon : t >= s + Window - 1 => g[t] = g[now]
    <3> SUFFICES ASSUME NEW t \in 0 .. QuotaHorizon, t >= s + Window - 1 PROVE g[t] = g[now]
      OBVIOUS
    <3>1. t >= now
      BY <1>0, <1>1
    <3>2. f[t] = f[now]
      BY <1>0, <3>1 DEF IsAccount
    <3> QED BY <2>1, <2>2, <3>1, <3>2
  <2>6. \A i \in 1 .. QuotaHorizon : i <= s => By(g, s - 1) - g[i - 1] <= RateLimit * Windows(s - i)
    BY <2>3, <2>4 DEF Latest
  <2>7. g[now] - By(g, s - 1) <= RateLimit /\ d.resetAt = s + Window /\ d.count >= g[now] - By(g, s - 1)
    <3>1. PICK x \in Nat, y \in Nat, c \in Nat :
             x = f[now] /\ y = By(f, s - 1) /\ c = b.count /\ c >= x - y /\ c + 1 <= RateLimit
      BY <1>0, <1>1, <1>2, <1>4
    <3>2. g[now] = x + 1 /\ By(g, s - 1) = y /\ d.count = c + 1 /\ d.resetAt = s + Window
      BY <1>1, <2>2, <2>3, <3>1
    <3>3. c >= x - y /\ c + 1 <= RateLimit /\ RateLimit \in Nat
      BY <1>0, <3>1
    <3>4. x + 1 - y <= RateLimit /\ c + 1 >= x + 1 - y
      BY <3>3, LeftInWindow
    <3> QED BY <3>2, <3>4
  <2> QED BY <1>0, <2>5, <2>6, <2>7 DEF Latest
<1> QED BY <1>3, <1>4

(* A window begins: the one before it is over.                             *)
LEMMA LatestBegins ==
    ASSUME IQ!QuotaAssumption, NEW f, IsAccount(f), now \in 1 .. QuotaHorizon, NEW b \in Bucket, NEW s \in Int,
           Latest(f, b, s), b.resetAt <= now, NEW g, g = f \/ g = IQ!More(f),
           NEW d \in Bucket, d.count = 1, d.resetAt = now + Window
    PROVE  Latest(g, d, now)
<1>0. /\ QuotaHorizon \in Nat \ {0} /\ RateLimit \in Nat \ {0} /\ Window \in Nat \ {0} /\ now \in Nat /\ s <= now
      /\ now \in 0 .. QuotaHorizon /\ f \in [0 .. QuotaHorizon -> Nat] /\ f[now] \in Nat /\ now - 1 \in 0 .. QuotaHorizon
  BY DEF IQ!QuotaAssumption, Latest, IsAccount
<1>1. s + Window <= now
  BY <1>0 DEF Latest
<1>2. By(f, s - 1) \in Nat /\ By(f, s - 1) <= f[now]
  <2>1. s - 1 < 0 \/ s - 1 \in 0 .. QuotaHorizon
    BY <1>0
  <2>2. s - 1 \in 0 .. QuotaHorizon => f[s - 1] <= f[now]
    BY <1>0 DEF IsAccount
  <2> QED BY <1>0, <2>1, <2>2 DEF By
<1>3. f[now - 1] = f[now]
  BY <1>0, <1>1 DEF Latest
<1>4. By(g, now - 1) = f[now] /\ g[now] - By(g, now - 1) <= 1
      /\ (\A i \in 1 .. QuotaHorizon : i <= now => g[i - 1] = f[i - 1])
      /\ (\A t \in 0 .. QuotaHorizon : t >= now => g[t] = g[now]) /\ g[now] \in Nat
  <2>1. CASE g = f
    BY <1>0, <1>3, <2>1 DEF By, IsAccount
  <2>2. CASE g = IQ!More(f)
    <3>1. \A t \in 0 .. QuotaHorizon : g[t] = IF t >= now THEN f[t] + 1 ELSE f[t]
      BY <2>2 DEF IQ!More
    <3>2. ~ now - 1 >= now /\ \A i \in 1 .. QuotaHorizon : i <= now => i - 1 \in 0 .. QuotaHorizon /\ ~ i - 1 >= now
      BY <1>0
    <3>3. g[now - 1] = f[now] /\ g[now] = f[now] + 1
      BY <1>0, <1>3, <3>1, <3>2
    <3>4. \A t \in 0 .. QuotaHorizon : t >= now => f[t] = f[now]
      BY <1>0 DEF IsAccount
    <3> QED BY <1>0, <3>1, <3>2, <3>3, <3>4 DEF By
  <2> QED BY <2>1, <2>2
<1>5. ASSUME NEW i \in 1 .. QuotaHorizon, i <= now PROVE f[now] - f[i - 1] <= RateLimit * Windows(now - i)
  <2>0. i \in Nat /\ i - 1 \in 0 .. QuotaHorizon /\ f[i - 1] \in Nat
    BY <1>0
  <2>1. CASE i <= s
    <3>1. By(f, s - 1) - f[i - 1] <= RateLimit * Windows(s - i)
      BY <2>1 DEF Latest
    <3>2. f[now] - By(f, s - 1) <= RateLimit
      BY DEF Latest
    <3>3. PICK lv, lu, lw : /\ lv = RateLimit * Windows(s - i) /\ lu = RateLimit * Windows((s - i) + Window)
                            /\ lw = RateLimit * Windows(now - i)
      OBVIOUS
    <3>4. s - i \in Int /\ (s - i) + Window \in Int /\ now - i \in Int /\ (s - i) + Window <= now - i
      BY <1>0, <1>1, <2>0
    <3>5. Windows(s - i) \in Int /\ Windows((s - i) + Window) \in Int /\ Windows(now - i) \in Int
          /\ lu = RateLimit + lv /\ lu <= lw /\ lv \in Int /\ lu \in Int /\ lw \in Int
      BY <3>3, <3>4, WindowsGrow
    <3>6. PICK p : p = By(f, s - 1)
      OBVIOUS
    <3>7. p \in Nat /\ p - f[i - 1] <= lv /\ f[now] - p <= RateLimit
      BY <1>2, <3>1, <3>2, <3>3, <3>6
    <3>8. f[now] - f[i - 1] <= lw
      <4>1. f[now] \in Nat /\ f[i - 1] \in Nat /\ RateLimit \in Nat
        BY <1>0, <2>0
      <4>2. lv \in Int /\ lw \in Int /\ RateLimit + lv <= lw
        BY <3>5
      <4> HIDE <1>0, <2>0, <3>1, <3>2, <3>3, <3>5
      <4> QED BY <3>7, <4>1, <4>2
    <3> QED BY <3>3, <3>8
  <2>2. CASE i > s /\ i < s + Window
    <3>1. By(f, s - 1) <= f[i - 1]
      <4>1. s - 1 < 0 \/ s - 1 \in 0 .. QuotaHorizon
        BY <1>0
      <4>2. s - 1 \in 0 .. QuotaHorizon => f[s - 1] <= f[i - 1]
        BY <1>0, <2>0, <2>2 DEF IsAccount
      <4> QED BY <2>0, <4>1, <4>2 DEF By
    <3>2. f[now] - By(f, s - 1) <= RateLimit
      BY DEF Latest
    <3>3. now - i \in Int /\ now - i >= 1
      BY <1>0, <1>1, <2>0, <2>2
    <3>4. PICK lw : lw = RateLimit * Windows(now - i)
      OBVIOUS
    <3>5. lw >= RateLimit /\ lw \in Int
      BY <3>3, <3>4, WindowsGrow
    <3> QED BY <1>0, <1>2, <2>0, <3>1, <3>2, <3>4, <3>5
  <2>3. CASE i >= s + Window
    <3>1. f[i - 1] = f[now]
      BY <1>0, <2>0, <2>3 DEF Latest
    <3>2. now - i \in Int /\ now - i >= 0
      BY <1>0, <1>5, <2>0
    <3>3. RateLimit * Windows(now - i) >= 0
      BY <3>2, WindowsGrow
    <3> QED BY <1>0, <3>1, <3>3
  <2> QED BY <1>0, <2>0, <2>1, <2>2, <2>3
<1>6. \A i \in 1 .. QuotaHorizon : i <= now => By(g, now - 1) - g[i - 1] <= RateLimit * Windows(now - i)
  BY <1>4, <1>5
<1>7. \A t \in 0 .. QuotaHorizon : t >= now + Window - 1 => g[t] = g[now]
  BY <1>0, <1>4
<1>8. g[now] - By(g, now - 1) <= RateLimit /\ d.count >= g[now] - By(g, now - 1)
  BY <1>0, <1>4
<1> QED BY <1>0, <1>6, <1>7, <1>8 DEF Latest

(* The tokens a client has, its purse filled up to now.                    *)
LEMMA TokensAre ==
    ASSUME IQ!QuotaAssumption, QuotaTyped, NEW k \in Keys
    PROVE  /\ IQ!Tokens(k) \in Nat /\ IQ!Tokens(k) <= BudgetCapacity * Window
           /\ \A n : n = quota[k].tokens + BudgetCapacity * (now - quota[k].updatedAt)
                        => IQ!Tokens(k) = IF BudgetCapacity * Window <= n THEN BudgetCapacity * Window ELSE n
<1>1. /\ BudgetCapacity \in Nat \ {0} /\ Window \in Nat \ {0} /\ now \in Nat /\ quota[k] \in Purse
      /\ quota[k].updatedAt \in Nat /\ quota[k].updatedAt <= now /\ quota[k].tokens \in Nat
  BY DEF IQ!QuotaAssumption, QuotaTyped, Purse
<1>2. now - quota[k].updatedAt \in Nat
  BY <1>1
<1>3. BudgetCapacity * Window \in Nat /\ quota[k].tokens + BudgetCapacity * (now - quota[k].updatedAt) \in Nat
  BY <1>1, <1>2
<1>4. IQ!Tokens(k) = IQ!Min({BudgetCapacity * Window, quota[k].tokens + BudgetCapacity * (now - quota[k].updatedAt)})
  BY DEF IQ!Tokens, IQ!Elapsed
<1>5. IQ!Tokens(k) = IF BudgetCapacity * Window <= quota[k].tokens + BudgetCapacity * (now - quota[k].updatedAt)
                     THEN BudgetCapacity * Window ELSE quota[k].tokens + BudgetCapacity * (now - quota[k].updatedAt)
  BY <1>3, <1>4, LesserOfTwo
<1> QED BY <1>3, <1>5

LEMMA QuotaStart ==
    ASSUME IQ!QuotaAssumption, IQ!Init PROVE IngressInv
<1>0. /\ BudgetCapacity \in Nat \ {0} /\ Window \in Nat \ {0} /\ QuotaHorizon \in Nat \ {0} /\ MaxAsked \in Nat
      /\ Cost \in Nat \ {0} /\ RateLimit \in Nat \ {0} /\ BudgetCapacity * Window \in Nat
  BY DEF IQ!QuotaAssumption
<1>1. /\ now = 1 /\ prune = 0 /\ enabled \in SUBSET {"rate", "budget"}
      /\ rate = [k \in Keys |-> [count |-> 0, resetAt |-> 0]]
      /\ quota = [k \in Keys |-> [tokens |-> BudgetCapacity * Window, updatedAt |-> 0]]
      /\ told = [k \in Keys |-> [by |-> "none", at |-> 0]]
      /\ let = [k \in Keys |-> [t \in 0 .. QuotaHorizon |-> 0]] /\ asked = [k \in Keys |-> 0]
  BY DEF IQ!Init, IQ!NoBucket, IQ!Full, IQ!NotTold
<1>2. [t \in 0 .. QuotaHorizon |-> 0] \in [0 .. QuotaHorizon -> Nat] /\ IsAccount([t \in 0 .. QuotaHorizon |-> 0])
  BY <1>0, <1>1 DEF IsAccount
<1>3. QuotaTyped
  BY <1>0, <1>1, <1>2 DEF QuotaTyped, Bucket, Purse
<1>4. PICK f : f = [t \in 0 .. QuotaHorizon |-> 0]
  OBVIOUS
<1>5. \A t \in 0 .. QuotaHorizon : f[t] = 0
  BY <1>4
<1>6. ASSUME NEW i \in 1 .. QuotaHorizon, NEW j \in 1 .. QuotaHorizon, i <= j
      PROVE  /\ f[j] - f[i - 1] = 0 /\ RateLimit * (1 + Windows(j - i)) >= 0
             /\ BudgetCapacity * (Window + j - i) >= 0
  <2>1. i - 1 \in 0 .. QuotaHorizon /\ j \in 0 .. QuotaHorizon /\ j - i \in Int /\ j - i >= 0 /\ Window + j - i \in Nat
    BY <1>0, <1>6
  <2>2. RateLimit * Windows(j - i) >= 0 /\ RateLimit * Windows(j - i) \in Int
        /\ RateLimit * (1 + Windows(j - i)) = RateLimit + RateLimit * Windows(j - i)
    BY <2>1, WindowsGrow
  <2>3. RateLimit * (1 + Windows(j - i)) >= 0
    BY <1>0, <2>2
  <2>4. PICK m \in Nat : m = Window + j - i
    BY <2>1
  <2> QED BY <1>0, <1>5, <2>1, <2>3, <2>4
<1>7. Rated(f)
  BY <1>6 DEF Rated
<1>8. Cost * Window * 0 = 0
  BY <1>0
<1>9. Paid(f)
  BY <1>6, <1>8 DEF Paid
<1>10. ASSUME NEW k \in Keys PROVE Funded(f, IQ!Tokens(k))
  <2>1. PICK full : full = BudgetCapacity * Window
    OBVIOUS
  <2>2. IQ!Tokens(k) <= full /\ IQ!Tokens(k) \in Nat /\ full \in Nat
    BY <1>0, <1>3, <2>1, TokensAre
  <2>3. \A i \in 1 .. QuotaHorizon : i <= now => i = 1 /\ f[now] - f[i - 1] = 0 /\ Window + now - i = Window
    BY <1>0, <1>1, <1>5
  <2> QED BY <1>8, <2>1, <2>2, <2>3 DEF Funded
<1>11. ASSUME NEW k \in Keys PROVE Latest(f, rate[k], 1 - Window)
  <2>1. By(f, (1 - Window) - 1) = 0
    BY <1>0 DEF By
  <2>2. \A i \in 1 .. QuotaHorizon : ~ i <= 1 - Window
    BY <1>0
  <2>3. f[now] = 0 /\ 1 - Window <= now /\ (1 - Window) + Window <= now /\ rate[k].resetAt <= now
    BY <1>0, <1>1, <1>5
  <2> QED BY <1>0, <1>5, <2>1, <2>2, <2>3 DEF Latest
<1>12. \A k \in Keys : let[k] = f /\ told[k].by = "none" /\ \E s \in Int : Latest(f, rate[k], s)
  <2>1. 1 - Window \in Int
    BY <1>0
  <2> QED BY <1>1, <1>4, <1>11, <2>1
<1> QED BY <1>3, <1>7, <1>9, <1>10, <1>12 DEF IngressInv, Promised

LEMMA QuotaTicks ==
    ASSUME IQ!QuotaAssumption, IngressInv, IQ!Tick PROVE IngressInv'
<1>0. /\ BudgetCapacity \in Nat \ {0} /\ Window \in Nat \ {0} /\ QuotaHorizon \in Nat \ {0} /\ Cost \in Nat \ {0}
      /\ RateLimit \in Nat \ {0}
  BY DEF IQ!QuotaAssumption
<1>1. /\ now \in Nat /\ now' = now + 1 /\ now' \in 1 .. QuotaHorizon /\ now \in 0 .. QuotaHorizon /\ now \in 1 .. QuotaHorizon
      /\ now' \in 0 .. QuotaHorizon
      /\ UNCHANGED <<enabled, rate, prune, quota, told, let, asked>>
  BY <1>0 DEF IQ!Tick, IngressInv, QuotaTyped
<1>2. ASSUME NEW k \in Keys PROVE IsAccount(let[k])' /\ let[k][now + 1] = let[k][now]
  <2>1. IsAccount(let[k])
    BY DEF IngressInv, QuotaTyped
  <2>2. /\ let[k] \in [0 .. QuotaHorizon -> Nat] /\ let[k][0] = 0
        /\ \A s, t \in 0 .. QuotaHorizon : s <= t => let[k][s] <= let[k][t]
        /\ \A t \in 0 .. QuotaHorizon : t >= now => let[k][t] = let[k][now]
    BY <2>1 DEF IsAccount
  <2>3. let[k][now + 1] = let[k][now]
    BY <1>1, <2>2
  <2>4. \A t \in 0 .. QuotaHorizon : t >= now + 1 => let[k][t] = let[k][now + 1]
    BY <1>1, <2>2, <2>3
  <2> QED BY <1>1, <2>2, <2>3, <2>4 DEF IsAccount
<1>3. QuotaTyped'
  <2>1. \A k \in Keys : quota[k].updatedAt <= now + 1
    <3>1. \A k \in Keys : quota[k].updatedAt \in Nat /\ quota[k].updatedAt <= now
      BY DEF IngressInv, QuotaTyped, Purse
    <3> QED BY <1>1, <3>1
  <2> QED BY <1>1, <1>2, <2>1 DEF IngressInv, QuotaTyped
<1>4. ASSUME NEW k \in Keys, NEW s \in Int, Latest(let[k], rate[k], s) PROVE Latest(let[k], rate[k], s)'
  <2>1. rate[k].resetAt \in Nat
    BY DEF IngressInv, QuotaTyped, Bucket
  <2>2. /\ s <= now + 1
        /\ \A i \in 1 .. QuotaHorizon : i <= s => By(let[k], s - 1) - let[k][i - 1] <= RateLimit * Windows(s - i)
        /\ let[k][now + 1] - By(let[k], s - 1) <= RateLimit
        /\ \A t \in 0 .. QuotaHorizon : t >= s + Window - 1 => let[k][t] = let[k][now + 1]
        /\ \/ rate[k].resetAt = s + Window /\ rate[k].count >= let[k][now + 1] - By(let[k], s - 1)
           \/ s + Window <= now + 1 /\ rate[k].resetAt <= now + 1
    BY <1>0, <1>1, <1>2, <1>4, <2>1 DEF Latest
  <2> QED BY <1>1, <2>2 DEF Latest, By, Windows
<1>5. ASSUME "rate" \in enabled', NEW k \in Keys PROVE Rated(let[k])' /\ \E s \in Int : Latest(let[k], rate[k], s)'
  <2>1. Rated(let[k]) /\ \E s \in Int : Latest(let[k], rate[k], s)
    BY <1>1, <1>5 DEF IngressInv
  <2> QED BY <1>1, <1>4, <2>1 DEF Rated, Windows
<1>6. ASSUME "budget" \in enabled', NEW k \in Keys PROVE Paid(let[k])' /\ Funded(let[k], IQ!Tokens(k))'
  <2>1. Paid(let[k]) /\ Funded(let[k], IQ!Tokens(k)) /\ IsAccount(let[k])
    BY <1>1, <1>6 DEF IngressInv, QuotaTyped
  <2>2. Paid(let[k])'
    BY <1>1, <2>1 DEF Paid
  <2>3. PICK n, m, full : /\ n = quota[k].tokens + BudgetCapacity * (now - quota[k].updatedAt)
                          /\ m = quota[k].tokens + BudgetCapacity * (now + 1 - quota[k].updatedAt)
                          /\ full = BudgetCapacity * Window
    OBVIOUS
  <2>4. quota[k].tokens \in Nat /\ quota[k].updatedAt \in Nat
    BY DEF IngressInv, QuotaTyped, Purse
  <2>5. n \in Int /\ m = n + BudgetCapacity /\ full \in Nat
    BY <1>0, <1>1, <2>3, <2>4
  <2>6. IQ!Tokens(k) = IF full <= n THEN full ELSE n
    BY <2>3, TokensAre DEF IngressInv
  <2>7. m' = m /\ full' = full
    OBVIOUS
  <2>8. IQ!Tokens(k)' = IF full <= m THEN full ELSE m
    <3>1. IQ!Tokens(k)' = IQ!Min({BudgetCapacity * Window, quota'[k].tokens + BudgetCapacity * (now' - quota'[k].updatedAt)})
      BY DEF IQ!Tokens, IQ!Elapsed
    <3>2. quota'[k].tokens + BudgetCapacity * (now' - quota'[k].updatedAt) = m
      <4>1. now' - quota'[k].updatedAt = now + 1 - quota[k].updatedAt /\ quota'[k].tokens = quota[k].tokens
        <5>1. quota' = quota /\ now' = now + 1
          BY <1>1
        <5>2. quota'[k] = quota[k]
          BY <5>1
        <5>3. PICK u \in Nat : u = quota[k].updatedAt
          BY <2>4
        <5>4. quota'[k].updatedAt = u /\ quota'[k].tokens = quota[k].tokens
          BY <5>2, <5>3
        <5>5. now' - u = now + 1 - u
          BY <5>1, <1>1
        <5> QED BY <5>3, <5>4, <5>5
      <4> QED BY <2>3, <4>1
    <3>3. BudgetCapacity * Window \in Int /\ quota'[k].tokens + BudgetCapacity * (now' - quota'[k].updatedAt) \in Int
      BY <2>3, <2>5, <1>0, <3>2
    <3> QED BY <2>3, <3>1, <3>2, <3>3, LesserOfTwo
  <2>9. PICK t, u : t = IQ!Tokens(k) /\ u = IQ!Tokens(k)'
    OBVIOUS
  <2>10. t \in Int /\ u \in Int /\ u <= t + BudgetCapacity /\ u <= full
    BY <1>0, <2>5, <2>6, <2>8, <2>9
  <2>11. ASSUME NEW i \in 1 .. QuotaHorizon, i <= now + 1
         PROVE  Cost * Window * (let[k][now + 1] - let[k][i - 1]) + u <= BudgetCapacity * (Window + (now + 1) - i)
    <3>0. i \in Nat /\ BudgetCapacity * (Window + (now + 1) - i) = full + BudgetCapacity * ((now + 1) - i)
      BY <1>0, <1>1, <2>3
    <3>1. CASE i = now + 1
      <4>1. let[k][now + 1] - let[k][i - 1] = 0
        <5>1. let[k][now] \in Nat /\ i - 1 = now
          <6>1. let[k] \in [0 .. QuotaHorizon -> Nat]
            BY <2>1 DEF IsAccount
          <6>2. i - 1 = now
            BY <1>1, <3>1
          <6> QED BY <1>1, <6>1, <6>2
        <5> QED BY <1>2, <5>1
      <4>2. Cost * Window * 0 = 0 /\ BudgetCapacity * ((now + 1) - i) = 0
        BY <1>0, <1>1, <3>1
      <4> QED BY <2>5, <2>10, <3>0, <4>1, <4>2
    <3>2. CASE i <= now
      <4>1. PICK c, e : c = Cost * Window * (let[k][now] - let[k][i - 1]) /\ e = BudgetCapacity * (Window + now - i)
        OBVIOUS
      <4>2. c + t <= e
        BY <2>1, <2>9, <3>2, <4>1 DEF Funded
      <4>3. BudgetCapacity * (Window + (now + 1) - i) = e + BudgetCapacity /\ e \in Int
        BY <1>0, <1>1, <3>0, <4>1
      <4>4. c \in Int
        <5>1. let[k][now] \in Nat /\ let[k][i - 1] \in Nat
          <6>1. let[k] \in [0 .. QuotaHorizon -> Nat] /\ i - 1 \in 0 .. QuotaHorizon
            BY <1>0, <2>1, <3>0 DEF IsAccount
          <6> QED BY <1>1, <6>1
        <5> QED BY <1>0, <4>1, <5>1
      <4>5. c + u <= e + BudgetCapacity
        BY <1>0, <2>10, <4>2, <4>3, <4>4
      <4> QED BY <1>2, <4>1, <4>3, <4>5
    <3> QED BY <1>1, <2>11, <3>0, <3>1, <3>2
  <2>12. Funded(let[k], IQ!Tokens(k))'
    BY <1>1, <2>9, <2>11 DEF Funded
  <2> QED BY <2>2, <2>12
<1>7. \A k \in Keys : Promised(k)'
  BY <1>1 DEF IngressInv, Promised
<1> QED BY <1>3, <1>5, <1>6, <1>7 DEF IngressInv

(* The bucket of a key once the buckets that are over have been dropped.   *)
LEMMA PrunedAre ==
    ASSUME IQ!QuotaAssumption, QuotaTyped, NEW k \in Keys
    PROVE  /\ IQ!Pruned[k] \in Bucket
           /\ IQ!Pruned[k] = rate[k] \/ (IQ!Pruned[k].resetAt = 0 /\ rate[k].resetAt <= now)
<1>1. IQ!NoBucket \in Bucket /\ IQ!NoBucket.resetAt = 0
  BY DEF IQ!NoBucket, Bucket
<1>2. rate[k] \in Bucket
  BY DEF QuotaTyped
<1>3. IQ!Pruned[k] = IF now >= prune /\ rate[k].resetAt <= now THEN IQ!NoBucket ELSE rate[k]
  BY DEF IQ!Pruned
<1> QED BY <1>1, <1>2, <1>3

LEMMA CountedAre ==
    ASSUME IQ!QuotaAssumption, QuotaTyped, NEW k \in Keys
    PROVE  /\ IQ!Counted(k) \in Bucket
           /\ IQ!Pruned[k].resetAt > now =>
                 /\ IQ!Pruned[k] = rate[k]
                 /\ IQ!Counted(k).count = rate[k].count + 1 /\ IQ!Counted(k).resetAt = rate[k].resetAt
           /\ ~ IQ!Pruned[k].resetAt > now =>
                 /\ rate[k].resetAt <= now
                 /\ IQ!Counted(k).count = 1 /\ IQ!Counted(k).resetAt = now + Window
<1>0. now \in Nat \ {0} /\ Window \in Nat /\ rate[k] \in Bucket /\ rate[k].resetAt \in Nat
      /\ rate[k].count \in Nat
  BY DEF QuotaTyped, Bucket, IQ!QuotaAssumption
<1>1. IQ!Pruned[k] \in Bucket /\ IQ!Pruned[k].resetAt \in Nat
      /\ (IQ!Pruned[k] = rate[k] \/ (IQ!Pruned[k].resetAt = 0 /\ rate[k].resetAt <= now))
  BY PrunedAre DEF Bucket
<1>2. CASE IQ!Pruned[k].resetAt > now
  <2>1. IQ!Pruned[k] = rate[k]
    BY <1>0, <1>1, <1>2
  <2>2. IQ!Counted(k) = [rate[k] EXCEPT !.count = @ + 1]
    BY <1>2, <2>1 DEF IQ!Counted
  <2> QED BY <1>0, <1>2, <2>1, <2>2 DEF Bucket
<1>3. CASE ~ IQ!Pruned[k].resetAt > now
  <2>1. rate[k].resetAt <= now
    BY <1>0, <1>1, <1>3
  <2>2. IQ!Counted(k) = [count |-> 1, resetAt |-> now + Window]
    BY <1>3 DEF IQ!Counted
  <2> QED BY <1>0, <1>3, <2>1, <2>2 DEF Bucket
<1> QED BY <1>2, <1>3

(* Intervals that end before now are as they were, and the window that     *)
(* began last speaks for the others.                                       *)
LEMMA RatedStays ==
    ASSUME IQ!QuotaAssumption, NEW f, NEW g, IsAccount(f), IsAccount(g), now \in 1 .. QuotaHorizon,
           g = f \/ g = IQ!More(f), Rated(f), NEW b, NEW s \in Int, Latest(g, b, s)
    PROVE  Rated(g)
<1>0. QuotaHorizon \in Nat /\ now \in Nat
  BY DEF IQ!QuotaAssumption
<1> SUFFICES ASSUME NEW i \in 1 .. QuotaHorizon, NEW j \in 1 .. QuotaHorizon, i <= j
             PROVE  g[j] - g[i - 1] <= RateLimit * (1 + Windows(j - i))
  BY DEF Rated
<1>1. CASE j >= now
  BY <1>1, LatestBounds
<1>2. CASE ~ j >= now
  <2>1. g[j] = f[j] /\ g[i - 1] = f[i - 1]
    <3>1. j \in 0 .. QuotaHorizon /\ i - 1 \in 0 .. QuotaHorizon /\ ~ j >= now /\ ~ i - 1 >= now
      BY <1>0, <1>2
    <3> QED BY <3>1 DEF IQ!More
  <2> QED BY <2>1 DEF Rated
<1> QED BY <1>1, <1>2

LEMMA MoreIsAccount ==
    ASSUME IQ!QuotaAssumption, NEW f, IsAccount(f), now \in 1 .. QuotaHorizon
    PROVE  IsAccount(IQ!More(f)) /\ IQ!More(f)[now] = f[now] + 1
           /\ \A i \in 1 .. QuotaHorizon : i <= now => IQ!More(f)[i - 1] = f[i - 1]
<1>0. QuotaHorizon \in Nat /\ now \in Nat /\ now \in 0 .. QuotaHorizon /\ 0 \in 0 .. QuotaHorizon /\ ~ 0 >= now
  BY DEF IQ!QuotaAssumption
<1>1. PICK g : g = IQ!More(f)
  OBVIOUS
<1>2. g = [t \in 0 .. QuotaHorizon |-> IF t >= now THEN f[t] + 1 ELSE f[t]]
  BY <1>1 DEF IQ!More
<1>3. /\ f \in [0 .. QuotaHorizon -> Nat] /\ f[0] = 0
      /\ \A s, t \in 0 .. QuotaHorizon : s <= t => f[s] <= f[t]
      /\ \A t \in 0 .. QuotaHorizon : t >= now => f[t] = f[now]
  BY DEF IsAccount
<1>4. \A t \in 0 .. QuotaHorizon : g[t] = (IF t >= now THEN f[t] + 1 ELSE f[t]) /\ f[t] \in Nat
  BY <1>2, <1>3
<1>5. g \in [0 .. QuotaHorizon -> Nat]
  BY <1>2, <1>3
<1>6. g[0] = 0 /\ g[now] = f[now] + 1
  BY <1>0, <1>3, <1>4
<1>7. \A s, t \in 0 .. QuotaHorizon : s <= t => g[s] <= g[t]
  <2> SUFFICES ASSUME NEW s \in 0 .. QuotaHorizon, NEW t \in 0 .. QuotaHorizon, s <= t PROVE g[s] <= g[t]
    OBVIOUS
  <2>1. f[s] <= f[t] /\ f[s] \in Nat /\ f[t] \in Nat /\ (s >= now => t >= now)
    BY <1>0, <1>3
  <2> QED BY <1>4, <2>1
<1>8. \A t \in 0 .. QuotaHorizon : t >= now => g[t] = g[now]
  BY <1>3, <1>4, <1>6
<1>9. \A i \in 1 .. QuotaHorizon : i <= now => g[i - 1] = f[i - 1]
  <2> SUFFICES ASSUME NEW i \in 1 .. QuotaHorizon, i <= now PROVE g[i - 1] = f[i - 1]
    OBVIOUS
  <2>1. i - 1 \in 0 .. QuotaHorizon /\ ~ i - 1 >= now
    BY <1>0
  <2> QED BY <1>4, <2>1
<1> QED BY <1>1, <1>5, <1>6, <1>7, <1>8, <1>9 DEF IsAccount

(* What is spent now is taken out of the tokens.                           *)
LEMMA PaidStays ==
    ASSUME IQ!QuotaAssumption, NEW f, IsAccount(f), now \in 1 .. QuotaHorizon, Paid(f),
           NEW tokens \in Nat, Funded(f, tokens), NEW g, NEW rest \in Nat,
           \/ g = f /\ rest = tokens
           \/ g = IQ!More(f) /\ tokens = rest + Cost * Window
    PROVE  Paid(g) /\ Funded(g, rest)
<1>0. /\ QuotaHorizon \in Nat /\ now \in Nat /\ Cost \in Nat /\ Window \in Nat /\ BudgetCapacity \in Nat
      /\ f \in [0 .. QuotaHorizon -> Nat] /\ now \in 0 .. QuotaHorizon
  BY DEF IQ!QuotaAssumption, IsAccount
<1>1. CASE g = f /\ rest = tokens
  BY <1>1
<1>2. CASE g = IQ!More(f) /\ tokens = rest + Cost * Window
  <2>1. /\ IsAccount(g) /\ g[now] = f[now] + 1
        /\ \A i \in 1 .. QuotaHorizon : i <= now => g[i - 1] = f[i - 1]
    BY <1>2, MoreIsAccount
  <2>2. PICK cw \in Nat : cw = Cost * Window
    BY <1>0
  <2>3. ASSUME NEW i \in 1 .. QuotaHorizon, i <= now
        PROVE  cw * (g[now] - g[i - 1]) + rest <= BudgetCapacity * (Window + now - i)
    <3>1. i - 1 \in 0 .. QuotaHorizon
      BY <1>0
    <3>2. PICK p \in Nat, q \in Nat : p = f[now] /\ q = f[i - 1]
      BY <1>0, <3>1
    <3>3. g[now] - g[i - 1] = (p - q) + 1
      BY <2>1, <2>3, <3>2
    <3>4. cw * ((p - q) + 1) = cw * (p - q) + cw
      BY <3>2
    <3>5. cw * (p - q) + tokens <= BudgetCapacity * (Window + now - i)
      BY <2>2, <2>3, <3>2 DEF Funded
    <3>6. cw * (p - q) \in Int /\ BudgetCapacity * (Window + now - i) \in Int
      BY <1>0, <3>2
    <3>7. PICK x \in Int, y \in Int : x = cw * (p - q) /\ y = BudgetCapacity * (Window + now - i)
      BY <3>6
    <3>8. x + cw + rest <= y
      BY <1>2, <2>2, <3>5, <3>7
    <3> QED BY <3>3, <3>4, <3>7, <3>8
  <2>4. Funded(g, rest)
    BY <2>2, <2>3 DEF Funded
  <2>5. ASSUME NEW i \in 1 .. QuotaHorizon, NEW j \in 1 .. QuotaHorizon, i <= j
        PROVE  Cost * Window * (g[j] - g[i - 1]) <= BudgetCapacity * (Window + j - i)
    <3>0. i \in Nat /\ j \in Nat /\ j \in 0 .. QuotaHorizon /\ i - 1 \in 0 .. QuotaHorizon /\ g \in [0 .. QuotaHorizon -> Nat]
      BY <1>0, <2>1 DEF IsAccount
    <3>1. CASE ~ j >= now
      <4>1. g[j] = f[j] /\ g[i - 1] = f[i - 1]
        <5>1. ~ i - 1 >= now
          BY <1>0, <2>5, <3>0, <3>1
        <5> QED BY <1>2, <3>0, <3>1, <5>1 DEF IQ!More
      <4> QED BY <2>5, <4>1 DEF Paid
    <3>2. CASE j >= now /\ i <= now
      <4>1. g[j] = g[now]
        BY <2>1, <3>0, <3>2 DEF IsAccount
      <4>2. PICK x, y, z : /\ x = cw * (g[now] - g[i - 1]) /\ y = BudgetCapacity * (Window + now - i)
                           /\ z = BudgetCapacity * (Window + j - i)
        OBVIOUS
      <4>3. x + rest <= y
        BY <2>3, <3>2, <4>2
      <4>4. x \in Int /\ y \in Int /\ z \in Int /\ y <= z
        <5>1. g[now] \in Nat /\ g[i - 1] \in Nat
          BY <1>0, <3>0
        <5>2. x \in Int /\ y \in Int /\ z \in Int
          BY <1>0, <3>0, <4>2, <5>1
        <5>3. z = y + BudgetCapacity * (j - now)
          BY <1>0, <3>0, <4>2
        <5>4. BudgetCapacity * (j - now) \in Nat
          <6>1. j - now \in Nat
            BY <1>0, <3>0, <3>2
          <6> QED BY <1>0, <6>1
        <5> QED BY <5>2, <5>3, <5>4
      <4>5. x <= z
        BY <4>3, <4>4
      <4> QED BY <2>2, <4>1, <4>2, <4>5
    <3>3. CASE j >= now /\ ~ i <= now
      <4>1. g[j] = g[now] /\ g[i - 1] = g[now] /\ g[now] \in Nat
        <5>1. i - 1 >= now
          BY <1>0, <3>0, <3>3
        <5> QED BY <1>0, <2>1, <3>0, <3>3, <5>1 DEF IsAccount
      <4>2. g[j] - g[i - 1] = 0 /\ cw * 0 = 0
        BY <2>2, <4>1
      <4>3. Window + j - i \in Nat
        BY <1>0, <2>5, <3>0
      <4>4. BudgetCapacity * (Window + j - i) \in Nat
        BY <1>0, <4>3
      <4> QED BY <2>2, <4>2, <4>4
    <3> QED BY <3>1, <3>2, <3>3
  <2> QED BY <2>4, <2>5 DEF Paid
<1> QED BY <1>1, <1>2

LEMMA WaitIsEnough ==
    ASSUME IQ!QuotaAssumption, QuotaTyped, NEW k \in Keys, ~ IQ!Tokens(k) >= Cost * Window
    PROVE  IQ!Wait(k) \in Nat /\ IQ!Tokens(k) + BudgetCapacity * IQ!Wait(k) >= Cost * Window
<1>1. PICK t, w, c : t = IQ!Tokens(k) /\ w = Cost * Window /\ c = BudgetCapacity
  OBVIOUS
<1>2. t \in Nat /\ w \in Nat /\ c \in Nat \ {0} /\ ~ t >= w
  <2>1. Cost \in Nat /\ Window \in Nat /\ BudgetCapacity \in Nat \ {0}
    BY DEF IQ!QuotaAssumption
  <2> QED BY <1>1, <2>1, TokensAre
<1>3. PICK d : d = (t - w) \div c
  OBVIOUS
<1>4. d \in Int /\ c * d <= t - w
  BY <1>2, <1>3, Quotients
<1>5. d <= 0
  <2> SUFFICES ASSUME d >= 1 PROVE FALSE
    BY <1>4
  <2>1. c * d >= c * 1 /\ c * 1 = c /\ c * d \in Int
    BY <1>2, <1>4
  <2> QED BY <1>2, <1>4, <2>1
<1>6. -d \in Nat /\ c * (-d) = -(c * d) /\ c * d \in Int
  BY <1>2, <1>4, <1>5
<1>7. t + c * (-d) >= w
  BY <1>2, <1>4, <1>6
<1>8. IQ!Wait(k) = -d
  BY <1>1, <1>3 DEF IQ!Wait
<1> QED BY <1>1, <1>6, <1>7, <1>8

(* One request in terms of what it decides.                                *)
LEMMA RequestIs ==
    ASSUME IQ!QuotaAssumption, IngressInv, NEW k \in Keys, IQ!Request(k)
    PROVE  \E inWindow, pays \in BOOLEAN :
              /\ inWindow = ("rate" \in enabled => IQ!Counted(k).count <= RateLimit)
              /\ pays = ("budget" \in enabled => IQ!Tokens(k) >= Cost * Window)
              /\ asked[k] < MaxAsked /\ asked' = [asked EXCEPT ![k] = asked[k] + 1]
              /\ "rate" \in enabled => /\ rate' = [IQ!Pruned EXCEPT ![k] = IQ!Counted(k)]
                                       /\ prune' = IF now >= prune THEN now + Window ELSE prune
              /\ "rate" \notin enabled => UNCHANGED <<rate, prune>>
              /\ quota' = IF ~ inWindow \/ "budget" \notin enabled THEN quota
                          ELSE [quota EXCEPT ![k] =
                                 [tokens |-> IQ!Tokens(k) - (IF pays THEN Cost * Window ELSE 0),
                                  updatedAt |-> now]]
              /\ told' = [told EXCEPT ![k] =
                           IF ~ inWindow THEN [by |-> "rate", at |-> IQ!Counted(k).resetAt]
                           ELSE IF ~ pays THEN [by |-> "budget", at |-> now + IQ!Wait(k)]
                           ELSE [by |-> "none", at |-> 0]]
              /\ let' = IF inWindow /\ pays THEN [let EXCEPT ![k] = IQ!More(let[k])] ELSE let
              /\ UNCHANGED <<now, enabled>>
<1>1. PICK inWindow \in BOOLEAN, pays \in BOOLEAN :
         /\ inWindow = ("rate" \in enabled => IQ!Counted(k).count <= RateLimit)
         /\ pays = ("budget" \in enabled => IQ!Tokens(k) >= Cost * Window)
  OBVIOUS
<1>2. /\ asked[k] < MaxAsked /\ asked' = [asked EXCEPT ![k] = asked[k] + 1]
      /\ "rate" \in enabled => /\ rate' = [IQ!Pruned EXCEPT ![k] = IQ!Counted(k)]
                               /\ prune' = IF now >= prune THEN now + Window ELSE prune
      /\ "rate" \notin enabled => UNCHANGED <<rate, prune>>
      /\ UNCHANGED <<now, enabled>>
  BY DEF IQ!Request
<1>3. quota' = IF ~ inWindow \/ "budget" \notin enabled THEN quota
               ELSE [quota EXCEPT ![k] =
                      [tokens |-> IQ!Tokens(k) - (IF pays THEN Cost * Window ELSE 0),
                       updatedAt |-> now]]
  BY <1>1 DEF IQ!Request
<1>4. told' = [told EXCEPT ![k] =
                IF ~ inWindow THEN [by |-> "rate", at |-> IQ!Counted(k).resetAt]
                ELSE IF ~ pays THEN [by |-> "budget", at |-> now + IQ!Wait(k)]
                ELSE [by |-> "none", at |-> 0]]
  BY <1>1 DEF IQ!Request, IQ!NotTold
<1>5. let' = IF inWindow /\ pays THEN [let EXCEPT ![k] = IQ!More(let[k])] ELSE let
  BY <1>1 DEF IQ!Request
<1> QED BY <1>1, <1>2, <1>3, <1>4, <1>5

LEMMA QuotaRequests ==
    ASSUME IQ!QuotaAssumption, IngressInv, NEW k \in Keys, IQ!Request(k) PROVE IngressInv'
<1>0. /\ BudgetCapacity \in Nat \ {0} /\ Window \in Nat \ {0} /\ QuotaHorizon \in Nat \ {0} /\ Cost \in Nat \ {0}
      /\ RateLimit \in Nat \ {0} /\ MaxAsked \in Nat /\ now \in 1 .. QuotaHorizon /\ now \in Nat
      /\ BudgetCapacity * Window \in Nat /\ Cost * Window \in Nat
  BY DEF IQ!QuotaAssumption, IngressInv, QuotaTyped
<1>1. PICK inWindow \in BOOLEAN, pays \in BOOLEAN :
              /\ inWindow = ("rate" \in enabled => IQ!Counted(k).count <= RateLimit)
              /\ pays = ("budget" \in enabled => IQ!Tokens(k) >= Cost * Window)
              /\ asked[k] < MaxAsked /\ asked' = [asked EXCEPT ![k] = asked[k] + 1]
              /\ "rate" \in enabled => /\ rate' = [IQ!Pruned EXCEPT ![k] = IQ!Counted(k)]
                                       /\ prune' = IF now >= prune THEN now + Window ELSE prune
              /\ "rate" \notin enabled => UNCHANGED <<rate, prune>>
              /\ quota' = IF ~ inWindow \/ "budget" \notin enabled THEN quota
                          ELSE [quota EXCEPT ![k] =
                                 [tokens |-> IQ!Tokens(k) - (IF pays THEN Cost * Window ELSE 0),
                                  updatedAt |-> now]]
              /\ told' = [told EXCEPT ![k] =
                           IF ~ inWindow THEN [by |-> "rate", at |-> IQ!Counted(k).resetAt]
                           ELSE IF ~ pays THEN [by |-> "budget", at |-> now + IQ!Wait(k)]
                           ELSE [by |-> "none", at |-> 0]]
              /\ let' = IF inWindow /\ pays THEN [let EXCEPT ![k] = IQ!More(let[k])] ELSE let
              /\ UNCHANGED <<now, enabled>>
  BY RequestIs
<1>2. QuotaTyped
  BY DEF IngressInv
<1>3. /\ asked \in [Keys -> 0 .. MaxAsked] /\ rate \in [Keys -> Bucket] /\ quota \in [Keys -> Purse]
      /\ told \in [Keys -> [by : {"none", "rate", "budget"}, at : Nat]]
      /\ let \in [Keys -> [0 .. QuotaHorizon -> Nat]]
      /\ \A l \in Keys : IsAccount(let[l]) /\ quota[l].updatedAt <= now /\ quota[l].tokens <= BudgetCapacity * Window
      /\ prune \in Nat /\ enabled \subseteq {"rate", "budget"}
  BY <1>2 DEF QuotaTyped
<1>4. IQ!Tokens(k) \in Nat /\ IQ!Tokens(k) <= BudgetCapacity * Window
  BY <1>2, TokensAre
<1>5. IQ!Counted(k) \in Bucket /\ IQ!Pruned \in [Keys -> Bucket]
  BY <1>2, CountedAre, PrunedAre DEF IQ!Pruned
<1>6. /\ \A l \in Keys : l # k => /\ quota'[l] = quota[l] /\ told'[l] = told[l] /\ let'[l] = let[l]
                                  /\ rate'[l] = rate[l] \/ rate'[l] = IQ!Pruned[l]
  BY <1>1, <1>3, <1>5
<1>7. rate' \in [Keys -> Bucket] /\ prune' \in Nat /\ asked' \in [Keys -> 0 .. MaxAsked]
  <2>1. asked[k] + 1 \in 0 .. MaxAsked
    BY <1>0, <1>1, <1>3
  <2>2. prune' \in Nat
    BY <1>0, <1>1, <1>3
  <2>3. rate' \in [Keys -> Bucket]
    BY <1>1, <1>3, <1>5
  <2> QED BY <1>1, <1>3, <2>1, <2>2, <2>3
<1>8. PICK tokens : tokens = IQ!Tokens(k) - (IF pays THEN Cost * Window ELSE 0)
  OBVIOUS
<1>9. "budget" \in enabled => tokens \in Nat /\ tokens <= BudgetCapacity * Window
  <2>1. PICK t \in Nat, w \in Nat : t = IQ!Tokens(k) /\ w = Cost * Window
    BY <1>0, <1>4
  <2>2. tokens = t - (IF pays THEN w ELSE 0)
    BY <1>8, <2>1
  <2>3. "budget" \in enabled /\ pays => t >= w
    BY <1>1, <2>1
  <2>4. t <= BudgetCapacity * Window /\ BudgetCapacity * Window \in Nat
    BY <1>0, <1>4, <2>1
  <2>5. PICK full \in Nat : full = BudgetCapacity * Window
    BY <2>4
  <2> QED BY <2>1, <2>2, <2>3, <2>4, <2>5
<1>11. quota' \in [Keys -> Purse] /\ \A l \in Keys : quota'[l].updatedAt <= now /\ quota'[l].tokens <= BudgetCapacity * Window
  <2>1. CASE ~ inWindow \/ "budget" \notin enabled
    BY <1>1, <1>3, <2>1
  <2>2. CASE inWindow /\ "budget" \in enabled
    <3>1. PICK p : p = [tokens |-> tokens, updatedAt |-> now]
      OBVIOUS
    <3>2. quota' = [quota EXCEPT ![k] = p] /\ p \in Purse /\ p.updatedAt <= now /\ p.tokens <= BudgetCapacity * Window
      BY <1>0, <1>1, <1>8, <1>9, <2>2, <3>1 DEF Purse
    <3> QED BY <1>3, <3>2
  <2> QED BY <2>1, <2>2
<1>12. PICK say : say = IF ~ inWindow THEN [by |-> "rate", at |-> IQ!Counted(k).resetAt]
                        ELSE IF ~ pays THEN [by |-> "budget", at |-> now + IQ!Wait(k)]
                        ELSE [by |-> "none", at |-> 0]
  OBVIOUS
<1>13. told' = [told EXCEPT ![k] = say] /\ say \in [by : {"none", "rate", "budget"}, at : Nat]
  <2>1. ~ pays => IQ!Wait(k) \in Nat
    BY <1>1, <1>2, WaitIsEnough
  <2>2. IQ!Counted(k).resetAt \in Nat
    BY <1>5 DEF Bucket
  <2> QED BY <1>0, <1>1, <1>12, <2>1, <2>2
<1>14. \A l \in Keys : IsAccount(let'[l])
  <2>1. IsAccount(IQ!More(let[k]))
    BY <1>0, <1>3, MoreIsAccount
  <2> QED BY <1>1, <1>3, <2>1
<1>15. \A l \in Keys : IsAccount(let[l])'
  BY <1>1, <1>14 DEF IsAccount
<1>16. QuotaTyped'
  <2>1. told' \in [Keys -> [by : {"none", "rate", "budget"}, at : Nat]]
    BY <1>3, <1>13
  <2>2. let' \in [Keys -> [0 .. QuotaHorizon -> Nat]]
    <3>1. IQ!More(let[k]) \in [0 .. QuotaHorizon -> Nat]
      BY <1>0, <1>3, MoreIsAccount DEF IsAccount
    <3> QED BY <1>1, <1>3, <3>1
  <2> QED BY <1>0, <1>1, <1>3, <1>7, <1>11, <1>15, <2>1, <2>2 DEF QuotaTyped
<1>17. ASSUME "rate" \in enabled, NEW l \in Keys
       PROVE  Rated(let'[l]) /\ \E s \in Int : Latest(let'[l], rate'[l], s)
  <2>1. Rated(let[l]) /\ IsAccount(let[l]) /\ rate[l] \in Bucket /\ rate'[l] \in Bucket
    BY <1>3, <1>7, <1>17 DEF IngressInv
  <2>2. PICK s \in Int : Latest(let[l], rate[l], s)
    BY <1>17 DEF IngressInv
  <2>3. CASE l # k
    <3>1. rate'[l] = rate[l] \/ (rate'[l].resetAt = 0 /\ rate[l].resetAt <= now)
      BY <1>2, <1>6, <2>3, PrunedAre
    <3>2. PICK d : d = rate'[l]
      OBVIOUS
    <3>3. Latest(let[l], d, s)
      BY <1>0, <2>1, <2>2, <3>1, <3>2, LatestLasts
    <3> QED BY <1>6, <2>1, <2>3, <3>2, <3>3
  <2>4. CASE l = k
    <3>1. PICK f, g, b, d : f = let[k] /\ g = let'[k] /\ b = rate[k] /\ d = rate'[k]
      OBVIOUS
    <3>2. /\ IsAccount(f) /\ IsAccount(g) /\ Rated(f) /\ b \in Bucket /\ d \in Bucket /\ Latest(f, b, s)
      BY <1>14, <2>1, <2>2, <2>4, <3>1
    <3>3. d = IQ!Counted(k)
      BY <1>1, <1>5, <1>17, <3>1
    <3>4. g = f \/ (g = IQ!More(f) /\ d.count <= RateLimit)
      <4>1. CASE inWindow /\ pays
        BY <1>1, <1>3, <1>17, <3>1, <3>3, <4>1
      <4>2. CASE ~ (inWindow /\ pays)
        BY <1>1, <3>1, <4>2
      <4> QED BY <4>1, <4>2
    <3>5. \E r \in Int : Latest(g, d, r)
      <4>1. CASE IQ!Pruned[k].resetAt > now
        <5>1. d.count = b.count + 1 /\ d.resetAt = b.resetAt /\ b.resetAt > now
          BY <1>2, <3>1, <3>3, <4>1, CountedAre
        <5>2. Latest(g, d, s)
          BY <1>0, <3>2, <3>4, <5>1, LatestCounts
        <5> QED BY <5>2
      <4>2. CASE ~ IQ!Pruned[k].resetAt > now
        <5>1. d.count = 1 /\ d.resetAt = now + Window /\ b.resetAt <= now
          BY <1>2, <3>1, <3>3, <4>2, CountedAre
        <5>2. Latest(g, d, now)
          BY <1>0, <3>2, <3>4, <5>1, LatestBegins
        <5>3. now \in Int
          BY <1>0
        <5> QED BY <5>2, <5>3
      <4> QED BY <4>1, <4>2
    <3>6. PICK r \in Int : Latest(g, d, r)
      BY <3>5
    <3>7. Rated(g)
      BY <1>0, <3>2, <3>4, <3>6, RatedStays
    <3> QED BY <2>4, <3>1, <3>6, <3>7
  <2> QED BY <2>3, <2>4
<1>18. ASSUME "budget" \in enabled, NEW l \in Keys
       PROVE  \E rest \in Nat : /\ Paid(let'[l]) /\ Funded(let'[l], rest)
                                /\ IQ!Tokens(l)' = rest
  <2>1. Paid(let[l]) /\ Funded(let[l], IQ!Tokens(l)) /\ IsAccount(let[l]) /\ IQ!Tokens(l) \in Nat
    BY <1>2, <1>3, <1>18, TokensAre DEF IngressInv
  <2>2. IQ!Tokens(l)' = IQ!Min({BudgetCapacity * Window, quota'[l].tokens + BudgetCapacity * (now' - quota'[l].updatedAt)})
    BY DEF IQ!Tokens, IQ!Elapsed
  <2>3. CASE l # k \/ ~ inWindow
    <3>1. quota'[l] = quota[l] /\ let'[l] = let[l] /\ now' = now
      BY <1>1, <1>6, <2>3
    <3>2. IQ!Tokens(l) = IQ!Min({BudgetCapacity * Window, quota[l].tokens + BudgetCapacity * (now - quota[l].updatedAt)})
      BY DEF IQ!Tokens, IQ!Elapsed
    <3>3. IQ!Tokens(l)' = IQ!Tokens(l)
      BY <2>2, <3>1, <3>2
    <3> QED BY <2>1, <3>1, <3>3
  <2>4. CASE l = k /\ inWindow
    <3>1. quota'[k] = [tokens |-> tokens, updatedAt |-> now] /\ now' = now /\ tokens \in Nat
          /\ tokens <= BudgetCapacity * Window
      BY <1>1, <1>3, <1>8, <1>9, <1>18, <2>4
    <3>2. quota'[k].tokens + BudgetCapacity * (now' - quota'[k].updatedAt) = tokens
      <4>1. now' - quota'[k].updatedAt = 0 /\ quota'[k].tokens = tokens
        BY <1>0, <3>1
      <4>2. BudgetCapacity * 0 = 0
        BY <1>0
      <4> QED BY <3>1, <4>1, <4>2
    <3>3. IQ!Tokens(k)' = IF BudgetCapacity * Window <= tokens THEN BudgetCapacity * Window ELSE tokens
      <4>1. PICK full \in Nat : full = BudgetCapacity * Window
        BY <1>0
      <4>2. IQ!Tokens(k)' = IQ!Min({full, tokens})
        BY <2>2, <2>4, <3>2, <4>1
      <4> QED BY <3>1, <4>1, <4>2, LesserOfTwo
    <3>4. IQ!Tokens(k)' = tokens
      BY <1>0, <3>1, <3>3
    <3>5. PICK f, g, t : f = let[k] /\ g = let'[k] /\ t = IQ!Tokens(k)
      OBVIOUS
    <3>6. IsAccount(f) /\ Paid(f) /\ Funded(f, t) /\ t \in Nat
      BY <2>1, <2>4, <3>5
    <3>7. (g = f /\ tokens = t) \/ (g = IQ!More(f) /\ t = tokens + Cost * Window)
      <4>1. CASE pays
        <5>1. g = IQ!More(f)
          BY <1>1, <1>3, <2>4, <3>5, <4>1
        <5>2. PICK cw \in Nat : cw = Cost * Window
          BY <1>0
        <5>3. tokens = t - cw
          BY <1>8, <3>5, <4>1, <5>2
        <5> QED BY <3>1, <3>5, <3>6, <5>1, <5>2, <5>3
      <4>2. CASE ~ pays
        <5>1. g = f
          BY <1>1, <3>5, <4>2
        <5>2. tokens = t
          BY <1>8, <3>5, <3>6, <4>2
        <5> QED BY <5>1, <5>2
      <4> QED BY <4>1, <4>2
    <3>8. Paid(g) /\ Funded(g, tokens)
      BY <3>6, <1>0, <3>1, <3>5, <3>6, <3>7, PaidStays
    <3> QED BY <2>4, <3>1, <3>4, <3>5, <3>8
  <2> QED BY <2>3, <2>4
<1>19. ASSUME NEW l \in Keys PROVE Promised(l)'
  <2>1. Promised(l) /\ rate[l] \in Bucket /\ rate[l].resetAt \in Nat /\ told[l].at \in Nat
    BY <1>3 DEF IngressInv, Bucket
  <2>2. CASE l # k
    <3>1. told'[l] = told[l] /\ quota'[l] = quota[l] /\ enabled' = enabled
      BY <1>1, <1>6, <2>2
    <3>2. rate'[l].resetAt = rate[l].resetAt \/ rate'[l].resetAt = 0
      BY <1>2, <1>6, <2>2, PrunedAre
    <3>3. told[l].by = "rate" => rate'[l].resetAt <= told[l].at
      BY <2>1, <3>2 DEF Promised
    <3> QED BY <2>1, <3>1, <3>3 DEF Promised
  <2>3. CASE l = k /\ ~ inWindow
    <3>1. say.by = "rate" /\ say.at = IQ!Counted(k).resetAt /\ "rate" \in enabled
      BY <1>1, <1>12, <2>3
    <3>2. told'[k] = say /\ rate'[k] = IQ!Counted(k) /\ enabled' = enabled
      BY <1>1, <1>3, <1>5, <1>13, <3>1
    <3>3. IQ!Counted(k).resetAt \in Nat
      BY <1>5 DEF Bucket
    <3> QED BY <2>3, <3>1, <3>2, <3>3 DEF Promised
  <2>4. CASE l = k /\ inWindow /\ ~ pays
    <3>1. say.by = "budget" /\ say.at = now + IQ!Wait(k) /\ "budget" \in enabled
      BY <1>1, <1>12, <2>4
    <3>2. told'[k] = say /\ enabled' = enabled /\ quota'[k] = [tokens |-> tokens, updatedAt |-> now]
      BY <1>1, <1>3, <1>8, <1>13, <2>4, <3>1
    <3>3. tokens = IQ!Tokens(k)
      BY <1>4, <1>8, <2>4
    <3>4. IQ!Wait(k) \in Nat /\ IQ!Tokens(k) + BudgetCapacity * IQ!Wait(k) >= Cost * Window
      BY <1>1, <1>2, <2>4, WaitIsEnough
    <3>5. PICK wait \in Nat : wait = IQ!Wait(k)
      BY <3>4
    <3>6. say.at = now + wait /\ say.at - now = wait /\ say.at >= now
      BY <1>0, <3>1, <3>5
    <3>7. quota'[k].tokens + BudgetCapacity * (told'[k].at - quota'[k].updatedAt) >= Cost * Window
      <4>1. quota'[k].tokens = tokens /\ quota'[k].updatedAt = now /\ told'[k].at = say.at
        BY <3>2
      <4>2. told'[k].at - quota'[k].updatedAt = wait
        BY <3>6, <4>1
      <4> QED BY <3>3, <3>4, <3>5, <4>1, <4>2
    <3>8. told'[k].at >= quota'[k].updatedAt /\ told'[k].by = "budget" /\ "budget" \in enabled'
      BY <3>1, <3>2, <3>6
    <3> QED BY <2>4, <3>7, <3>8 DEF Promised
  <2>5. CASE l = k /\ inWindow /\ pays
    <3>1. told'[k] = say /\ say.by = "none"
      BY <1>3, <1>12, <1>13, <2>5
    <3> QED BY <2>5, <3>1 DEF Promised
  <2> QED BY <2>2, <2>3, <2>4, <2>5
<1>20. "rate" \in enabled' =>
          \A l \in Keys : Rated(let[l])' /\ \E s \in Int : Latest(let[l], rate[l], s)'
  <2>1. SUFFICES ASSUME "rate" \in enabled, NEW l \in Keys
                 PROVE  Rated(let[l])' /\ \E s \in Int : Latest(let[l], rate[l], s)'
    BY <1>1
  <2>2. Rated(let'[l]) /\ \E s \in Int : Latest(let'[l], rate'[l], s)
    BY <1>17, <2>1
  <2>3. PICK s \in Int : Latest(let'[l], rate'[l], s)
    BY <2>2
  <2>4. now' = now
    BY <1>1
  <2>5. Latest(let[l], rate[l], s)'
    BY <2>3, <2>4 DEF Latest, By, Windows
  <2>6. Rated(let[l])'
    BY <2>2 DEF Rated, Windows
  <2> QED BY <2>5, <2>6
<1>21. "budget" \in enabled' => \A l \in Keys : Paid(let[l])' /\ Funded(let[l], IQ!Tokens(l))'
  <2>1. SUFFICES ASSUME "budget" \in enabled, NEW l \in Keys
                 PROVE  Paid(let[l])' /\ Funded(let[l], IQ!Tokens(l))'
    BY <1>1
  <2>2. PICK rest \in Nat : /\ Paid(let'[l]) /\ Funded(let'[l], rest) /\ IQ!Tokens(l)' = rest
    BY <1>18, <2>1
  <2>3. now' = now
    BY <1>1
  <2>4. Paid(let[l])'
    BY <2>2 DEF Paid
  <2>5. Funded(let[l], IQ!Tokens(l))'
    BY <2>2, <2>3 DEF Funded
  <2> QED BY <2>4, <2>5
<1> QED BY <1>16, <1>19, <1>20, <1>21 DEF IngressInv

LEMMA IngressStep ==
    ASSUME IQ!QuotaAssumption, IngressInv, [IQ!Next]_(IQ!vars) PROVE IngressInv'
<1>1. CASE IQ!Tick
  BY <1>1, QuotaTicks
<1>2. ASSUME NEW k \in Keys, IQ!Request(k) PROVE IngressInv'
  BY <1>2, QuotaRequests
<1>3. CASE UNCHANGED IQ!vars
  <2>1. /\ now' = now /\ prune' = prune /\ enabled' = enabled /\ asked' = asked /\ rate' = rate
        /\ quota' = quota /\ told' = told /\ let' = let
    BY <1>3 DEF IQ!vars
  <2>2. QuotaTyped'
    BY <2>1 DEF IngressInv, QuotaTyped, IsAccount
  <2>3. \A k \in Keys, s \in Int : Latest(let[k], rate[k], s)' <=> Latest(let[k], rate[k], s)
    BY <2>1 DEF Latest, By, Windows
  <2>4. \A k \in Keys : Rated(let[k])' = Rated(let[k]) /\ Paid(let[k])' = Paid(let[k]) /\ Promised(k)' = Promised(k)
    BY <2>1 DEF Rated, Windows, Paid, Promised
  <2>5. \A k \in Keys : Funded(let[k], IQ!Tokens(k))' <=> Funded(let[k], IQ!Tokens(k))
    BY <2>1 DEF Funded, IQ!Tokens, IQ!Elapsed, IQ!Min
  <2> QED BY <2>1, <2>2, <2>3, <2>4, <2>5 DEF IngressInv
<1> QED BY <1>1, <1>2, <1>3 DEF IQ!Next

LEMMA IngressMeans ==
    ASSUME IQ!QuotaAssumption, IngressInv PROVE IQ!TypeOK /\ IQ!WindowBound /\ IQ!BudgetBound
<1>0. /\ Window \in Nat \ {0} /\ QuotaHorizon \in Nat /\ RateLimit \in Nat
  BY DEF IQ!QuotaAssumption
<1>1. IQ!TypeOK
  <2>1. \A k \in Keys : /\ rate[k].count \in Nat /\ rate[k].resetAt \in Nat
                        /\ quota[k].tokens \in Nat /\ told[k].at \in Nat
    BY DEF IngressInv, QuotaTyped, Bucket, Purse
  <2>2. \A k \in Keys : quota[k].tokens <= BudgetCapacity * Window /\ quota[k].updatedAt <= now
    BY DEF IngressInv, QuotaTyped
  <2>3. BudgetCapacity * Window \in Nat
    BY DEF IQ!QuotaAssumption
  <2>4. \A k \in Keys : quota[k].tokens \in 0 .. BudgetCapacity * Window
    BY <2>1, <2>2, <2>3
  <2>5. now \in 1 .. QuotaHorizon /\ prune \in Nat /\ asked \in [Keys -> 0 .. MaxAsked]
    BY DEF IngressInv, QuotaTyped
  <2> QED BY <2>1, <2>2, <2>4, <2>5 DEF IQ!TypeOK
<1>2. IQ!WindowBound
  <2> SUFFICES ASSUME "rate" \in enabled, NEW k \in Keys, NEW i \in 1 .. QuotaHorizon, NEW j \in 1 .. QuotaHorizon, i <= j
               PROVE  IQ!Passed(k, i, j) <= RateLimit * (1 + (j - i + Window - 1) \div Window)
    BY DEF IQ!WindowBound
  <2>1. Rated(let[k])
    BY DEF IngressInv
  <2> QED BY <2>1 DEF Rated, Windows, IQ!Passed
<1>3. IQ!BudgetBound
  <2> SUFFICES ASSUME "budget" \in enabled, NEW k \in Keys, NEW i \in 1 .. QuotaHorizon, NEW j \in 1 .. QuotaHorizon, i <= j
               PROVE  Cost * Window * IQ!Passed(k, i, j) <= BudgetCapacity * (Window + j - i)
    BY DEF IQ!BudgetBound
  <2>1. Paid(let[k])
    BY DEF IngressInv
  <2> QED BY <2>1 DEF Paid, IQ!Passed
<1> QED BY <1>1, <1>2, <1>3

(* Who comes back when it was told to finds its window over, or its tokens *)
(* enough.                                                                 *)
LEMMA RequestKeepsPromise ==
    ASSUME IQ!QuotaAssumption, IngressInv, NEW k \in Keys, IQ!Request(k), told[k].by # "none", now >= told[k].at
    PROVE  told'[k].by # told[k].by
<1>0. /\ QuotaTyped /\ Promised(k) /\ now \in Nat /\ rate[k].resetAt \in Nat /\ told[k].at \in Nat
      /\ told \in [Keys -> [by : {"none", "rate", "budget"}, at : Nat]]
      /\ RateLimit \in Nat \ {0} /\ BudgetCapacity \in Nat /\ Cost \in Nat /\ Window \in Nat /\ Cost <= BudgetCapacity
      /\ QuotaHorizon \in Nat
  <2>1. /\ RateLimit \in Nat \ {0} /\ BudgetCapacity \in Nat /\ Cost \in Nat /\ Window \in Nat /\ Cost <= BudgetCapacity
        /\ QuotaHorizon \in Nat
    BY DEF IQ!QuotaAssumption
  <2>2. QuotaTyped /\ Promised(k)
    BY DEF IngressInv
  <2>3. rate[k] \in Bucket /\ now \in 1 .. QuotaHorizon
    BY <2>2 DEF QuotaTyped
  <2>4. told \in [Keys -> [by : {"none", "rate", "budget"}, at : Nat]]
    BY <2>2 DEF QuotaTyped
  <2>5. rate[k].resetAt \in Nat /\ told[k].at \in Nat /\ now \in Nat
    BY <2>1, <2>3, <2>4 DEF Bucket
  <2> QED BY <2>1, <2>2, <2>4, <2>5
<1>1. PICK inWindow \in BOOLEAN, pays \in BOOLEAN :
              /\ inWindow = ("rate" \in enabled => IQ!Counted(k).count <= RateLimit)
              /\ pays = ("budget" \in enabled => IQ!Tokens(k) >= Cost * Window)
              /\ told' = [told EXCEPT ![k] =
                           IF ~ inWindow THEN [by |-> "rate", at |-> IQ!Counted(k).resetAt]
                           ELSE IF ~ pays THEN [by |-> "budget", at |-> now + IQ!Wait(k)]
                           ELSE [by |-> "none", at |-> 0]]
  BY RequestIs
<1>2. CASE told[k].by = "rate"
  <2>1. rate[k].resetAt <= now
    BY <1>0, <1>2 DEF Promised
  <2>2. ~ IQ!Pruned[k].resetAt > now
    BY <1>0, <2>1, CountedAre, PrunedAre
  <2>3. IQ!Counted(k).count = 1
    BY <1>0, <2>2, CountedAre
  <2>4. inWindow
    <3>1. 1 <= RateLimit
      BY <1>0
    <3> QED BY <1>1, <2>3, <3>1
  <2> QED BY <1>0, <1>1, <1>2, <2>4
<1>3. CASE told[k].by = "budget"
  <2>1. PICK tok, up, due : tok = quota[k].tokens /\ up = quota[k].updatedAt /\ due = told[k].at
    OBVIOUS
  <2>2. tok \in Nat /\ up \in Nat /\ due \in Nat /\ up <= due /\ due <= now /\ tok + BudgetCapacity * (due - up) >= Cost * Window
    BY <1>0, <1>3, <2>1 DEF Promised, QuotaTyped, Purse
  <2>3. PICK n, m, w, full : /\ n = tok + BudgetCapacity * (now - up) /\ m = BudgetCapacity * (due - up)
                             /\ w = Cost * Window /\ full = BudgetCapacity * Window
    OBVIOUS
  <2>4. n \in Int /\ m \in Int /\ w \in Int /\ full \in Int /\ w <= full
    <3>1. Cost * Window <= BudgetCapacity * Window
      BY <1>0
    <3> QED BY <1>0, <2>2, <2>3, <3>1
  <2>5. n >= tok + m
    <3>1. now - up = (due - up) + (now - due) /\ due - up \in Nat /\ now - due \in Nat
      BY <1>0, <2>2
    <3>2. BudgetCapacity * (now - up) = m + BudgetCapacity * (now - due) /\ BudgetCapacity * (now - due) \in Nat
      BY <1>0, <2>3, <3>1
    <3> QED BY <1>0, <2>2, <2>3, <2>4, <3>2
  <2>6. IQ!Tokens(k) = IF full <= n THEN full ELSE n
    BY <1>0, <2>1, <2>3, TokensAre
  <2>7. IQ!Tokens(k) >= w
    BY <2>2, <2>3, <2>4, <2>5, <2>6
  <2>8. pays
    BY <1>1, <2>3, <2>7
  <2> QED BY <1>0, <1>1, <1>3, <2>8
<1> QED BY <1>0, <1>2, <1>3

(* A gateway lets no more of a client's requests through, in any interval, *)
(* than its windows or its tokens allow, and keeps what it tells a client  *)
(* it refuses: whoever waits for the whole Retry-After is not refused      *)
(* again on the same account.                                              *)
THEOREM QuotasHold ==
    ASSUME IQ!QuotaAssumption
    PROVE  IQ!Spec => [](IQ!TypeOK /\ IQ!WindowBound /\ IQ!BudgetBound) /\ IQ!RetryAfterIsKept
<1>1. IQ!Init => IngressInv
  BY QuotaStart
<1>2. IngressInv /\ [IQ!Next]_(IQ!vars) => IngressInv'
  BY IngressStep
<1>3. IngressInv => IQ!TypeOK /\ IQ!WindowBound /\ IQ!BudgetBound
  BY IngressMeans
<1>4. IngressInv /\ [IQ!Next]_(IQ!vars) =>
         [\A k \in Keys : (/\ asked'[k] # asked[k]
                           /\ told[k].by # "none" /\ now >= told[k].at)
                             => told'[k].by # told[k].by]_(IQ!vars)
  <2> SUFFICES ASSUME IngressInv, IQ!Next, NEW k \in Keys, asked'[k] # asked[k],
                      told[k].by # "none", now >= told[k].at
               PROVE  told'[k].by # told[k].by
    OBVIOUS
  <2>1. CASE IQ!Tick
    BY <2>1 DEF IQ!Tick
  <2>2. ASSUME NEW l \in Keys, IQ!Request(l) PROVE told'[k].by # told[k].by
    <3>1. asked' = [asked EXCEPT ![l] = asked[l] + 1] /\ asked \in [Keys -> 0 .. MaxAsked]
      BY <2>2 DEF IQ!Request, IngressInv, QuotaTyped
    <3>2. l = k
      BY <3>1
    <3> QED BY <2>2, <3>2, RequestKeepsPromise
  <2> QED BY <2>1, <2>2 DEF IQ!Next
<1> QED BY <1>1, <1>2, <1>3, <1>4, PTL DEF IQ!Spec, IQ!RetryAfterIsKept

-----------------------------------------------------------------------------
(* The guards side by side, as MCGuards has them: the run of the part that *)
(* the first state picks is a run of that guard, and the others rest.      *)

LEMMA PartRuns ==
    ASSUME [GuardsNext]_guards
    PROVE  /\ part' = part /\ [Next]_vars
           /\ part = "boundary" => [B!Next]_(B!vars)
           /\ part = "ingress" => [IQ!Next]_(IQ!vars)
           /\ part = "costs" => [C!Next]_(C!vars)
           /\ part = "route" => [R!Next]_(R!vars)
           /\ part = "provider" => [P!Next]_(P!vars)
           /\ part = "watchdog" => [W!Next]_(W!vars)
           /\ part = "routing" => [RP!Next]_(RP!vars)
           /\ part = "dispatch" => [D!Next]_(D!vars)
           /\ part = "contract" => [K!Next]_(K!contracts)
<1>1. part' = part
  BY DEF GuardsNext, guards
<1>2. [Next]_vars
  BY DEF GuardsNext, guards
<1>3. UNCHANGED guards =>
         /\ UNCHANGED B!vars
         /\ UNCHANGED IQ!vars
         /\ UNCHANGED C!vars
         /\ UNCHANGED R!vars
         /\ UNCHANGED P!vars
         /\ UNCHANGED W!vars
         /\ UNCHANGED RP!vars
         /\ UNCHANGED D!vars
         /\ UNCHANGED K!contracts
  BY DEF guards, clock, boundary, ingress, costs, routes, provider, watched, planned, served, contracts,
         B!vars, IQ!vars, C!vars, R!vars, P!vars, W!vars, RP!vars, D!vars, K!contracts
<1>4. part = "boundary" => [B!Next]_(B!vars)
  BY <1>3 DEF GuardsNext
<1>5. part = "ingress" => [IQ!Next]_(IQ!vars)
  BY <1>3 DEF GuardsNext
<1>6. part = "costs" => [C!Next]_(C!vars)
  BY <1>3 DEF GuardsNext
<1>7. part = "route" => [R!Next]_(R!vars)
  BY <1>3 DEF GuardsNext
<1>8. part = "provider" => [P!Next]_(P!vars)
  BY <1>3 DEF GuardsNext
<1>9. part = "watchdog" => [W!Next]_(W!vars)
  BY <1>3 DEF GuardsNext
<1>10. part = "routing" => [RP!Next]_(RP!vars)
  BY <1>3 DEF GuardsNext
<1>11. part = "dispatch" => [D!Next]_(D!vars)
  BY <1>3 DEF GuardsNext
<1>12. part = "contract" => [K!Next]_(K!contracts)
  BY <1>3 DEF GuardsNext
<1> QED BY <1>1, <1>2, <1>4, <1>5, <1>6, <1>7, <1>8, <1>9, <1>10, <1>11, <1>12

LEMMA PartAlways ==
    GuardsSpec => /\ Spec
                  /\ (part = "boundary" /\ B!Spec) \/ []~(part = "boundary")
                  /\ (part = "ingress" /\ IQ!Spec) \/ []~(part = "ingress")
                  /\ (part = "costs" /\ C!Spec) \/ []~(part = "costs")
                  /\ (part = "route" /\ R!Spec) \/ []~(part = "route")
                  /\ (part = "provider" /\ P!Spec) \/ []~(part = "provider")
                  /\ (part = "watchdog" /\ W!Spec) \/ []~(part = "watchdog")
                  /\ (part = "routing" /\ RP!Spec) \/ []~(part = "routing")
                  /\ (part = "dispatch" /\ D!Spec) \/ []~(part = "dispatch")
                  /\ (part = "contract" /\ K!Spec) \/ []~(part = "contract")
<1>1. GuardsInit => Init /\ B!Init /\ IQ!Init /\ C!Init /\ R!Init /\ P!Init /\ W!Init /\ RP!Init /\ D!Init /\ K!Init
  BY DEF GuardsInit
<1>2. part = "boundary" /\ [GuardsNext]_guards => (part = "boundary")' /\ [B!Next]_(B!vars)
  BY PartRuns
<1>3. ~(part = "boundary") /\ [GuardsNext]_guards => ~(part = "boundary")'
  BY PartRuns
<1>4. GuardsSpec => (part = "boundary" /\ B!Spec) \/ []~(part = "boundary")
  BY <1>1, <1>2, <1>3, PTL DEF GuardsSpec, B!Spec
<1>5. part = "ingress" /\ [GuardsNext]_guards => (part = "ingress")' /\ [IQ!Next]_(IQ!vars)
  BY PartRuns
<1>6. ~(part = "ingress") /\ [GuardsNext]_guards => ~(part = "ingress")'
  BY PartRuns
<1>7. GuardsSpec => (part = "ingress" /\ IQ!Spec) \/ []~(part = "ingress")
  BY <1>1, <1>5, <1>6, PTL DEF GuardsSpec, IQ!Spec
<1>8. part = "costs" /\ [GuardsNext]_guards => (part = "costs")' /\ [C!Next]_(C!vars)
  BY PartRuns
<1>9. ~(part = "costs") /\ [GuardsNext]_guards => ~(part = "costs")'
  BY PartRuns
<1>10. GuardsSpec => (part = "costs" /\ C!Spec) \/ []~(part = "costs")
  BY <1>1, <1>8, <1>9, PTL DEF GuardsSpec, C!Spec
<1>11. part = "route" /\ [GuardsNext]_guards => (part = "route")' /\ [R!Next]_(R!vars)
  BY PartRuns
<1>12. ~(part = "route") /\ [GuardsNext]_guards => ~(part = "route")'
  BY PartRuns
<1>13. GuardsSpec => (part = "route" /\ R!Spec) \/ []~(part = "route")
  BY <1>1, <1>11, <1>12, PTL DEF GuardsSpec, R!Spec
<1>14. part = "provider" /\ [GuardsNext]_guards => (part = "provider")' /\ [P!Next]_(P!vars)
  BY PartRuns
<1>15. ~(part = "provider") /\ [GuardsNext]_guards => ~(part = "provider")'
  BY PartRuns
<1>16. GuardsSpec => (part = "provider" /\ P!Spec) \/ []~(part = "provider")
  BY <1>1, <1>14, <1>15, PTL DEF GuardsSpec, P!Spec
<1>17. part = "watchdog" /\ [GuardsNext]_guards => (part = "watchdog")' /\ [W!Next]_(W!vars)
  BY PartRuns
<1>18. ~(part = "watchdog") /\ [GuardsNext]_guards => ~(part = "watchdog")'
  BY PartRuns
<1>19. GuardsSpec => (part = "watchdog" /\ W!Spec) \/ []~(part = "watchdog")
  BY <1>1, <1>17, <1>18, PTL DEF GuardsSpec, W!Spec
<1>20. part = "routing" /\ [GuardsNext]_guards => (part = "routing")' /\ [RP!Next]_(RP!vars)
  BY PartRuns
<1>21. ~(part = "routing") /\ [GuardsNext]_guards => ~(part = "routing")'
  BY PartRuns
<1>22. GuardsSpec => (part = "routing" /\ RP!Spec) \/ []~(part = "routing")
  BY <1>1, <1>20, <1>21, PTL DEF GuardsSpec, RP!Spec
<1>23. part = "dispatch" /\ [GuardsNext]_guards => (part = "dispatch")' /\ [D!Next]_(D!vars)
  BY PartRuns
<1>24. ~(part = "dispatch") /\ [GuardsNext]_guards => ~(part = "dispatch")'
  BY PartRuns
<1>25. GuardsSpec => (part = "dispatch" /\ D!Spec) \/ []~(part = "dispatch")
  BY <1>1, <1>23, <1>24, PTL DEF GuardsSpec, D!Spec
<1>26. part = "contract" /\ [GuardsNext]_guards => (part = "contract")' /\ [K!Next]_(K!contracts)
  BY PartRuns
<1>27. ~(part = "contract") /\ [GuardsNext]_guards => ~(part = "contract")'
  BY PartRuns
<1>28. GuardsSpec => (part = "contract" /\ K!Spec) \/ []~(part = "contract")
  BY <1>1, <1>26, <1>27, PTL DEF GuardsSpec, K!Spec
<1>29. GuardsSpec => Spec
  <2>1. [GuardsNext]_guards => [Next]_vars
    BY PartRuns
  <2> QED BY <1>1, <2>1, PTL DEF GuardsSpec, Spec
<1> QED BY <1>4, <1>7, <1>10, <1>13, <1>16, <1>19, <1>22, <1>25, <1>28, <1>29

(* Types of the breakers and of the watchdog, from their own invariants.   *)
LEMMA BreakersTyped ==
    /\ R!RouteAssumption => (R!Spec => []R!TypeOK)
    /\ P!ProviderAssumption => (P!Spec => []P!TypeOK)
<1>1. ASSUME R!RouteAssumption PROVE R!Spec => []R!TypeOK
  <2>1. R!Init => RouteInv
    BY <1>1, RouteBegins
  <2>2. RouteInv /\ [R!Next]_(R!vars) => RouteInv'
    BY <1>1, RouteStep
  <2>3. RouteInv => R!TypeOK
    BY DEF RouteInv
  <2> QED BY <2>1, <2>2, <2>3, PTL DEF R!Spec
<1>2. ASSUME P!ProviderAssumption PROVE P!Spec => []P!TypeOK
  <2>1. P!Init => CircuitInv
    BY <1>2, CircuitBegins
  <2>2. CircuitInv /\ [P!Next]_(P!vars) => CircuitInv'
    BY <1>2, CircuitStep
  <2>3. CircuitInv => P!TypeOK
    BY DEF CircuitInv
  <2> QED BY <2>1, <2>2, <2>3, PTL DEF P!Spec
<1> QED BY <1>1, <1>2

LEMMA WatchTyped ==
    ASSUME W!WatchdogAssumption
    PROVE  W!Spec => []W!TypeOK
<1>0. Limits
  BY DEF Limits, W!WatchdogAssumption
<1>1. W!Init => WatchInv
  <2> SUFFICES ASSUME W!Init PROVE WatchInv
    OBVIOUS
  <2>1. steps = <<>> /\ status = "ACTIVE" /\ WatchHorizon \in Nat
    BY <1>0 DEF W!Init, Limits
  <2> QED BY <2>1 DEF WatchInv, W!TypeOK
<1>2. WatchInv /\ [W!Next]_(W!vars) => WatchInv'
  BY <1>0, WatchStep
<1>3. WatchInv => W!TypeOK
  BY DEF WatchInv
<1> QED BY <1>1, <1>2, <1>3, PTL DEF W!Spec

(* Whatever the approvals, requests, messages and steps: the audit log     *)
(* breaks its chain or misses a decision only after a fault, a signed      *)
(* request passes the boundary once, no call made for a private message    *)
(* leaves the machine and its LAN, a reply describes the call its text is  *)
(* from or none, and receipts and claims say no more than the steps showed.*)
THEOREM BoundaryHoldsAlways ==
    ASSUME Messages # {}
    PROVE  GuardsSpec => []BoundaryHolds
<1>1. Spec => [](TypeOK /\ ChainHolds /\ AuditGapsNeedFaults)
  BY TypeCorrect, ChainHoldsAlways, AuditGapsNeedFaultsAlways, PTL
<1>2. B!Spec => [](B!TypeOK /\ B!PassedOnce /\ B!NoncesWereSigned)
  BY GuardsAssumption, PassedOnceAlways DEF GuardsAssumption
<1>3. D!Spec => [](D!TypeOK /\ D!StaysLocal /\ D!ReplyDescribesItsCall)
  <2>1. D!Spec => []D!TypeOK
    BY GuardsAssumption, DispatchTyped DEF GuardsAssumption
  <2>2. D!Spec => []D!StaysLocal
    BY GuardsAssumption, StaysLocalAlways DEF GuardsAssumption
  <2>3. D!Spec => []D!ReplyDescribesItsCall
    BY GuardsAssumption, RepliesDescribeTheirCalls DEF GuardsAssumption
  <2> QED BY <2>1, <2>2, <2>3, PTL
<1>4. K!Spec => [](K!PassIsComplete /\ K!FailuresAreClassed /\ K!ClaimsAreEarned)
  <2>1. K!Spec => [](K!PassIsComplete /\ K!FailuresAreClassed)
    BY GuardsAssumption, ReceiptsAreComplete DEF GuardsAssumption
  <2> QED BY <2>1, ClaimsAreEarnedAlways, PTL
<1>5. /\ TypeOK /\ ChainHolds /\ AuditGapsNeedFaults
      /\ ~(part = "boundary") \/ (B!TypeOK /\ B!PassedOnce /\ B!NoncesWereSigned)
      /\ ~(part = "dispatch") \/ (D!TypeOK /\ D!StaysLocal /\ D!ReplyDescribesItsCall)
      /\ ~(part = "contract") \/ (K!PassIsComplete /\ K!FailuresAreClassed /\ K!ClaimsAreEarned)
      => BoundaryHolds
  BY DEF BoundaryHolds, On
<1> QED BY <1>1, <1>2, <1>3, <1>4, <1>5, PartAlways, PTL

(* Whatever the limits, and whoever calls at once: what passes the ingress *)
(* stays within its windows and budgets, what is spent within the limits   *)
(* of a session and of an hour but for the calls in flight, what runs away *)
(* is stopped in time and only that, no breaker opens without a streak of  *)
(* failures, calls and fallbacks keep to their plan, and steps that move   *)
(* nothing are stopped when they should be.                                *)
THEOREM LimitsHoldAlways ==
    ASSUME IsFiniteSet(Calls), IsFiniteSet(Conversations), Conversations # {}
    PROVE  GuardsSpec => []LimitsHold
<1>1. IQ!Spec => [](IQ!TypeOK /\ IQ!WindowBound /\ IQ!BudgetBound)
  <2>1. IQ!Spec => [](IQ!TypeOK /\ IQ!WindowBound /\ IQ!BudgetBound) /\ IQ!RetryAfterIsKept
    BY GuardsAssumption, QuotasHold DEF GuardsAssumption
  <2> QED BY <2>1, PTL
<1>2. C!Spec => [](C!TypeOK /\ C!SessionWithin /\ C!HourWithin)
  <2>1. C!Spec => []C!TypeOK
    BY GuardsAssumption, SwitchTypesAlways DEF GuardsAssumption
  <2>2. C!Spec => []C!SessionWithin
    BY GuardsAssumption, SessionWithinAlways DEF GuardsAssumption
  <2>3. C!Spec => []C!HourWithin
    BY GuardsAssumption, HourWithinAlways DEF GuardsAssumption
  <2> QED BY <2>1, <2>2, <2>3, PTL
<1>3. W!Spec => [](W!TypeOK /\ W!StoppedInTime /\ W!StopsHaveReasons)
  <2>1. W!Spec => []W!TypeOK
    BY GuardsAssumption, WatchTyped DEF GuardsAssumption
  <2>2. W!Spec => [](W!StoppedInTime /\ W!StopsHaveReasons)
    BY GuardsAssumption, StopsInTimeAlways DEF GuardsAssumption
  <2> QED BY <2>1, <2>2, PTL
<1>4. R!Spec => [](R!TypeOK /\ R!TripsNeedStreak)
  <2>1. R!Spec => []R!TypeOK
    BY GuardsAssumption, BreakersTyped DEF GuardsAssumption
  <2>2. R!Spec => []R!TripsNeedStreak /\ R!CooldownHolds
    BY GuardsAssumption, RouteWaits DEF GuardsAssumption
  <2> QED BY <2>1, <2>2, PTL
<1>5. P!Spec => []P!TypeOK
  BY GuardsAssumption, BreakersTyped DEF GuardsAssumption
<1>6. RP!Spec => [](RP!TypeOK /\ RP!SentWithinBounds /\ RP!FallbackIsBounded)
  BY GuardsAssumption, RoutesStayWithin DEF GuardsAssumption
<1>7. D!Spec => []D!FallbacksWithin
  BY GuardsAssumption, FallbacksWithinAlways DEF GuardsAssumption
<1>8. K!Spec => []K!SentinelIsExact
  BY GuardsAssumption, SentinelIsExactAlways DEF GuardsAssumption
<1>9. /\ ~(part = "ingress")  \/ (IQ!TypeOK /\ IQ!WindowBound /\ IQ!BudgetBound)
      /\ ~(part = "costs")    \/ (C!TypeOK /\ C!SessionWithin /\ C!HourWithin)
      /\ ~(part = "watchdog") \/ (W!TypeOK /\ W!StoppedInTime /\ W!StopsHaveReasons)
      /\ ~(part = "route")    \/ (R!TypeOK /\ R!TripsNeedStreak)
      /\ ~(part = "provider") \/ P!TypeOK
      /\ ~(part = "routing")  \/ (RP!TypeOK /\ RP!SentWithinBounds /\ RP!FallbackIsBounded)
      /\ ~(part = "dispatch") \/ D!FallbacksWithin
      /\ ~(part = "contract") \/ K!SentinelIsExact
      => LimitsHold
  BY DEF LimitsHold, On
<1> QED BY <1>1, <1>2, <1>3, <1>4, <1>5, <1>6, <1>7, <1>8, <1>9, PartAlways, PTL

(* A part that is not the run's waits for nothing and tries nothing.       *)
LEMMA OthersWait ==
    ASSUME [GuardsNext]_guards
    PROVE  /\ ~(part = "ingress") => UNCHANGED <<told, asked>>
           /\ ~(part = "route") => UNCHANGED tripped
           /\ ~(part = "provider") => UNCHANGED <<circuit, opened>>
<1>1. ~(part = "ingress") => UNCHANGED <<told, asked>>
  BY DEF GuardsNext, guards, ingress
<1>2. ~(part = "route") => UNCHANGED tripped
  BY DEF GuardsNext, guards, routes
<1>3. ~(part = "provider") => UNCHANGED <<circuit, opened>>
  BY DEF GuardsNext, guards, provider
<1> QED BY <1>1, <1>2, <1>3

(* Whatever the windows, cooldowns and thresholds, and however many calls  *)
(* answer late: a client that waits as long as Retry-After said is not     *)
(* turned away for that reason again, no call begins during a cooldown,    *)
(* and a circuit closes only on the successes it asks for.                 *)
THEOREM WaitsAreKeptAlways == GuardsSpec => WaitsAreKept
<1>1. GuardsSpec => IQ!RetryAfterIsKept
  <2>1. IQ!Spec => IQ!RetryAfterIsKept
    <3>1. IQ!Spec => [](IQ!TypeOK /\ IQ!WindowBound /\ IQ!BudgetBound) /\ IQ!RetryAfterIsKept
      BY GuardsAssumption, QuotasHold DEF GuardsAssumption
    <3> QED BY <3>1, PTL
  <2>2. ~(part = "ingress") /\ [GuardsNext]_guards =>
          [\A k \in Keys : (/\ asked'[k] # asked[k]
                            /\ told[k].by # "none" /\ now >= told[k].at)
                              => told'[k].by # told[k].by]_(IQ!vars)
    BY OthersWait
  <2>3. []~(part = "ingress") /\ [][GuardsNext]_guards => IQ!RetryAfterIsKept
    BY <2>2, PTL DEF IQ!RetryAfterIsKept
  <2> QED BY <2>1, <2>3, PartAlways, PTL DEF GuardsSpec
<1>2. GuardsSpec => R!CooldownHolds
  <2>1. R!Spec => R!CooldownHolds
    <3>1. R!Spec => []R!TripsNeedStreak /\ R!CooldownHolds
      BY GuardsAssumption, RouteWaits DEF GuardsAssumption
    <3> QED BY <3>1, PTL
  <2>2. GuardsInit => tripped = 0
    BY DEF GuardsInit, R!Init
  <2>3. tripped = 0 /\ ~(part = "route") /\ [GuardsNext]_guards => (tripped = 0)'
    BY OthersWait
  <2>4. tripped = 0 => [\A c \in Calls : c \in flying' \ flying =>
                          tripped = 0 \/ healed \/ now - tripped >= Cooldown]_(R!vars)
    OBVIOUS
  <2>5. GuardsSpec /\ []~(part = "route") => R!CooldownHolds
    BY <2>2, <2>3, <2>4, PTL DEF GuardsSpec, R!CooldownHolds
  <2> QED BY <2>1, <2>5, PartAlways, PTL
<1>3. GuardsSpec => P!CooldownHolds /\ P!ClosesOnProof
  <2>1. P!Spec => P!CooldownHolds /\ P!ClosesOnProof
    BY GuardsAssumption, CircuitWaits DEF GuardsAssumption
  <2>2. GuardsInit => opened = 0
    BY DEF GuardsInit, P!Init
  <2>3. opened = 0 /\ ~(part = "provider") /\ [GuardsNext]_guards => (opened = 0)'
    BY OthersWait
  <2>4. opened = 0 => [\A c \in Calls : c \in flying' \ flying => opened = 0 \/ now - opened >= Cooldown]_(P!vars)
    OBVIOUS
  <2>5. (opened = 0)' => [circuit.state \in {"open", "half_open"} /\ circuit'.state = "closed" /\ opened' # 0
                          => proof' >= Successes]_(P!vars)
    OBVIOUS
  <2>6. GuardsSpec /\ []~(part = "provider") => P!CooldownHolds /\ P!ClosesOnProof
    BY <2>2, <2>3, <2>4, <2>5, PTL DEF GuardsSpec, P!CooldownHolds, P!ClosesOnProof
  <2> QED BY <2>1, <2>6, PartAlways, PTL
<1> QED BY <1>1, <1>2, <1>3, PTL DEF WaitsAreKept
=============================================================================
