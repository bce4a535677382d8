---------------------------- MODULE MessageProofs ----------------------------
(***************************************************************************)
(* Proofs about messages between processes.  The mailbox between agents:   *)
(* for any set of envelopes, of agents and of faults, it loses, doubles    *)
(* and reorders nothing, and a message goes away only for the agent that   *)
(* holds its lease.  The Telegram relays: no update is passed over and     *)
(* none is dispatched again but for a fault.  The streams of an execution: *)
(* what was streamed is on record but for the receipts that were lost.     *)
(*                                                                         *)
(* The heart of the first is what one operation makes of the queue: it     *)
(* puts messages that were dispatched before at its head, adds one that    *)
(* never was at its end, or takes some out and keeps the others in order;  *)
(* of the second, which updates a relay may pass and yet dispatch.         *)
(***************************************************************************)
EXTENDS A2AMailbox, FiniteSetTheorems, TLAPS

-----------------------------------------------------------------------------
(* Positions and sequences                                                 *)

(* The rank of a position among the chosen ones counts them up.            *)
Rank(at, i) == Cardinality(at \cap 1 .. i)

LEMMA RankOrders ==
    ASSUME NEW n \in Nat, NEW at \in SUBSET (1 .. n), NEW i \in at, NEW j \in at, i < j
    PROVE  Rank(at, i) \in Nat /\ Rank(at, j) \in Nat /\ Rank(at, i) < Rank(at, j)
<1>1. i \in Int /\ j \in Int
  OBVIOUS
<1>2. IsFiniteSet(at \cap 1 .. j)
  <2>1. IsFiniteSet(1 .. n)
    BY FS_Interval
  <2> QED BY <2>1, FS_Subset
<1>3. at \cap 1 .. i \in SUBSET (at \cap 1 .. j)
  BY <1>1
<1>4. j \in at \cap 1 .. j /\ j \notin at \cap 1 .. i
  BY <1>1
<1>5. at \cap 1 .. i # at \cap 1 .. j
  BY <1>4
<1>6. IsFiniteSet(at \cap 1 .. i) /\ Cardinality(at \cap 1 .. i) <= Cardinality(at \cap 1 .. j)
      /\ Cardinality(at \cap 1 .. i) # Cardinality(at \cap 1 .. j)
  BY <1>2, <1>3, <1>5, FS_Subset
<1>7. Cardinality(at \cap 1 .. i) \in Nat /\ Cardinality(at \cap 1 .. j) \in Nat
  BY <1>2, <1>6, FS_CardinalityType
<1> QED BY <1>6, <1>7 DEF Rank

(* Where positions stand is what their ranks say.                          *)
LEMMA RankTells ==
    ASSUME NEW n \in Nat, NEW at \in SUBSET (1 .. n)
    PROVE  \A i, j \in at : /\ i \in Nat /\ j \in Nat
                            /\ Rank(at, i) < Rank(at, j) => i < j
                            /\ Rank(at, i) = Rank(at, j) => i = j
<1> SUFFICES ASSUME NEW i \in at, NEW j \in at
             PROVE  /\ i \in Nat /\ j \in Nat
                    /\ Rank(at, i) < Rank(at, j) => i < j
                    /\ Rank(at, i) = Rank(at, j) => i = j
  OBVIOUS
<1>1. i \in Nat /\ j \in Nat
  OBVIOUS
<1>2. CASE i < j
  <2>1. Rank(at, i) \in Nat /\ Rank(at, j) \in Nat /\ Rank(at, i) < Rank(at, j)
    BY <1>2, RankOrders
  <2> QED BY <1>1, <1>2, <2>1
<1>3. CASE j < i
  <2>1. Rank(at, i) \in Nat /\ Rank(at, j) \in Nat /\ Rank(at, j) < Rank(at, i)
    BY <1>3, RankOrders
  <2> QED BY <1>1, <1>3, <2>1
<1>4. CASE i = j
  <2>1. ~ (Rank(at, i) < Rank(at, j))
    <3>1. IsFiniteSet(at \cap 1 .. i)
      <4>1. IsFiniteSet(1 .. n)
        BY FS_Interval
      <4> QED BY <4>1, FS_Subset
    <3>2. Rank(at, i) \in Nat
      BY <3>1, FS_CardinalityType DEF Rank
    <3> QED BY <1>4, <3>2
  <2> QED BY <1>1, <1>4, <2>1
<1> QED BY <1>1, <1>2, <1>3, <1>4

LEMMA RankIsOnto ==
    ASSUME NEW n \in Nat, NEW at \in SUBSET (1 .. n)
    PROVE  /\ Cardinality(at) \in Nat
           /\ \A i \in at : Rank(at, i) \in 1 .. Cardinality(at)
           /\ \A k \in 1 .. Cardinality(at) : \E i \in at : Rank(at, i) = k
<1>1. IsFiniteSet(at)
  <2>1. IsFiniteSet(1 .. n)
    BY FS_Interval
  <2> QED BY <2>1, FS_Subset
<1>2. PICK c \in Nat : c = Cardinality(at)
  BY <1>1, FS_CardinalityType
<1>3. ASSUME NEW i \in at PROVE Rank(at, i) \in 1 .. c
  <2>1. at \cap 1 .. i \in SUBSET at /\ i \in at \cap 1 .. i
    BY n \in Nat
  <2>2. IsFiniteSet(at \cap 1 .. i) /\ Cardinality(at \cap 1 .. i) <= c
    BY <1>1, <1>2, <2>1, FS_Subset
  <2>3. Cardinality(at \cap 1 .. i) \in Nat /\ Cardinality(at \cap 1 .. i) # 0
    BY <2>1, <2>2, FS_CardinalityType, FS_EmptySet
  <2> QED BY <2>2, <2>3 DEF Rank
<1>4. PICK r : r = [i \in at |-> Rank(at, i)]
  OBVIOUS
<1>5. r \in Injection(at, 1 .. c)
  <2>1. r \in [at -> 1 .. c]
    BY <1>3, <1>4
  <2>2. ASSUME NEW i \in at, NEW j \in at, r[i] = r[j] PROVE i = j
    <3>1. Rank(at, i) = Rank(at, j)
      BY <1>4, <2>2
    <3> QED BY <3>1, RankTells
  <2> QED BY <2>1, <2>2 DEF Injection, IsInjective
<1>6. r \in Surjection(at, 1 .. c)
  <2>1. IsFiniteSet(1 .. c) /\ Cardinality(1 .. c) = c
    BY <1>2, FS_Interval
  <2> QED BY <1>2, <1>5, <2>1, FS_Injection
<1>7. \A k \in 1 .. c : \E i \in at : r[i] = k
  BY <1>6 DEF Surjection
<1> QED BY <1>2, <1>3, <1>4, <1>7

(* Two sequences in the same order: s keeps some of q's positions.         *)
Keeps(f, s, q) ==
    /\ f \in [DOMAIN s -> DOMAIN q]
    /\ \A i \in DOMAIN s : s[i] = q[f[i]]
    /\ \A i, j \in DOMAIN s : i < j => f[i] < f[j]

(* What a dequeue leaves: all it did not take, in their order.             *)
LEMMA RemainingInOrder ==
    ASSUME NEW T, NEW q \in Seq(T), NEW batch
    PROVE  /\ Remaining(q, batch) \in Seq(T)
           /\ ToSet(Remaining(q, batch)) = ToSet(q) \ batch
           /\ \E f : Keeps(f, Remaining(q, batch), q)
<1>1. PICK at : at = {i \in DOMAIN q : q[i] \notin batch}
  OBVIOUS
<1>2. PICK s : s = Remaining(q, batch)
  OBVIOUS
<1>3. PICK n \in Nat : n = Len(q) /\ DOMAIN q = 1 .. n
  OBVIOUS
<1>4. at \in SUBSET (1 .. n)
  BY <1>1, <1>3
<1>5. PICK c \in Nat : c = Cardinality(at)
  BY <1>4, RankIsOnto
<1>6. PICK f : f = [k \in 1 .. c |-> CHOOSE i \in at : Rank(at, i) = k]
  OBVIOUS
<1>7. \A k \in 1 .. c : f[k] \in at /\ Rank(at, f[k]) = k
  BY <1>4, <1>5, <1>6, RankIsOnto
<1>8. s = [k \in 1 .. c |-> q[f[k]]]
  BY <1>1, <1>2, <1>5, <1>6 DEF Remaining, Rank
<1>9. DOMAIN s = 1 .. c /\ \A k \in 1 .. c : s[k] = q[f[k]]
  BY <1>8
<1>10. s \in Seq(T)
  <2>1. \A i \in 1 .. n : q[i] \in T
    BY <1>3
  <2>2. s \in [1 .. c -> T]
    BY <1>4, <1>7, <1>8, <2>1
  <2> QED BY <2>2
<1>11. ToSet(s) = ToSet(q) \ batch
  <2>1. ASSUME NEW x \in ToSet(s) PROVE x \in ToSet(q) \ batch
    <3>1. PICK k \in 1 .. c : x = q[f[k]]
      BY <1>9 DEF ToSet
    <3> QED BY <1>1, <1>7, <3>1 DEF ToSet
  <2>2. ASSUME NEW x \in ToSet(q) \ batch PROVE x \in ToSet(s)
    <3>1. PICK i \in at : x = q[i]
      BY <1>1 DEF ToSet
    <3>2. PICK k \in 1 .. c : k = Rank(at, i)
      BY <1>4, <1>5, RankIsOnto
    <3>3. f[k] = i
      <4>1. f[k] \in at /\ Rank(at, f[k]) = Rank(at, i)
        BY <1>7, <3>2
      <4> QED BY <1>4, <4>1, RankTells
    <3> QED BY <1>9, <3>1, <3>3 DEF ToSet
  <2> QED BY <2>1, <2>2
<1>12. Keeps(f, s, q)
  <2>1. f \in [DOMAIN s -> DOMAIN q]
    BY <1>1, <1>6, <1>7, <1>9
  <2>2. ASSUME NEW i \in DOMAIN s, NEW j \in DOMAIN s, i < j PROVE f[i] < f[j]
    <3>1. f[i] \in at /\ f[j] \in at /\ Rank(at, f[i]) = i /\ Rank(at, f[j]) = j
      BY <1>7, <1>9
    <3>2. Rank(at, f[i]) < Rank(at, f[j])
      BY <2>2, <3>1
    <3> QED BY <1>4, <3>1, <3>2, RankTells
  <2> QED BY <1>9, <2>1, <2>2 DEF Keeps
<1> QED BY <1>2, <1>10, <1>11, <1>12

-----------------------------------------------------------------------------
(* The invariant: besides what MailIsKept says, whatever is leased was     *)
(* dispatched, only finitely many are, and an envelope that was accepted   *)
(* has spent its nonce.                                                    *)

(* RecoveredFirst of any queue.                                            *)
Ordered(q, before) ==
    \A i, j \in DOMAIN q : i < j /\ q[j] \in before => q[i] \in before

LeasesWereDispatched == DOMAIN leases \subseteq dispatched
NoncesAreSpent ==
    \A e \in Mail : accepted[e] <= 1 /\ (accepted[e] = 1 => e.nonce \in seenNonces)

MailInv ==
    /\ TypeOK /\ Conserved /\ RecoveredFirst
    /\ LeasesWereDispatched /\ NoncesAreSpent /\ IsFiniteSet(DOMAIN leases)

-----------------------------------------------------------------------------
(* What the operations make of a queue                                     *)

(* Lost messages come back in some order, each of them once.               *)
LEMMA BackInOrder ==
    ASSUME NEW S, IsFiniteSet(S), NEW back \in SetToSeqs(S)
    PROVE  back \in Seq(S) /\ ToSet(back) = S /\ IsInjective(back)
<1>1. PICK k \in Nat : k = Cardinality(S)
  BY FS_CardinalityType
<1>2. back \in [1 .. k -> S] /\ \A i, j \in 1 .. k : i # j => back[i] # back[j]
  BY <1>1 DEF SetToSeqs
<1>3. IsInjective(back)
  BY <1>2 DEF IsInjective
<1>4. back \in Injection(1 .. k, S)
  BY <1>2, <1>3 DEF Injection
<1>5. IsFiniteSet(1 .. k) /\ Cardinality(1 .. k) = k
  BY FS_Interval, <1>1
<1>6. back \in Surjection(1 .. k, S)
  BY <1>1, <1>4, <1>5, FS_Injection
<1>7. back \in Seq(S)
  BY <1>2
<1>8. ToSet(back) = S
  BY <1>2, <1>6 DEF Surjection, ToSet
<1> QED BY <1>3, <1>7, <1>8

LEMMA HeadKeeps ==
    ASSUME NEW T, NEW q \in Seq(T), NEW back \in Seq(T), NEW before,
           IsInjective(q), IsInjective(back), ToSet(q) \cap ToSet(back) = {},
           Ordered(q, before), ToSet(back) \subseteq before
    PROVE  /\ back \o q \in Seq(T)
           /\ ToSet(back \o q) = ToSet(q) \cup ToSet(back)
           /\ IsInjective(back \o q) /\ Ordered(back \o q, before)
<1>1. PICK m \in Nat, n \in Nat : m = Len(back) /\ n = Len(q)
  OBVIOUS
<1>2. DOMAIN back = 1 .. m /\ DOMAIN q = 1 .. n
  BY <1>1
<1>3. PICK r : r = back \o q
  OBVIOUS
<1>4. r \in Seq(T) /\ DOMAIN r = 1 .. (m + n)
      /\ (\A i \in 1 .. m : r[i] = back[i])
      /\ (\A i \in 1 .. n : r[m + i] = q[i])
  BY <1>1, <1>3
<1>5. \A i \in 1 .. (m + n) : \/ i \in 1 .. m /\ r[i] = back[i]
                              \/ i - m \in 1 .. n /\ r[i] = q[i - m] /\ i = m + (i - m)
  BY <1>4
<1>6. ToSet(r) = ToSet(q) \cup ToSet(back)
  <2>1. ASSUME NEW x \in ToSet(r) PROVE x \in ToSet(q) \cup ToSet(back)
    BY <1>2, <1>4, <1>5 DEF ToSet
  <2>2. ASSUME NEW x \in ToSet(q) PROVE x \in ToSet(r)
    <3>1. PICK i \in 1 .. n : x = q[i]
      BY <1>2 DEF ToSet
    <3>2. m + i \in 1 .. (m + n) /\ r[m + i] = x
      BY <1>4, <3>1
    <3> QED BY <1>4, <3>2 DEF ToSet
  <2>3. ASSUME NEW x \in ToSet(back) PROVE x \in ToSet(r)
    <3>1. PICK i \in 1 .. m : x = back[i]
      BY <1>2 DEF ToSet
    <3>2. i \in 1 .. (m + n) /\ r[i] = x
      BY <1>4, <3>1
    <3> QED BY <1>4, <3>2 DEF ToSet
  <2> QED BY <2>1, <2>2, <2>3
<1>7. (\A i \in 1 .. m : back[i] \in ToSet(back)) /\ (\A i \in 1 .. n : q[i] \in ToSet(q))
  BY <1>2 DEF ToSet
<1>8. ASSUME NEW i \in DOMAIN r, NEW j \in DOMAIN r, r[i] = r[j] PROVE i = j
  <2>1. CASE i \in 1 .. m /\ j \in 1 .. m /\ r[i] = back[i] /\ r[j] = back[j]
    BY <1>2, <1>8, <2>1 DEF IsInjective
  <2>2. CASE i - m \in 1 .. n /\ j - m \in 1 .. n /\ r[i] = q[i - m] /\ r[j] = q[j - m]
    <3>1. i - m = j - m
      BY <1>2, <1>8, <2>2 DEF IsInjective
    <3> QED BY <1>4, <3>1
  <2>3. CASE i \in 1 .. m /\ j - m \in 1 .. n /\ r[i] = back[i] /\ r[j] = q[j - m]
    BY <1>7, <1>8, <2>3
  <2>4. CASE i - m \in 1 .. n /\ j \in 1 .. m /\ r[i] = q[i - m] /\ r[j] = back[j]
    BY <1>7, <1>8, <2>4
  <2> QED BY <1>4, <1>5, <2>1, <2>2, <2>3, <2>4
<1>9. ASSUME NEW i \in DOMAIN r, NEW j \in DOMAIN r, i < j, r[j] \in before PROVE r[i] \in before
  <2>1. CASE i \in 1 .. m /\ r[i] = back[i]
    BY <1>7, <2>1
  <2>2. CASE i - m \in 1 .. n /\ r[i] = q[i - m]
    <3>1. j - m \in 1 .. n /\ i - m < j - m
      BY <1>4, <1>9, <2>2
    <3>2. r[j] = q[j - m]
      BY <1>4, <1>5, <3>1
    <3> QED BY <1>2, <1>9, <2>2, <3>1, <3>2 DEF Ordered
  <2> QED BY <1>4, <1>5, <2>1, <2>2
<1> QED BY <1>3, <1>4, <1>6, <1>8, <1>9 DEF IsInjective, Ordered

(* One that was never dispatched comes last.                               *)
LEMMA TailKeeps ==
    ASSUME NEW T, NEW q \in Seq(T), NEW x \in T, NEW before,
           IsInjective(q), x \notin ToSet(q), Ordered(q, before)
    PROVE  /\ Append(q, x) \in Seq(T)
           /\ ToSet(Append(q, x)) = ToSet(q) \cup {x}
           /\ IsInjective(Append(q, x)) /\ Ordered(Append(q, x), before \ {x})
<1>1. PICK n \in Nat : n = Len(q) /\ DOMAIN q = 1 .. n
  OBVIOUS
<1>2. PICK r : r = Append(q, x)
  OBVIOUS
<1>3. r \in Seq(T) /\ DOMAIN r = 1 .. (n + 1) /\ r[n + 1] = x /\ \A i \in 1 .. n : r[i] = q[i]
  BY <1>1, <1>2
<1>4. \A i \in 1 .. n : q[i] \in ToSet(q) /\ q[i] # x
  BY <1>1 DEF ToSet
<1>5. \A i \in 1 .. (n + 1) : i \in 1 .. n \/ i = n + 1
  OBVIOUS
<1>6. ToSet(r) = ToSet(q) \cup {x}
  <2>1. \A y \in ToSet(r) : y \in ToSet(q) \cup {x}
    BY <1>3, <1>4, <1>5 DEF ToSet
  <2>2. ASSUME NEW y \in ToSet(q) PROVE y \in ToSet(r)
    <3>1. PICK i \in 1 .. n : y = q[i]
      BY <1>1 DEF ToSet
    <3>2. i \in 1 .. (n + 1) /\ r[i] = y
      BY <1>3, <3>1
    <3> QED BY <1>3, <3>2 DEF ToSet
  <2>3. x \in ToSet(r)
    BY <1>3 DEF ToSet
  <2> QED BY <2>1, <2>2, <2>3
<1>7. IsInjective(r)
  BY <1>1, <1>3, <1>4, <1>5 DEF IsInjective
<1>8. ASSUME NEW i \in DOMAIN r, NEW j \in DOMAIN r, i < j, r[j] \in before \ {x}
      PROVE  r[i] \in before \ {x}
  <2>1. i \in 1 .. n /\ j \in 1 .. n
    BY <1>3, <1>5, <1>8
  <2>2. r[i] = q[i] /\ r[j] = q[j] /\ q[i] # x
    BY <1>3, <1>4, <2>1
  <2> QED BY <1>1, <1>8, <2>1, <2>2 DEF Ordered
<1> QED BY <1>2, <1>3, <1>6, <1>7, <1>8 DEF Ordered

(* Those that stay, when a batch is taken out.                             *)
LEMMA OthersKeep ==
    ASSUME NEW T, NEW q \in Seq(T), NEW batch, NEW before,
           IsInjective(q), Ordered(q, before)
    PROVE  /\ Remaining(q, batch) \in Seq(T)
           /\ ToSet(Remaining(q, batch)) = ToSet(q) \ batch
           /\ IsInjective(Remaining(q, batch)) /\ Ordered(Remaining(q, batch), before \cup batch)
<1>1. PICK s : s = Remaining(q, batch)
  OBVIOUS
<1>2. PICK f : Keeps(f, s, q)
  BY <1>1, RemainingInOrder
<1>3. s \in Seq(T) /\ ToSet(s) = ToSet(q) \ batch
  BY <1>1, RemainingInOrder
<1>4. \A i, j \in DOMAIN s : /\ f[i] \in DOMAIN q /\ f[j] \in DOMAIN q
                             /\ s[i] = q[f[i]] /\ s[j] = q[f[j]]
                             /\ i < j => f[i] < f[j]
  BY <1>2 DEF Keeps
<1>5. ASSUME NEW i \in DOMAIN s, NEW j \in DOMAIN s, s[i] = s[j] PROVE i = j
  <2>1. f[i] = f[j]
    BY <1>4, <1>5 DEF IsInjective
  <2>2. DOMAIN q = 1 .. Len(q) /\ DOMAIN s = 1 .. Len(s) /\ Len(q) \in Nat /\ Len(s) \in Nat
    BY <1>3
  <2>3. i \in Int /\ j \in Int /\ f[i] \in Int /\ f[j] \in Int
    BY <1>4, <2>2
  <2>4. ~ (f[i] < f[j]) /\ ~ (f[j] < f[i])
    BY <2>1, <2>3
  <2> QED BY <1>4, <2>3, <2>4
<1>6. ASSUME NEW i \in DOMAIN s, NEW j \in DOMAIN s, i < j, s[j] \in before \cup batch
      PROVE  s[i] \in before \cup batch
  <2>1. s[j] \notin batch
    BY <1>3 DEF ToSet
  <2> QED BY <1>4, <1>6, <2>1 DEF Ordered
<1> QED BY <1>1, <1>3, <1>5, <1>6 DEF IsInjective, Ordered

-----------------------------------------------------------------------------
(* What the operations find and make of the state                          *)

LEMMA Found ==
    MailInv => /\ queue \in Seq(MailIds) /\ IsInjective(queue) /\ Ordered(queue, dispatched)
               /\ ToSet(queue) \cup DOMAIN leases = Stored /\ ToSet(queue) \cap DOMAIN leases = {}
               /\ DOMAIN leases \subseteq dispatched /\ DOMAIN leases \subseteq MailIds
               /\ IsFiniteSet(DOMAIN leases)
BY DEF MailInv, TypeOK, Conserved, RecoveredFirst, Ordered, LeasesWereDispatched

(* Leases that ran out return to the head of the queue.                    *)
LEMMA RestoreKeeps ==
    ASSUME MailInv, NEW ids \in SUBSET DOMAIN leases, NEW q \in Restore(ids)
    PROVE  /\ q \in Seq(MailIds) /\ ToSet(q) = ToSet(queue) \cup ids
           /\ IsInjective(q) /\ Ordered(q, dispatched)
<1>1. Lost(ids) = ids
  BY Found DEF Lost
<1>2. PICK back \in SetToSeqs(ids) : q = back \o queue
  BY <1>1 DEF Restore, Restored
<1>3. IsFiniteSet(ids)
  BY Found, FS_Subset
<1>4. back \in Seq(ids) /\ ToSet(back) = ids /\ IsInjective(back)
  BY <1>2, <1>3, BackInOrder
<1>5. back \in Seq(MailIds)
  <2>1. ids \subseteq MailIds
    BY Found
  <2> QED BY <1>4, <2>1
<1>6. queue \in Seq(MailIds) /\ IsInjective(queue) /\ Ordered(queue, dispatched)
      /\ ToSet(queue) \cap ToSet(back) = {} /\ ToSet(back) \subseteq dispatched
  BY <1>4, Found
<1> QED BY <1>2, <1>4, <1>5, <1>6, HeadKeeps

LEMMA BatchIsTaken ==
    ASSUME NEW T, NEW q \in Seq(T), NEW a, NEW limit
    PROVE  Batch(a, limit, q) \subseteq ToSet(q) /\ IsFiniteSet(Batch(a, limit, q))
<1>1. Batch(a, limit, q) \subseteq ToSet(q)
  BY DEF Batch, Wanted, ToSet
<1>2. IsFiniteSet(ToSet(q))
  <2>1. q \in Surjection(DOMAIN q, ToSet(q))
    BY DEF Surjection, ToSet
  <2>2. IsFiniteSet(DOMAIN q)
    <3>1. DOMAIN q = 1 .. Len(q) /\ Len(q) \in Nat
      OBVIOUS
    <3> QED BY <3>1, FS_Interval
  <2> QED BY <2>1, <2>2, FS_Surjection
<1> QED BY <1>1, <1>2, FS_Subset

LEMMA EnqueueKeeps ==
    ASSUME MailInv, NEW e \in Mail, Enqueue(e)
    PROVE  MailInv'
<1> USE Found
<1>0. /\ e.nonce \notin seenNonces /\ seenNonces' = seenNonces \cup {e.nonce}
      /\ UNCHANGED <<leases, held, faults, issued, acked>>
  BY DEF Enqueue, Fresh
<1>1. CASE e.id \in Stored /\ UNCHANGED <<messages, queue, accepted, dispatched>>
  <2>1. TypeOK'
    BY <1>0, <1>1 DEF MailInv, TypeOK
  <2>2. Conserved' /\ RecoveredFirst' /\ LeasesWereDispatched' /\ IsFiniteSet(DOMAIN leases')
    BY <1>0, <1>1 DEF MailInv, Conserved, Stored, RecoveredFirst, LeasesWereDispatched
  <2>3. NoncesAreSpent'
    BY <1>0, <1>1 DEF MailInv, NoncesAreSpent
  <2> QED BY <2>1, <2>2, <2>3 DEF MailInv
<1>2. CASE /\ e.id \notin Stored
           /\ messages' = messages \cup {e} /\ queue' = Append(queue, e.id)
           /\ accepted' = [accepted EXCEPT ![e] = @ + 1] /\ dispatched' = dispatched \ {e.id}
  <2>1. e.id \in MailIds
    BY DEF MailIds
  <2>2. /\ queue' \in Seq(MailIds) /\ ToSet(queue') = ToSet(queue) \cup {e.id}
        /\ IsInjective(queue') /\ Ordered(queue', dispatched')
    <3>1. e.id \notin ToSet(queue)
      BY <1>2
    <3> QED BY <1>2, <2>1, <3>1, TailKeeps
  <2>3. accepted' \in [Mail -> Nat]
    BY <1>2 DEF MailInv, TypeOK
  <2>4. TypeOK'
    BY <1>0, <1>2, <2>2, <2>3 DEF MailInv, TypeOK
  <2>5. Stored' = Stored \cup {e.id}
    BY <1>2 DEF Stored
  <2>6. Conserved' /\ LeasesWereDispatched'
    BY <1>0, <1>2, <2>2, <2>5 DEF Conserved, LeasesWereDispatched
  <2>7. RecoveredFirst'
    BY <2>2 DEF RecoveredFirst, Ordered
  <2>8. NoncesAreSpent'
    <3>1. accepted[e] = 0
      <4>1. accepted[e] <= 1 /\ accepted[e] # 1 /\ accepted[e] \in Nat
        BY <1>0 DEF MailInv, NoncesAreSpent, TypeOK
      <4> QED BY <4>1
    <3>2. \A d \in Mail : d # e => accepted'[d] = accepted[d]
      BY <1>2 DEF MailInv, TypeOK
    <3>3. accepted'[e] = 1
      BY <1>2, <3>1 DEF MailInv, TypeOK
    <3> QED BY <1>0, <3>2, <3>3 DEF MailInv, NoncesAreSpent
  <2>9. IsFiniteSet(DOMAIN leases')
    BY <1>0
  <2> QED BY <2>4, <2>6, <2>7, <2>8, <2>9 DEF MailInv
<1> QED BY <1>1, <1>2 DEF Enqueue

(* The next token of a message is larger than all before.                  *)
LEMMA TokensAreNew ==
    ASSUME MailInv, NEW id \in MailIds
    PROVE  /\ issued[id] \in Nat /\ Token(id) \in Nat /\ Token(id) = issued[id] + 1
           /\ \A a \in Agents : Dispatch(id, Token(id)) \notin held[a]
<1>1. issued[id] \in Nat
  BY DEF MailInv, TypeOK
<1>2. Token(id) \in Nat /\ Token(id) = issued[id] + 1
  BY <1>1 DEF Token
<1>3. ASSUME NEW a \in Agents, Dispatch(id, Token(id)) \in held[a] PROVE FALSE
  <2>1. Dispatch(id, Token(id)).id = id /\ Dispatch(id, Token(id)).token = Token(id)
    BY DEF Dispatch
  <2>2. Token(id) \in 1 .. issued[id]
    BY <1>3, <2>1 DEF MailInv, TypeOK
  <2> QED BY <1>1, <1>2, <2>2
<1> QED BY <1>1, <1>2, <1>3

LEMMA DequeueKeeps ==
    ASSUME MailInv, NEW a \in Agents, NEW limit, Dequeue(a, limit)
    PROVE  MailInv'
<1> USE Found
<1>1. PICK q \in Pruned :
        LET batch == Batch(a, limit, q)
        IN  /\ queue'  = Remaining(q, batch)
            /\ leases' = Lease(batch)
            /\ held'   = [held EXCEPT ![a] = @ \cup {Dispatch(id, Token(id)) : id \in batch}]
            /\ issued' = [id \in MailIds |-> IF id \in batch THEN Token(id) ELSE issued[id]]
            /\ dispatched' = dispatched \cup batch
            /\ UNCHANGED <<messages, seenNonces, faults, accepted, acked>>
  BY DEF Dequeue
<1>2. PICK batch : batch = Batch(a, limit, q)
  OBVIOUS
<1>3. /\ queue'  = Remaining(q, batch)
      /\ leases' = Lease(batch)
      /\ held'   = [held EXCEPT ![a] = @ \cup {Dispatch(id, Token(id)) : id \in batch}]
      /\ issued' = [id \in MailIds |-> IF id \in batch THEN Token(id) ELSE issued[id]]
      /\ dispatched' = dispatched \cup batch
      /\ UNCHANGED <<messages, seenNonces, faults, accepted, acked>>
  BY <1>1, <1>2
<1>4. Expired \in SUBSET DOMAIN leases
  BY DEF Expired
<1>5. /\ q \in Seq(MailIds) /\ ToSet(q) = ToSet(queue) \cup Expired
      /\ IsInjective(q) /\ Ordered(q, dispatched)
  BY <1>1, <1>4, RestoreKeeps DEF Pruned
<1>6. batch \subseteq ToSet(q) /\ IsFiniteSet(batch)
  BY <1>2, <1>5, BatchIsTaken
<1>7. batch \subseteq MailIds
  BY <1>5, <1>6 DEF ToSet
<1>8. /\ queue' \in Seq(MailIds) /\ ToSet(queue') = ToSet(q) \ batch
      /\ IsInjective(queue') /\ Ordered(queue', dispatched')
  BY <1>3, <1>5, OthersKeep
<1>9. DOMAIN leases' = (DOMAIN leases \ Expired) \cup batch
  BY <1>3 DEF Lease
<1>10. \A id \in DOMAIN leases' :
          leases'[id] = IF id \in batch THEN [token |-> Token(id), expired |-> FALSE] ELSE leases[id]
  BY <1>3 DEF Lease
<1>11. \A id \in MailIds : /\ issued'[id] = IF id \in batch THEN Token(id) ELSE issued[id]
                           /\ issued[id] \in Nat /\ issued'[id] \in Nat /\ issued[id] <= issued'[id]
                           /\ id \in batch => issued'[id] = Token(id) /\ Token(id) \in 1 .. issued'[id]
  <2> SUFFICES ASSUME NEW id \in MailIds
               PROVE  /\ issued'[id] = IF id \in batch THEN Token(id) ELSE issued[id]
                      /\ issued[id] \in Nat /\ issued'[id] \in Nat /\ issued[id] <= issued'[id]
                      /\ id \in batch => issued'[id] = Token(id) /\ Token(id) \in 1 .. issued'[id]
    OBVIOUS
  <2>1. issued'[id] = IF id \in batch THEN Token(id) ELSE issued[id]
    BY <1>3
  <2>2. issued[id] \in Nat /\ Token(id) \in Nat /\ Token(id) = issued[id] + 1
    BY TokensAreNew
  <2> QED BY <2>1, <2>2
<1>12. TypeOK'
  <2>1. issued' \in [MailIds -> Nat]
    BY <1>3, <1>11
  <2>2. DOMAIN leases' \subseteq MailIds
    BY <1>7, <1>9
  <2>3. \A id \in DOMAIN leases' : leases'[id] \in [token : 1 .. issued'[id], expired : BOOLEAN]
    <3> SUFFICES ASSUME NEW id \in DOMAIN leases'
                 PROVE  leases'[id] \in [token : 1 .. issued'[id], expired : BOOLEAN]
      OBVIOUS
    <3>1. id \in MailIds
      BY <2>2
    <3>2. CASE id \in batch
      <4>1. leases'[id] = [token |-> Token(id), expired |-> FALSE]
        BY <1>10, <3>2
      <4>2. Token(id) \in 1 .. issued'[id]
        BY <1>11, <3>1, <3>2
      <4> QED BY <4>1, <4>2
    <3>3. CASE id \notin batch
      <4>1. id \in DOMAIN leases /\ leases'[id] = leases[id]
        BY <1>9, <1>10, <3>3
      <4>2. leases[id] \in [token : 1 .. issued[id], expired : BOOLEAN]
        BY <4>1 DEF MailInv, TypeOK
      <4>3. issued'[id] = issued[id]
        BY <1>11, <3>1, <3>3
      <4> QED BY <4>1, <4>2, <4>3
    <3> QED BY <3>2, <3>3
  <2>4. PICK new : new = {Dispatch(id, Token(id)) : id \in batch}
    OBVIOUS
  <2>5. \A h \in new : /\ h \in [id : MailIds, token : Nat] /\ h.token \in 1 .. issued'[h.id]
                       /\ \A b \in Agents : h \notin held[b]
    <3> SUFFICES ASSUME NEW id \in batch, NEW h, h = Dispatch(id, Token(id))
                 PROVE  /\ h \in [id : MailIds, token : Nat] /\ h.token \in 1 .. issued'[h.id]
                        /\ \A b \in Agents : h \notin held[b]
      BY <2>4
    <3>1. id \in MailIds
      BY <1>7
    <3>2. h.id = id /\ h.token = Token(id) /\ (id \in MailIds /\ Token(id) \in Nat => h \in [id : MailIds, token : Nat])
      BY DEF Dispatch
    <3>3. Token(id) \in Nat /\ \A b \in Agents : Dispatch(id, Token(id)) \notin held[b]
      BY <3>1, TokensAreNew
    <3> QED BY <1>11, <3>1, <3>2, <3>3
  <2>6. held \in [Agents -> SUBSET [id : MailIds, token : Nat]]
    BY DEF MailInv, TypeOK
  <2>7. \A b \in Agents : held'[b] = IF b = a THEN held[b] \cup new ELSE held[b]
    BY <1>3, <2>4, <2>6
  <2>8. held' \in [Agents -> SUBSET [id : MailIds, token : Nat]]
    BY <1>3, <2>4, <2>5, <2>6
  <2>9. \A b \in Agents : \A h \in held'[b] : h.token \in 1 .. issued'[h.id]
    <3> SUFFICES ASSUME NEW b \in Agents, NEW h \in held'[b] PROVE h.token \in 1 .. issued'[h.id]
      OBVIOUS
    <3>1. CASE h \in new
      BY <2>5, <3>1
    <3>2. CASE h \in held[b]
      <4>1. h.token \in 1 .. issued[h.id]
        BY <3>2 DEF MailInv, TypeOK
      <4>2. h.id \in MailIds
        BY <2>6, <3>2
      <4>3. issued[h.id] \in Nat /\ issued'[h.id] \in Nat /\ issued[h.id] <= issued'[h.id]
        BY <1>11, <4>2
      <4> QED BY <4>1, <4>3
    <3> QED BY <2>7, <3>1, <3>2
  <2>10. \A b, c \in Agents : b # c => held'[b] \cap held'[c] = {}
    <3>1. \A b, c \in Agents : b # c => held[b] \cap held[c] = {}
      BY DEF MailInv, TypeOK
    <3> QED BY <2>5, <2>7, <3>1
  <2>11. dispatched' \subseteq MailIds
    BY <1>3, <1>7 DEF MailInv, TypeOK
  <2>12. /\ messages' \subseteq Mail /\ seenNonces' \subseteq {e.nonce : e \in Mail}
         /\ accepted' \in [Mail -> Nat] /\ faults' \in 0 .. MaxFaults
    BY <1>3 DEF MailInv, TypeOK
  <2> QED BY <1>8, <2>1, <2>2, <2>3, <2>8, <2>9, <2>10, <2>11, <2>12 DEF TypeOK
<1>13. Stored' = Stored
  BY <1>3 DEF Stored
<1>14. Conserved'
  BY <1>4, <1>5, <1>6, <1>8, <1>9, <1>13 DEF Conserved
<1>15. RecoveredFirst'
  BY <1>8 DEF RecoveredFirst, Ordered
<1>16. LeasesWereDispatched'
  BY <1>3, <1>9 DEF LeasesWereDispatched
<1>17. NoncesAreSpent'
  BY <1>3 DEF MailInv, NoncesAreSpent
<1>18. IsFiniteSet(DOMAIN leases')
  <2>1. IsFiniteSet(DOMAIN leases \ Expired)
    BY FS_Subset
  <2>2. IsFiniteSet((DOMAIN leases \ Expired) \cup batch)
    BY <1>6, <2>1, FS_Union
  <2> QED BY <1>9, <2>2
<1> QED BY <1>12, <1>14, <1>15, <1>16, <1>17, <1>18 DEF MailInv

LEMMA AcknowledgeKeeps ==
    ASSUME MailInv, NEW a \in Agents, NEW h, Acknowledge(a, h)
    PROVE  MailInv'
<1> USE Found
<1>1. /\ h \in held[a]
      /\ \/ held' = [held EXCEPT ![a] = @ \ {h}] /\ UNCHANGED faults
         \/ Fault /\ UNCHANGED held
      /\ UNCHANGED <<seenNonces, issued, accepted, dispatched>>
  BY DEF Acknowledge
<1>2. PICK hands : hands = held' /\ hands \in [Agents -> SUBSET [id : MailIds, token : Nat]]
                   /\ \A b \in Agents : hands[b] \subseteq held[b]
  <2>1. held \in [Agents -> SUBSET [id : MailIds, token : Nat]]
    BY DEF MailInv, TypeOK
  <2> QED BY <1>1, <2>1
<1>3. faults' \in 0 .. MaxFaults
  <2>1. faults \in 0 .. MaxFaults /\ MaxFaults \in Nat
    BY MailAssumption DEF MailInv, TypeOK
  <2> QED BY <1>1, <2>1 DEF Fault
<1>4. /\ held' \in [Agents -> SUBSET [id : MailIds, token : Nat]]
      /\ \A b \in Agents : \A g \in held'[b] : g.token \in 1 .. issued'[g.id]
      /\ \A b, c \in Agents : b # c => held'[b] \cap held'[c] = {}
  <2>1. /\ \A b \in Agents : \A g \in held[b] : g.token \in 1 .. issued[g.id]
        /\ \A b, c \in Agents : b # c => held[b] \cap held[c] = {}
    BY DEF MailInv, TypeOK
  <2> QED BY <1>1, <1>2, <2>1
<1>5. ASSUME /\ queue' \in Seq(MailIds)
             /\ DOMAIN leases' \subseteq DOMAIN leases
             /\ \A id \in DOMAIN leases' : leases'[id] = leases[id]
             /\ messages' \subseteq messages
      PROVE  TypeOK'
  <2>1. /\ messages' \subseteq Mail /\ seenNonces' \subseteq {e.nonce : e \in Mail}
        /\ issued' \in [MailIds -> Nat] /\ accepted' \in [Mail -> Nat]
        /\ dispatched' \subseteq MailIds
    BY <1>1, <1>5 DEF MailInv, TypeOK
  <2>2. \A id \in DOMAIN leases' : leases'[id] \in [token : 1 .. issued'[id], expired : BOOLEAN]
    BY <1>1, <1>5 DEF MailInv, TypeOK
  <2> QED BY <1>3, <1>4, <1>5, <2>1, <2>2 DEF TypeOK
<1>6. NoncesAreSpent'
  BY <1>1 DEF MailInv, NoncesAreSpent
<1>7. ASSUME leases' = Released(h.id)
      PROVE  /\ DOMAIN leases' = DOMAIN leases \ {h.id} /\ IsFiniteSet(DOMAIN leases')
             /\ \A id \in DOMAIN leases' : leases'[id] = leases[id]
             /\ LeasesWereDispatched'
  <2>1. DOMAIN leases' = DOMAIN leases \ {h.id} /\ \A id \in DOMAIN leases' : leases'[id] = leases[id]
    BY <1>7 DEF Released
  <2>2. IsFiniteSet(DOMAIN leases')
    BY <2>1, FS_Subset
  <2> QED BY <1>1, <2>1, <2>2 DEF LeasesWereDispatched
<1>8. CASE /\ h.id \in Expired /\ leases' = Released(h.id) /\ queue' \in Restore({h.id})
           /\ UNCHANGED <<messages, acked>>
  <2>1. h.id \in DOMAIN leases
    BY <1>8 DEF Expired
  <2>2. /\ queue' \in Seq(MailIds) /\ ToSet(queue') = ToSet(queue) \cup {h.id}
        /\ IsInjective(queue') /\ Ordered(queue', dispatched)
    BY <1>8, <2>1, RestoreKeeps
  <2>3. Conserved'
    <3>1. Stored' = Stored
      BY <1>8 DEF Stored
    <3> QED BY <1>7, <1>8, <2>1, <2>2, <3>1 DEF Conserved
  <2>4. RecoveredFirst'
    BY <1>1, <2>2 DEF RecoveredFirst, Ordered
  <2> QED BY <1>5, <1>6, <1>7, <1>8, <2>2, <2>3, <2>4 DEF MailInv
<1>9. CASE /\ h.id \in DOMAIN leases /\ leases' = Released(h.id)
           /\ messages' = {e \in messages : e.id # h.id} /\ UNCHANGED queue
  <2>1. Stored' = Stored \ {h.id}
    BY <1>9 DEF Stored
  <2>2. Conserved'
    BY <1>7, <1>9, <2>1 DEF Conserved
  <2>3. RecoveredFirst'
    BY <1>1, <1>9 DEF MailInv, RecoveredFirst
  <2>4. TypeOK'
    BY <1>5, <1>7, <1>9
  <2> QED BY <1>6, <1>7, <1>9, <2>2, <2>3, <2>4 DEF MailInv
<1>10. CASE UNCHANGED <<leases, queue, messages, acked>>
  <2>1. TypeOK'
    BY <1>5, <1>10
  <2>2. Conserved' /\ RecoveredFirst' /\ LeasesWereDispatched' /\ IsFiniteSet(DOMAIN leases')
    BY <1>1, <1>10 DEF MailInv, Conserved, Stored, RecoveredFirst, LeasesWereDispatched
  <2> QED BY <1>6, <2>1, <2>2 DEF MailInv
<1> QED BY <1>8, <1>9, <1>10 DEF Acknowledge

LEMMA ExpireKeeps ==
    ASSUME MailInv, NEW x \in DOMAIN leases, Expire(x)
    PROVE  MailInv'
<1> USE Found
<1>1. /\ leases' = [leases EXCEPT ![x].expired = TRUE]
      /\ UNCHANGED faults \/ Fault
      /\ UNCHANGED <<messages, queue, seenNonces, held, issued, accepted, acked, dispatched>>
  BY DEF Expire
<1>2. DOMAIN leases' = DOMAIN leases
  BY <1>1
<1>3. \A id \in DOMAIN leases' : leases'[id] \in [token : 1 .. issued'[id], expired : BOOLEAN]
  <2> SUFFICES ASSUME NEW id \in DOMAIN leases
               PROVE  leases'[id] \in [token : 1 .. issued[id], expired : BOOLEAN]
    BY <1>1, <1>2
  <2>1. leases[id] \in [token : 1 .. issued[id], expired : BOOLEAN]
    BY DEF MailInv, TypeOK
  <2>2. leases'[id] = IF id = x THEN [leases[id] EXCEPT !.expired = TRUE] ELSE leases[id]
    BY <1>1
  <2> QED BY <2>1, <2>2
<1>4. faults' \in 0 .. MaxFaults
  <2>1. faults \in 0 .. MaxFaults /\ MaxFaults \in Nat
    BY MailAssumption DEF MailInv, TypeOK
  <2> QED BY <1>1, <2>1 DEF Fault
<1>5. TypeOK'
  BY <1>1, <1>2, <1>3, <1>4 DEF MailInv, TypeOK
<1>6. Conserved' /\ RecoveredFirst' /\ LeasesWereDispatched' /\ IsFiniteSet(DOMAIN leases')
  BY <1>1, <1>2 DEF MailInv, Conserved, Stored, RecoveredFirst, LeasesWereDispatched
<1>7. NoncesAreSpent'
  BY <1>1 DEF MailInv, NoncesAreSpent
<1> QED BY <1>5, <1>6, <1>7 DEF MailInv

LEMMA DieKeeps ==
    ASSUME MailInv, NEW a \in Agents, Die(a)
    PROVE  MailInv'
<1>1. /\ held' = [held EXCEPT ![a] = {}] /\ Fault
      /\ UNCHANGED <<messages, queue, leases, seenNonces, issued, accepted, acked, dispatched>>
  BY DEF Die
<1>2. faults' \in 0 .. MaxFaults
  <2>1. faults \in 0 .. MaxFaults /\ MaxFaults \in Nat
    BY MailAssumption DEF MailInv, TypeOK
  <2> QED BY <1>1, <2>1 DEF Fault
<1>3. /\ held' \in [Agents -> SUBSET [id : MailIds, token : Nat]]
      /\ \A b \in Agents : held'[b] \subseteq held[b]
  BY <1>1 DEF MailInv, TypeOK
<1>4. /\ \A b \in Agents : \A g \in held'[b] : g.token \in 1 .. issued'[g.id]
      /\ \A b, c \in Agents : b # c => held'[b] \cap held'[c] = {}
  BY <1>1, <1>3 DEF MailInv, TypeOK
<1>5. TypeOK'
  BY <1>1, <1>2, <1>3, <1>4 DEF MailInv, TypeOK
<1>6. Conserved' /\ RecoveredFirst' /\ LeasesWereDispatched' /\ IsFiniteSet(DOMAIN leases')
  BY <1>1 DEF MailInv, Conserved, Stored, RecoveredFirst, LeasesWereDispatched
<1>7. NoncesAreSpent'
  BY <1>1 DEF MailInv, NoncesAreSpent
<1> QED BY <1>5, <1>6, <1>7 DEF MailInv

-----------------------------------------------------------------------------
(* The results                                                             *)

LEMMA InitMailInv == Init => MailInv
<1> SUFFICES ASSUME Init PROVE MailInv
  OBVIOUS
<1>1. /\ messages = {} /\ queue = <<>> /\ leases = <<>> /\ seenNonces = {}
      /\ held = [a \in Agents |-> {}] /\ faults = 0 /\ issued = [id \in MailIds |-> 0]
      /\ accepted = [e \in Mail |-> 0] /\ dispatched = {}
  BY DEF Init
<1>2. DOMAIN leases = {} /\ DOMAIN queue = {} /\ ToSet(queue) = {} /\ Stored = {}
  BY <1>1 DEF ToSet, Stored
<1>3. TypeOK
  BY <1>1, <1>2, MailAssumption DEF TypeOK
<1>4. Conserved /\ RecoveredFirst /\ LeasesWereDispatched
  BY <1>2 DEF Conserved, RecoveredFirst, LeasesWereDispatched, IsInjective
<1>5. NoncesAreSpent
  BY <1>1 DEF NoncesAreSpent
<1>6. IsFiniteSet(DOMAIN leases)
  BY <1>2, FS_EmptySet
<1> QED BY <1>3, <1>4, <1>5, <1>6 DEF MailInv

LEMMA NextMailInv == MailInv /\ [Next]_vars => MailInv'
<1> SUFFICES ASSUME MailInv, [Next]_vars PROVE MailInv'
  OBVIOUS
<1>1. CASE \E e \in Mail : Enqueue(e)
  BY <1>1, EnqueueKeeps
<1>2. CASE \E a \in Agents : \E limit \in 0 .. MaxLimit : Dequeue(a, limit)
  BY <1>2, DequeueKeeps
<1>3. CASE \E a \in Agents : AnyAck(a)
  BY <1>3, AcknowledgeKeeps DEF AnyAck
<1>4. CASE \E a \in Agents : Die(a)
  BY <1>4, DieKeeps
<1>5. CASE \E id \in DOMAIN leases : Expire(id)
  BY <1>5, ExpireKeeps
<1>6. CASE UNCHANGED vars
  BY <1>6 DEF vars, MailInv, TypeOK, Conserved, Stored, RecoveredFirst, LeasesWereDispatched, NoncesAreSpent
<1> QED BY <1>1, <1>2, <1>3, <1>4, <1>5, <1>6 DEF Next

LEMMA MailInvAlways == Spec => []MailInv
<1> QED BY InitMailInv, NextMailInv, PTL DEF Spec

(* The mailbox loses, doubles and reorders nothing (enqueue, dequeue,      *)
(* acknowledge and pruneExpiredLeases of A2AMailboxQueue): every message   *)
(* stored waits in the queue once or is leased once, one whose lease ran   *)
(* out stands before all that were never dispatched, and no envelope is    *)
(* admitted twice, however many agents, envelopes and deaths there are.    *)
THEOREM MailIsKeptAlways == Spec => []MailIsKept
<1>1. MailInv => MailIsKept
  BY DEF MailInv, NoncesAreSpent, MailIsKept, EnvelopeOnce
<1> QED BY <1>1, MailInvAlways, PTL

(* A message goes away only by acknowledge, for the agent it was           *)
(* dispatched to last and while that lease runs.                           *)
THEOREM AckedByHolderAlways == Spec => AckedByHolder
<1>1. ASSUME MailInv, [Next]_vars, NEW e \in messages \ messages'
      PROVE  /\ e.id \in DOMAIN leases /\ ~leases[e.id].expired
             /\ acked' = Dispatch(e.id, leases[e.id].token)
  <2>1. PICK a \in Agents : AnyAck(a)
    BY <1>1 DEF Next, vars, Enqueue, Dequeue, Die, Expire
  <2>2. PICK h \in held[a] : Acknowledge(a, h)
    BY <2>1 DEF AnyAck
  <2>3. /\ h.id \in DOMAIN leases /\ Accepts(h) /\ acked' = h
        /\ messages' = {d \in messages : d.id # h.id}
    BY <1>1, <2>2 DEF Acknowledge
  <2>4. e.id = h.id
    BY <1>1, <2>3
  <2>5. h = [id |-> h.id, token |-> h.token]
    <3>1. h \in [id : MailIds, token : Nat]
      BY <1>1, <2>2 DEF MailInv, TypeOK
    <3> QED BY <3>1
  <2> QED BY <2>3, <2>4, <2>5 DEF Accepts, Dispatch
<1>2. MailInv /\ [Next]_vars =>
        [\A e \in messages \ messages' :
          /\ e.id \in DOMAIN leases /\ ~leases[e.id].expired
          /\ acked' = Dispatch(e.id, leases[e.id].token)]_vars
  BY <1>1
<1> QED BY <1>2, MailInvAlways, PTL DEF Spec, AckedByHolder
-----------------------------------------------------------------------------
(* The Telegram relays, for any number of them, any updates and any faults.*)

CONSTANTS Relays, Kind, PollJobs, MaxBreakdowns, None
VARIABLES arrived, confirmed, lock, file, relay, breakdowns, dispatches, told, overlap

R == INSTANCE TelegramRelay WITH
        MaxFaults <- MaxBreakdowns, faults <- breakdowns, dispatched <- dispatches

-----------------------------------------------------------------------------
(* The Telegram relays: an update that need not be looked at again.        *)
Safe(u, T)  == u \in T \/ Kind[u] = "ignored"
AllSafe(n, T) == \A u \in 1 .. Len(Kind) : u < n => Safe(u, T)

Busy      == R!Running \ {"poll", "begin"}
Serving   == R!Running \ {"poll"}
Points    == {"down"} \cup R!Starting \cup R!Running
RelayType == [pc : Points, offset : 0 .. Len(Kind) + 1, batch : Seq(1 .. Len(Kind))]

(* A relay has passed only safe updates, and holds the ones that follow.   *)
Good(f, T) ==
    /\ f \in RelayType /\ AllSafe(f.offset, T)
    /\ f.pc \in Serving =>
          /\ f.batch # <<>> /\ \A i \in 1 .. Len(f.batch) : f.batch[i] = f.batch[1] + i - 1
          /\ AllSafe(f.batch[1], T) /\ f.offset <= f.batch[1] + 1
          /\ f.pc \notin {"error", "saveError"} => f.offset <= f.batch[1]
    /\ f.pc \in {"save", "saveError"} => Safe(f.batch[1], T)

(* Without overlap one relay starts at a time, and a relay that runs holds *)
(* the lock.                                                               *)
LockHolds ==
    ~overlap =>
       /\ \A r, s \in Relays : relay[r].pc \in R!Starting /\ relay[s].pc \in R!Starting => r = s
       /\ \A r \in Relays : relay[r].pc \in R!Running => lock = r
       /\ \A r, s \in Relays : relay[s].pc \in {"wrote", "overwrite"} => relay[r].pc \notin R!Running

(* A relay may yet dispatch the update once without another fault.         *)
May(f, u)     == f.pc \in R!Running => f.offset <= u /\ ~(f.pc \in Busy /\ f.batch[1] = u)
Those(u)      == {r \in Relays : May(relay[r], u)}
Counted(u)    == dispatches[u] + Cardinality(Those(u)) <= breakdowns + Cardinality(Relays)
OneCounted(u) == ~overlap =>
                    dispatches[u] + (IF \E r \in Relays : ~May(relay[r], u) THEN 0 ELSE 1) <= breakdowns + 1

Answered  == AllSafe(file, told) /\ AllSafe(confirmed + 1, told)
RelayInv ==
    /\ R!TypeOK /\ Answered /\ LockHolds
    /\ \A r \in Relays : Good(relay[r], told)
    /\ \A u \in 1 .. Len(Kind) : Counted(u) /\ OneCounted(u)

Configured ==
    /\ Kind \in Seq({"chat", "job", "command", "ignored"})
    /\ MaxBreakdowns \in Nat /\ None \notin Relays /\ IsFiniteSet(Relays)

LEMMA KindTyped ==
    ASSUME Configured
    PROVE  Len(Kind) \in Nat /\ R!Updates = 1 .. Len(Kind) /\ Cardinality(Relays) \in Nat
BY FS_CardinalityType DEF Configured, R!Updates

LEMMA Typed ==
    ASSUME Configured
    PROVE  R!TypeOK <=>
              /\ arrived \in 0 .. Len(Kind) /\ confirmed \in 0 .. Len(Kind)
              /\ lock \in Relays \cup {None, "empty"} /\ file \in 0 .. Len(Kind) + 1
              /\ relay \in [Relays -> RelayType] /\ breakdowns \in 0 .. MaxBreakdowns
              /\ dispatches \in [1 .. Len(Kind) -> Nat] /\ told \subseteq 1 .. Len(Kind) /\ overlap \in BOOLEAN
BY KindTyped DEF R!TypeOK, RelayType, Points

LEMMA RelayBegins == Configured /\ R!Init => RelayInv
<1> SUFFICES ASSUME Configured, R!Init PROVE RelayInv
  OBVIOUS
<1>1. /\ arrived = 0 /\ confirmed = 0 /\ lock = None /\ file = 0 /\ breakdowns = 0
      /\ relay = [r \in Relays |-> [pc |-> "down", offset |-> 0, batch |-> <<>>]] /\ overlap = FALSE
      /\ dispatches = [u \in 1 .. Len(Kind) |-> 0] /\ told = {} /\ MaxBreakdowns \in Nat
  BY KindTyped DEF R!Init, R!Down, Configured
<1>2. [pc |-> "down", offset |-> 0, batch |-> <<>>] \in RelayType
  BY KindTyped DEF RelayType, Points
<1>3. R!TypeOK
  <2>1. /\ arrived \in 0 .. Len(Kind) /\ confirmed \in 0 .. Len(Kind) /\ file \in 0 .. Len(Kind) + 1
        /\ breakdowns \in 0 .. MaxBreakdowns
    BY <1>1, KindTyped
  <2>2. relay \in [Relays -> RelayType] /\ dispatches \in [1 .. Len(Kind) -> Nat] /\ told \subseteq 1 .. Len(Kind)
        /\ lock \in Relays \cup {None, "empty"} /\ overlap \in BOOLEAN
    BY <1>1, <1>2
  <2> QED BY <2>1, <2>2, Typed
<1>4. Answered
  BY <1>1, KindTyped DEF Answered, AllSafe
<1>5. LockHolds
  BY <1>1 DEF LockHolds, R!Starting, R!Running
<1>6. \A r \in Relays : Good(relay[r], told)
  <2> SUFFICES ASSUME NEW r \in Relays PROVE Good(relay[r], told)
    OBVIOUS
  <2>1. PICK f : f = relay[r] /\ f \in RelayType /\ f.pc = "down" /\ f.offset = 0
    BY <1>1, <1>2
  <2>2. Good(f, told)
    BY <2>1, KindTyped DEF Good, AllSafe, Serving, R!Running
  <2> QED BY <2>1, <2>2
<1>7. ASSUME NEW u \in 1 .. Len(Kind) PROVE Counted(u) /\ OneCounted(u)
  <2>1. \A r \in Relays : May(relay[r], u)
    BY <1>1 DEF May, R!Running
  <2>2. Those(u) = Relays
    BY <2>1 DEF Those
  <2>3. dispatches[u] = 0
    BY <1>1
  <2> QED BY <1>1, <2>1, <2>2, <2>3, KindTyped DEF Counted, OneCounted
<1> QED BY <1>3, <1>4, <1>5, <1>6, <1>7 DEF RelayInv

(* A step of one relay: what it may do to the count of an update.          *)
Steps(r, g) == r \in Relays /\ relay' = [relay EXCEPT ![r] = g]
NoMore(r, g, u) ==
    \/ dispatches'[u] = dispatches[u] /\ breakdowns' = breakdowns /\ (May(g, u) => May(relay[r], u))
    \/ dispatches'[u] = dispatches[u] /\ breakdowns' = breakdowns + 1
    \/ /\ dispatches'[u] = dispatches[u] + 1 /\ breakdowns' \in {breakdowns, breakdowns + 1}
       /\ relay[r].pc \in R!Running /\ May(relay[r], u) /\ ~May(g, u)

LEMMA CountsKept ==
    ASSUME Configured, RelayInv, NEW r, NEW g, Steps(r, g), overlap => overlap',
           NEW u \in 1 .. Len(Kind), NoMore(r, g, u)
    PROVE  Counted(u)' /\ OneCounted(u)'
<1>0. /\ relay \in [Relays -> RelayType] /\ breakdowns \in Nat /\ dispatches[u] \in Nat /\ r \in Relays
      /\ overlap \in BOOLEAN
  BY Typed, KindTyped DEF RelayInv, Steps, Configured
<1>1. relay'[r] = g /\ \A s \in Relays \ {r} : relay'[s] = relay[s]
  BY <1>0 DEF Steps
<1>2. PICK A, B : A = Those(u) /\ B = Those(u)'
  OBVIOUS
<1>3. \A s \in Relays : (s \in A <=> May(relay[s], u)) /\ (s \in B <=> May(relay'[s], u))
  BY <1>2 DEF Those, May
<1>4. IsFiniteSet(A) /\ IsFiniteSet(B) /\ Cardinality(A) \in Nat /\ Cardinality(B) \in Nat
  <2>1. A \subseteq Relays /\ B \subseteq Relays /\ IsFiniteSet(Relays)
    BY <1>2 DEF Those, Configured
  <2> QED BY <2>1, FS_Subset, FS_CardinalityType
<1>5. A \subseteq Relays /\ B \subseteq Relays
  BY <1>2 DEF Those
<1>6. dispatches[u] + Cardinality(A) <= breakdowns + Cardinality(Relays)
  BY <1>2 DEF RelayInv, Counted
<1>7. ~overlap => dispatches[u] + (IF \E s \in Relays : s \notin A THEN 0 ELSE 1) <= breakdowns + 1
  BY <1>3 DEF RelayInv, OneCounted
<1>8. /\ dispatches'[u] + Cardinality(B) <= breakdowns' + Cardinality(Relays)
      /\ ~overlap' => dispatches'[u] + (IF \E s \in Relays : s \notin B THEN 0 ELSE 1) <= breakdowns' + 1
  <2>1. CASE dispatches'[u] = dispatches[u] /\ breakdowns' = breakdowns /\ (May(g, u) => May(relay[r], u))
    <3>1. B \in SUBSET A
      BY <1>0, <1>1, <1>3, <1>5, <2>1
    <3>2. Cardinality(B) <= Cardinality(A)
      BY <1>4, <3>1, FS_Subset
    <3>3. (\E s \in Relays : s \notin A) => \E s \in Relays : s \notin B
      BY <3>1
    <3> QED BY <1>0, <1>4, <1>6, <1>7, <2>1, <3>2, <3>3, KindTyped
  <2>2. CASE dispatches'[u] = dispatches[u] /\ breakdowns' = breakdowns + 1
    <3>1. B \in SUBSET (A \cup {r})
      BY <1>1, <1>3, <1>5
    <3>2. IsFiniteSet(A \cup {r}) /\ Cardinality(A \cup {r}) <= Cardinality(A) + 1 /\ Cardinality(A \cup {r}) \in Nat
      <4>1. IsFiniteSet(A \cup {r}) /\ (Cardinality(A \cup {r}) = Cardinality(A) \/ Cardinality(A \cup {r}) = Cardinality(A) + 1)
        BY <1>4, FS_AddElement
      <4> QED BY <1>4, <4>1
    <3>3. Cardinality(B) <= Cardinality(A \cup {r})
      BY <3>1, <3>2, FS_Subset
    <3>4. dispatches'[u] + Cardinality(B) <= breakdowns' + Cardinality(Relays)
      BY <1>0, <1>4, <1>6, <2>2, <3>2, <3>3, KindTyped
    <3>5. ~overlap => dispatches[u] <= breakdowns + 1
      BY <1>0, <1>7
    <3> QED BY <1>0, <2>2, <3>4, <3>5
  <2>3. CASE /\ dispatches'[u] = dispatches[u] + 1 /\ breakdowns' \in {breakdowns, breakdowns + 1}
             /\ relay[r].pc \in R!Running /\ May(relay[r], u) /\ ~May(g, u)
    <3>1. B = A \ {r} /\ r \in A
      BY <1>0, <1>1, <1>3, <1>5, <2>3
    <3>2. Cardinality(B) = Cardinality(A) - 1
      BY <1>4, <3>1, FS_RemoveElement
    <3>3. ~overlap' => \A s \in Relays : s \in A
      <4> SUFFICES ASSUME ~overlap', NEW s \in Relays, s \notin A PROVE FALSE
        OBVIOUS
      <4>1. relay[s].pc \in R!Running
        BY <1>3 DEF May
      <4>2. s = r
        BY <1>0, <2>3, <4>1 DEF RelayInv, LockHolds
      <4> QED BY <3>1, <4>2
    <3>4. dispatches'[u] + Cardinality(B) <= breakdowns' + Cardinality(Relays)
      BY <1>0, <1>4, <1>6, <2>3, <3>2, KindTyped
    <3>5. ~overlap' => dispatches[u] + 1 <= breakdowns + 1
      BY <1>7, <3>3
    <3>6. \E s \in Relays : s \notin B
      BY <1>0, <3>1
    <3>7. breakdowns' \in Nat /\ breakdowns <= breakdowns'
      BY <1>0, <2>3
    <3>8. ~overlap' => dispatches'[u] + 0 <= breakdowns' + 1
      BY <1>0, <2>3, <3>5, <3>7
    <3> QED BY <3>4, <3>6, <3>8
  <2> QED BY <2>1, <2>2, <2>3 DEF NoMore
<1>9. (\E s \in Relays : s \notin B) <=> (\E s \in Relays : ~May(relay'[s], u))
  BY <1>3
<1> QED BY <1>2, <1>8, <1>9 DEF Counted, OneCounted, May

(* What is safe and good stays so as more is told.                         *)
LEMMA MoreTold ==
    ASSUME NEW T, NEW S, T \subseteq S
    PROVE  /\ \A n : AllSafe(n, T) => AllSafe(n, S)
           /\ \A f : Good(f, T) => Good(f, S)
BY DEF AllSafe, Good, Safe

LEMMA StepKeeps ==
    ASSUME Configured, RelayInv, NEW r, NEW g, Steps(r, g), Good(g, told'),
           told \subseteq told', told' \subseteq 1 .. Len(Kind),
           arrived' = arrived, confirmed' \in 0 .. Len(Kind), file' \in 0 .. Len(Kind) + 1,
           AllSafe(file', told'), AllSafe(confirmed' + 1, told'),
           lock' \in Relays \cup {None, "empty"}, overlap' \in BOOLEAN, overlap => overlap', LockHolds',
           breakdowns' \in 0 .. MaxBreakdowns, dispatches' \in [1 .. Len(Kind) -> Nat],
           \A u \in 1 .. Len(Kind) : NoMore(r, g, u)
    PROVE  RelayInv'
<1>1. relay \in [Relays -> RelayType] /\ arrived \in 0 .. Len(Kind) /\ g \in RelayType
      /\ \A s \in Relays : Good(relay[s], told)
  BY Typed DEF RelayInv, Good
<1>2. relay' \in [Relays -> RelayType] /\ relay'[r] = g /\ \A s \in Relays \ {r} : relay'[s] = relay[s]
  BY <1>1 DEF Steps
<1>3. R!TypeOK'
  BY <1>1, <1>2, KindTyped DEF R!TypeOK, RelayType, Points
<1>4. ASSUME NEW s \in Relays PROVE Good(relay[s], told)'
  <2>1. Good(relay'[s], told')
    <3>1. CASE s = r
      BY <1>2, <3>1
    <3>2. CASE s # r
      <4>1. relay'[s] = relay[s]
        BY <1>2, <3>2
      <4> QED BY <1>1, <4>1, MoreTold
    <3> QED BY <3>1, <3>2
  <2> QED BY <2>1 DEF Good, AllSafe, Safe
<1>5. \A u \in 1 .. Len(Kind) : Counted(u)' /\ OneCounted(u)'
  BY CountsKept
<1>6. Answered'
  BY DEF Answered, AllSafe, Safe
<1> QED BY <1>3, <1>4, <1>5, <1>6 DEF RelayInv

(* A step of a relay that runs and goes on running.                        *)
LEMMA WorkKeeps ==
    ASSUME Configured, RelayInv, NEW r, NEW g, Steps(r, g), Good(g, told'),
           relay[r].pc \in R!Running, g.pc \in R!Running,
           told \subseteq told', told' \subseteq 1 .. Len(Kind),
           arrived' = arrived, confirmed' \in 0 .. Len(Kind), file' \in 0 .. Len(Kind) + 1,
           AllSafe(file', told'), AllSafe(confirmed' + 1, told'), lock' = lock, overlap' = overlap,
           breakdowns' \in 0 .. MaxBreakdowns, dispatches' \in [1 .. Len(Kind) -> Nat],
           \A u \in 1 .. Len(Kind) : NoMore(r, g, u)
    PROVE  RelayInv'
<1>1. relay \in [Relays -> RelayType] /\ lock \in Relays \cup {None, "empty"} /\ overlap \in BOOLEAN /\ r \in Relays
  BY Typed DEF RelayInv, Steps
<1>2. relay'[r] = g /\ \A s \in Relays \ {r} : relay'[s] = relay[s]
  BY <1>1 DEF Steps
<1>3. \A s \in Relays : /\ relay'[s].pc \in R!Starting <=> relay[s].pc \in R!Starting
                        /\ relay'[s].pc \in R!Running <=> relay[s].pc \in R!Running
                        /\ relay'[s].pc \in {"wrote", "overwrite"} => relay[s].pc \in {"wrote", "overwrite"}
  BY <1>2 DEF R!Starting, R!Running
<1>4. LockHolds'
  BY <1>3 DEF RelayInv, LockHolds
<1> QED BY <1>1, <1>4, StepKeeps

(* A relay at another program point.                                       *)
LEMMA Gone ==
    ASSUME NEW f \in RelayType, NEW p \in Points
    PROVE  /\ [f EXCEPT !.pc = p] \in RelayType /\ [f EXCEPT !.pc = p].pc = p
           /\ [f EXCEPT !.pc = p].offset = f.offset /\ [f EXCEPT !.pc = p].batch = f.batch
BY DEF RelayType

LEMMA HeadsUp ==
    ASSUME Configured, NEW T, NEW f, Good(f, T), f.pc \in Serving
    PROVE  /\ Head(f.batch) = f.batch[1] /\ f.batch[1] \in 1 .. Len(Kind) /\ f.offset \in Nat
           /\ f.batch \in Seq(1 .. Len(Kind)) /\ Len(f.batch) \in Nat \ {0}
<1>1. f.batch \in Seq(1 .. Len(Kind)) /\ f.batch # <<>> /\ f.offset \in 0 .. Len(Kind) + 1
  BY DEF Good, RelayType
<1> QED BY <1>1

(* The relay in the middle of an update: at p after f, told T.             *)
LEMMA OnItsWay ==
    ASSUME Configured, NEW T, NEW S, T \subseteq S, NEW f, Good(f, T), f.pc \in Serving, NEW p \in Serving,
           f.pc \in {"error", "saveError"} => p \in {"error", "saveError"},
           p \in {"save", "saveError"} => Safe(Head(f.batch), S)
    PROVE  Good([f EXCEPT !.pc = p], S)
<1>1. PICK g : g = [f EXCEPT !.pc = p]
  OBVIOUS
<1>2. g \in RelayType /\ g.pc = p /\ g.offset = f.offset /\ g.batch = f.batch
  <2>1. f \in RelayType /\ p \in Points
    BY DEF Good, Serving, Points
  <2> QED BY <1>1, <2>1, Gone
<1>3. Good(f, S)
  BY MoreTold
<1>4. Good(g, S)
  BY <1>2, <1>3, HeadsUp DEF Good
<1> QED BY <1>1, <1>4

Batches     == Seq(1 .. Len(Kind))
At(f, p, b) == [f EXCEPT !.pc = p, !.batch = b]
LEMMA GoneWith ==
    ASSUME NEW f \in RelayType, NEW p \in Points, NEW b \in Batches
    PROVE  /\ At(f, p, b) \in RelayType /\ At(f, p, b).pc = p
           /\ At(f, p, b).offset = f.offset /\ At(f, p, b).batch = b
<1>0. PICK g : g = At(f, p, b)
  OBVIOUS
<1>1. f.offset \in 0 .. Len(Kind) + 1 /\ f = [pc |-> f.pc, offset |-> f.offset, batch |-> f.batch]
  BY DEF RelayType
<1>2. g = [pc |-> p, offset |-> f.offset, batch |-> b]
  BY <1>0, <1>1 DEF At
<1>3. g.pc = p /\ g.offset = f.offset /\ g.batch = b
  BY <1>2
<1>4. g \in RelayType
  BY <1>1, <1>2 DEF RelayType, Batches
<1> QED BY <1>0, <1>3, <1>4

LEMMA Tailed ==
    ASSUME NEW q \in Seq(1 .. Len(Kind)), Len(q) > 1
    PROVE  /\ Tail(q) \in Seq(1 .. Len(Kind)) /\ Len(Tail(q)) = Len(q) - 1 /\ Tail(q) # <<>>
           /\ \A i \in 1 .. Len(Tail(q)) : Tail(q)[i] = q[i + 1]
<1>1. Len(q) \in Nat /\ q # <<>>
  OBVIOUS
<1>2. Tail(q) \in Seq(1 .. Len(Kind)) /\ Len(Tail(q)) = Len(q) - 1
  BY <1>1
<1>3. Tail(q) # <<>>
  BY <1>1, <1>2
<1>4. \A i \in 1 .. Len(Tail(q)) : Tail(q)[i] = q[i + 1]
  BY <1>1, <1>2
<1> QED BY <1>2, <1>3, <1>4

(* An update is left: for the next one, or for the next poll.              *)
LEMMA Left ==
    ASSUME Configured, NEW T, NEW f, Good(f, T), f.pc \in Serving, NEW m, m \in 0 .. Len(Kind) + 1,
           AllSafe(m, T), m <= f.batch[1] + 1, Safe(f.batch[1], T),
           NEW g, g = R!NextUpdate([f EXCEPT !.offset = m])
    PROVE  /\ Good(g, T) /\ g.pc \in {"begin", "poll"} /\ g.offset = m
<1>0. PICK q, h : q = f.batch /\ h = [f EXCEPT !.offset = m]
  OBVIOUS
<1>1. /\ f \in RelayType /\ q # <<>> /\ \A i \in 1 .. Len(q) : q[i] = q[1] + i - 1
      /\ AllSafe(q[1], T) /\ q \in Seq(1 .. Len(Kind)) /\ Len(q) \in Nat /\ Len(Kind) \in Nat
      /\ q[1] \in 1 .. Len(Kind)
  BY <1>0, KindTyped, HeadsUp DEF Good
<1>3. h \in RelayType /\ h.offset = m /\ h.batch = q
  BY <1>0, <1>1 DEF RelayType
<1>4. CASE Len(q) > 1
  <2>1. PICK b : /\ b = Tail(q) /\ b \in Seq(1 .. Len(Kind)) /\ b # <<>>
                 /\ Len(b) = Len(q) - 1 /\ \A i \in 1 .. Len(b) : b[i] = q[i + 1]
    <3>1. /\ Tail(q) \in Seq(1 .. Len(Kind)) /\ Len(Tail(q)) = Len(q) - 1 /\ Tail(q) # <<>>
          /\ \A i \in 1 .. Len(Tail(q)) : Tail(q)[i] = q[i + 1]
      BY <1>1, <1>4, Tailed
    <3> QED BY <3>1, Zenon
  <2>2. g = At(h, "begin", b)
    BY <1>0, <1>3, <1>4, <2>1 DEF R!NextUpdate, At
  <2>3. /\ g \in RelayType /\ g.pc = "begin" /\ g.offset = m /\ g.batch = b
    <3>1. "begin" \in Points /\ b \in Batches
      BY <2>1 DEF Points, R!Running, Batches
    <3> QED BY <1>3, <2>2, <3>1, GoneWith
  <2>4. \A i \in 1 .. Len(b) : b[i] = q[1] + i
    <3> SUFFICES ASSUME NEW i \in 1 .. Len(b) PROVE b[i] = q[1] + i
      OBVIOUS
    <3>1. i + 1 \in 1 .. Len(q) /\ i \in Nat /\ q[1] \in Nat
      <4>1. i \in Nat /\ i >= 1 /\ i <= Len(q) - 1
        BY <1>1, <2>1
      <4> QED BY <1>1, <4>1
    <3>2. b[i] = q[i + 1]
      BY <2>1
    <3>3. q[i + 1] = q[1] + (i + 1) - 1
      BY <1>1, <3>1
    <3> QED BY <3>1, <3>2, <3>3
  <2>5. b[1] = q[1] + 1
    <3>1. 1 \in 1 .. Len(b)
      BY <1>1, <1>4, <2>1
    <3> QED BY <2>4, <3>1
  <2>6. \A i \in 1 .. Len(g.batch) : g.batch[i] = g.batch[1] + i - 1
    <3> SUFFICES ASSUME NEW i \in 1 .. Len(b) PROVE b[i] = b[1] + i - 1
      BY <2>3
    <3>1. b[i] = q[1] + i /\ q[1] \in Nat /\ i \in Nat
      BY <1>1, <2>4
    <3> QED BY <2>5, <3>1
  <2>7. AllSafe(b[1], T)
    <3> SUFFICES ASSUME NEW u \in 1 .. Len(Kind), u < q[1] + 1 PROVE Safe(u, T)
      BY <2>5 DEF AllSafe
    <3>1. u < q[1] \/ u = q[1]
      BY <1>1
    <3> QED BY <1>0, <1>1, <3>1 DEF AllSafe
  <2>8. m <= b[1] /\ b[1] \in Nat
    BY <1>0, <1>1, <2>5
  <2>9. g.offset <= g.batch[1] + 1 /\ g.offset <= g.batch[1]
    BY <2>3, <2>8
  <2> QED BY <2>1, <2>3, <2>6, <2>7, <2>9 DEF Good
<1>5. CASE ~(Len(q) > 1)
  <2>1. g = At(h, "poll", <<>>)
    BY <1>0, <1>3, <1>5 DEF R!NextUpdate, At
  <2>2. g \in RelayType /\ g.pc = "poll" /\ g.offset = m
    <3>1. "poll" \in Points /\ <<>> \in Batches
      BY DEF Points, R!Running, Batches
    <3> QED BY <1>3, <2>1, <3>1, GoneWith
  <2> QED BY <2>2 DEF Good, Serving
<1> QED BY <1>4, <1>5

LEMMA Broken ==
    ASSUME NEW T, NEW f, f \in RelayType, AllSafe(f.offset, T), NEW g, g = R!Break(f)
    PROVE  Good(g, T) /\ g.pc = "poll" /\ g.offset = f.offset
<1>1. g = At(f, "poll", <<>>)
  BY DEF R!Break, At
<1>2. g \in RelayType /\ g.pc = "poll" /\ g.offset = f.offset
  <2>1. "poll" \in Points /\ <<>> \in Batches
    BY DEF Points, R!Running, Batches
  <2>2. At(f, "poll", <<>>) \in RelayType /\ At(f, "poll", <<>>).pc = "poll" /\ At(f, "poll", <<>>).offset = f.offset
    BY <2>1, GoneWith
  <2> QED BY <1>1, <2>2
<1> QED BY <1>2 DEF Good, Serving

-----------------------------------------------------------------------------
(* The steps                                                               *)

(* A relay goes on with its update, from one point to the next.            *)
LEMMA OnItsWayKeeps ==
    ASSUME Configured, RelayInv, NEW r \in Relays, NEW p \in Busy, relay[r].pc \in Serving,
           relay' = R!To(r, p), told \subseteq told', told' \subseteq 1 .. Len(Kind),
           relay[r].pc \in {"error", "saveError"} => p \in {"error", "saveError"},
           p \in {"save", "saveError"} => Safe(R!Update(r), told'),
           breakdowns' \in {breakdowns, breakdowns + 1}, breakdowns' \in 0 .. MaxBreakdowns,
           arrived' = arrived, confirmed' = confirmed, lock' = lock, file' = file, overlap' = overlap,
           dispatches' = dispatches
    PROVE  RelayInv'
<1>1. PICK f, g : f = relay[r] /\ g = [f EXCEPT !.pc = p]
  OBVIOUS
<1>2. /\ Good(f, told) /\ relay \in [Relays -> RelayType] /\ p \in Serving /\ p \in R!Running /\ p \in Points
      /\ f.pc \in Serving /\ f.pc \in R!Running
  BY <1>1, Typed DEF RelayInv, Busy, Serving, Points
<1>3. Good(g, told')
  <2>1. R!Update(r) = Head(f.batch)
    BY <1>1 DEF R!Update
  <2> QED BY <1>1, <1>2, <2>1, OnItsWay
<1>4. f \in RelayType /\ g.pc = p /\ g.offset = f.offset /\ g.batch = f.batch
  BY <1>1, <1>2, Gone DEF Good
<1>5. Steps(r, g)
  BY <1>1, <1>2 DEF Steps, R!To, RelayType
<1>6. ASSUME NEW u \in 1 .. Len(Kind) PROVE NoMore(r, g, u)
  <2>1. May(g, u) => May(f, u)
    BY <1>2, <1>4 DEF May
  <2> QED BY <1>1, <2>1 DEF NoMore
<1>7. /\ confirmed' \in 0 .. Len(Kind) /\ file' \in 0 .. Len(Kind) + 1
      /\ dispatches' \in [1 .. Len(Kind) -> Nat]
  BY Typed DEF RelayInv
<1>8. AllSafe(file', told') /\ AllSafe(confirmed' + 1, told')
  BY MoreTold DEF RelayInv, Answered
<1> QED BY <1>1, <1>2, <1>3, <1>4, <1>5, <1>6, <1>7, <1>8, WorkKeeps

(* One more fault, or none.                                                *)
LEMMA Faulted ==
    ASSUME Configured, RelayInv
    PROVE  /\ breakdowns \in 0 .. MaxBreakdowns
           /\ R!Fault => breakdowns' = breakdowns + 1 /\ breakdowns' \in 0 .. MaxBreakdowns
<1>1. breakdowns \in 0 .. MaxBreakdowns /\ MaxBreakdowns \in Nat
  BY Typed DEF RelayInv, Configured
<1> QED BY <1>1 DEF R!Fault

(* The update a relay is about.                                            *)
LEMMA Handled ==
    ASSUME Configured, RelayInv, NEW r \in Relays, relay[r].pc \in Serving
    PROVE  R!Update(r) = relay[r].batch[1] /\ R!Update(r) \in 1 .. Len(Kind) /\ told \subseteq 1 .. Len(Kind)
<1>1. Good(relay[r], told) /\ told \subseteq 1 .. Len(Kind)
  BY Typed DEF RelayInv
<1> QED BY <1>1, HeadsUp DEF R!Update

LEMMA BeginKeeps ==
    ASSUME Configured, RelayInv, NEW r \in Relays, R!Begin(r)
    PROVE  RelayInv'
<1>1. /\ relay[r].pc = "begin" /\ arrived' = arrived /\ confirmed' = confirmed /\ lock' = lock /\ file' = file
      /\ breakdowns' = breakdowns /\ dispatches' = dispatches /\ told' = told /\ overlap' = overlap
  BY DEF R!Begin, R!At, R!telegram, R!history
<1>2. relay[r].pc \in Serving /\ "save" \in Busy /\ "reply" \in Busy
  BY <1>1 DEF Serving, Busy, R!Running
<1>3. told' \subseteq 1 .. Len(Kind) /\ breakdowns' \in 0 .. MaxBreakdowns
  BY <1>1, <1>2, Handled, Faulted
<1>4. CASE Kind[R!Update(r)] = "ignored" /\ relay' = R!To(r, "save")
  <2>1. Safe(R!Update(r), told')
    BY <1>4 DEF Safe
  <2> QED BY <1>1, <1>2, <1>3, <1>4, <2>1, OnItsWayKeeps
<1>5. CASE relay' = R!To(r, "reply")
  BY <1>1, <1>2, <1>3, <1>5, OnItsWayKeeps
<1> QED BY <1>4, <1>5 DEF R!Begin

LEMMA RequestFailsKeeps ==
    ASSUME Configured, RelayInv, NEW r \in Relays, R!RequestFails(r)
    PROVE  RelayInv'
<1>1. /\ relay[r].pc \in {"begin", "job"} /\ arrived' = arrived /\ confirmed' = confirmed /\ lock' = lock /\ file' = file
      /\ dispatches' = dispatches /\ told' = told /\ overlap' = overlap /\ relay' = R!To(r, "error") /\ R!Fault
  BY DEF R!RequestFails, R!telegram, R!history
<1>2. relay[r].pc \in Serving /\ "error" \in Busy
  BY <1>1 DEF Serving, Busy, R!Running
<1>3. told' \subseteq 1 .. Len(Kind) /\ breakdowns' \in 0 .. MaxBreakdowns /\ breakdowns' = breakdowns + 1
  BY <1>1, <1>2, Handled, Faulted
<1> QED BY <1>1, <1>2, <1>3, OnItsWayKeeps

LEMMA JobPolledKeeps ==
    ASSUME Configured, RelayInv, NEW r \in Relays, R!JobPolled(r)
    PROVE  RelayInv'
<1>1. /\ relay[r].pc = "job" /\ arrived' = arrived /\ confirmed' = confirmed /\ lock' = lock /\ file' = file
      /\ breakdowns' = breakdowns /\ dispatches' = dispatches /\ told' = told /\ overlap' = overlap
      /\ relay' = R!To(r, "summary")
  BY DEF R!JobPolled, R!At, R!telegram, R!history
<1>2. relay[r].pc \in Serving /\ "summary" \in Busy
  BY <1>1 DEF Serving, Busy, R!Running
<1>3. told' \subseteq 1 .. Len(Kind) /\ breakdowns' \in 0 .. MaxBreakdowns
  BY <1>1, <1>2, Handled, Faulted
<1> QED BY <1>1, <1>2, <1>3, OnItsWayKeeps

LEMMA SendAnswerKeeps ==
    ASSUME Configured, RelayInv, NEW r \in Relays, R!SendAnswer(r)
    PROVE  RelayInv'
<1>1. /\ relay[r].pc \in {"reply", "summary"} /\ arrived' = arrived /\ confirmed' = confirmed /\ lock' = lock
      /\ file' = file /\ dispatches' = dispatches /\ overlap' = overlap
  BY DEF R!SendAnswer, R!telegram
<1>2. relay[r].pc \in Serving /\ "save" \in Busy /\ "job" \in Busy /\ "error" \in Busy
  BY <1>1 DEF Serving, Busy, R!Running
<1>3. R!Update(r) \in 1 .. Len(Kind) /\ told \subseteq 1 .. Len(Kind)
  BY <1>2, Handled
<1>4. CASE told' = told \cup {R!Update(r)} /\ breakdowns' = breakdowns
           /\ relay' = R!To(r, IF R!At(r, "reply") THEN R!AfterReply(R!Update(r)) ELSE "save")
  <2>1. Safe(R!Update(r), told') /\ told \subseteq told' /\ told' \subseteq 1 .. Len(Kind)
        /\ breakdowns' \in 0 .. MaxBreakdowns
    BY <1>3, <1>4, Faulted DEF Safe
  <2>2. PICK p : p = IF R!At(r, "reply") THEN R!AfterReply(R!Update(r)) ELSE "save"
    OBVIOUS
  <2>3. p \in {"job", "save"}
    BY <2>2 DEF R!AfterReply
  <2> QED BY <1>1, <1>2, <1>4, <2>1, <2>2, <2>3, OnItsWayKeeps
<1>5. CASE (told' = told \cup {R!Update(r)} \/ told' = told) /\ R!Fault /\ relay' = R!To(r, "error")
  <2>1. told \subseteq told' /\ told' \subseteq 1 .. Len(Kind)
    BY <1>3, <1>5
  <2>2. breakdowns' = breakdowns + 1 /\ breakdowns' \in 0 .. MaxBreakdowns
    BY <1>5, Faulted
  <2> QED BY <1>1, <1>2, <1>5, <2>1, <2>2, OnItsWayKeeps
<1> QED BY <1>4, <1>5 DEF R!SendAnswer

LEMMA DispatchKeeps ==
    ASSUME Configured, RelayInv, NEW r \in Relays, R!Dispatch(r)
    PROVE  RelayInv'
<1>1. PICK p \in {"reply", "error"} :
          /\ relay' = R!To(r, p) /\ breakdowns' \in {breakdowns, breakdowns + 1}
          /\ breakdowns' \in 0 .. MaxBreakdowns
  <2>1. \/ relay' = R!To(r, "reply") /\ breakdowns' = breakdowns
        \/ relay' = R!To(r, "error") /\ R!Fault
    BY DEF R!Dispatch
  <2> QED BY <2>1, Faulted
<1>2. /\ relay[r].pc = "begin" /\ arrived' = arrived /\ confirmed' = confirmed /\ lock' = lock
      /\ file' = file /\ told' = told /\ overlap' = overlap
      /\ dispatches' = [dispatches EXCEPT ![R!Update(r)] = @ + 1]
  BY DEF R!Dispatch, R!At, R!telegram
<1>3. PICK f, g : f = relay[r] /\ g = [f EXCEPT !.pc = p]
  OBVIOUS
<1>4. /\ Good(f, told) /\ relay \in [Relays -> RelayType] /\ p \in Busy /\ p \in Serving /\ p \in R!Running
      /\ p \in Points /\ f.pc = "begin" /\ f.pc \in Serving /\ f.pc \in R!Running /\ f.pc \notin Busy
      /\ dispatches \in [1 .. Len(Kind) -> Nat] /\ told \subseteq 1 .. Len(Kind)
  BY <1>2, <1>3, Typed DEF RelayInv, Busy, Serving, Points, R!Running
<1>5. Good(g, told')
  BY <1>1, <1>2, <1>3, <1>4, OnItsWay
<1>6. f \in RelayType /\ g.pc = p /\ g.offset = f.offset /\ g.batch = f.batch
  BY <1>3, <1>4, Gone DEF Good
<1>7. Steps(r, g)
  BY <1>1, <1>3, <1>4 DEF Steps, R!To, RelayType
<1>8. PICK v : v = R!Update(r) /\ v = f.batch[1] /\ v \in 1 .. Len(Kind)
  BY <1>2, <1>3, <1>4, Handled
<1>9. f.offset <= v
  BY <1>4, <1>8 DEF Good
<1>10. dispatches' \in [1 .. Len(Kind) -> Nat]
  BY <1>2, <1>4, <1>8
<1>11. ASSUME NEW u \in 1 .. Len(Kind) PROVE NoMore(r, g, u)
  <2>1. CASE u = v
    <3>1. May(f, u) /\ ~May(g, u)
      BY <1>4, <1>6, <1>8, <1>9, <2>1 DEF May
    <3>2. dispatches'[u] = dispatches[u] + 1
      BY <1>2, <1>4, <1>8, <2>1
    <3> QED BY <1>1, <1>3, <1>4, <3>1, <3>2 DEF NoMore
  <2>2. CASE u # v
    <3>1. dispatches'[u] = dispatches[u]
      BY <1>2, <1>4, <1>8, <2>2
    <3>2. May(g, u) => May(f, u)
      BY <1>4, <1>6 DEF May
    <3> QED BY <1>1, <1>3, <3>1, <3>2 DEF NoMore
  <2> QED BY <2>1, <2>2
<1>12. /\ confirmed' \in 0 .. Len(Kind) /\ file' \in 0 .. Len(Kind) + 1
       /\ AllSafe(file', told') /\ AllSafe(confirmed' + 1, told')
  BY <1>2, Typed DEF RelayInv, Answered
<1> QED BY <1>1, <1>2, <1>3, <1>4, <1>5, <1>6, <1>7, <1>10, <1>11, <1>12, WorkKeeps

(* A relay lets its batch go for a fault, at an offset that is safe.       *)
LEMMA BreakKeeps ==
    ASSUME Configured, RelayInv, NEW r \in Relays, relay[r].pc \in Serving, NEW g,
           relay' = [relay EXCEPT ![r] = g], Good(g, told'), g.pc \in R!Running,
           told \subseteq told', told' \subseteq 1 .. Len(Kind), R!Fault,
           arrived' = arrived, confirmed' = confirmed, lock' = lock, file' = file, overlap' = overlap,
           dispatches' = dispatches
    PROVE  RelayInv'
<1>1. Steps(r, g) /\ relay[r].pc \in R!Running
  BY DEF Steps, Serving
<1>2. breakdowns' = breakdowns + 1 /\ breakdowns' \in 0 .. MaxBreakdowns
  BY Faulted
<1>3. \A u \in 1 .. Len(Kind) : NoMore(r, g, u)
  BY <1>2 DEF NoMore
<1>4. /\ confirmed' \in 0 .. Len(Kind) /\ file' \in 0 .. Len(Kind) + 1
      /\ dispatches' \in [1 .. Len(Kind) -> Nat]
      /\ AllSafe(file', told') /\ AllSafe(confirmed' + 1, told')
  <2>1. AllSafe(file, told) /\ AllSafe(confirmed + 1, told)
    BY DEF RelayInv, Answered
  <2> QED BY <2>1, MoreTold, Typed DEF RelayInv
<1> QED BY <1>1, <1>2, <1>3, <1>4, WorkKeeps

LEMMA SendErrorKeeps ==
    ASSUME Configured, RelayInv, NEW r \in Relays, R!SendError(r)
    PROVE  RelayInv'
<1>1. /\ relay[r].pc = "error" /\ arrived' = arrived /\ confirmed' = confirmed /\ lock' = lock
      /\ file' = file /\ dispatches' = dispatches /\ overlap' = overlap
  BY DEF R!SendError, R!At, R!telegram
<1>2. relay[r].pc \in Serving /\ "saveError" \in Busy
  BY <1>1 DEF Serving, Busy, R!Running
<1>3. R!Update(r) \in 1 .. Len(Kind) /\ told \subseteq 1 .. Len(Kind)
  BY <1>2, Handled
<1>4. CASE told' = told \cup {R!Update(r)} /\ relay' = R!To(r, "saveError") /\ breakdowns' = breakdowns
  <2>1. Safe(R!Update(r), told') /\ told \subseteq told' /\ told' \subseteq 1 .. Len(Kind)
        /\ breakdowns' \in 0 .. MaxBreakdowns
    BY <1>3, <1>4, Faulted DEF Safe
  <2> QED BY <1>1, <1>2, <1>4, <2>1, OnItsWayKeeps
<1>5. CASE /\ R!Fault /\ relay' = [relay EXCEPT ![r] = R!AfterError(@)]
           /\ told' = told \cup {R!Update(r)} \/ told' = told
  <2>1. told \subseteq told' /\ told' \subseteq 1 .. Len(Kind)
    BY <1>3, <1>5
  <2>2. PICK g : g = R!Break(relay[r])
    OBVIOUS
  <2>3. relay' = [relay EXCEPT ![r] = g]
    BY <1>5, <2>2 DEF R!AfterError
  <2>4. relay[r] \in RelayType /\ AllSafe(relay[r].offset, told')
    BY <2>1, MoreTold DEF RelayInv, Good
  <2>5. Good(g, told') /\ g.pc = "poll"
    BY <2>2, <2>4, Broken
  <2>6. g.pc \in R!Running
    BY <2>5 DEF R!Running
  <2> QED BY <1>1, <1>2, <1>5, <2>1, <2>3, <2>5, <2>6, BreakKeeps
<1> QED BY <1>4, <1>5 DEF R!SendError

(* The larger of two numbers, and the largest of three.                    *)
LEMMA Larger ==
    ASSUME NEW a \in Int, NEW b \in Int
    PROVE  R!Max({a, b}) = IF a >= b THEN a ELSE b
<1>1. PICK x : x = R!Max({a, b})
  OBVIOUS
<1>2. \E y \in {a, b} : \A z \in {a, b} : y >= z
  OBVIOUS
<1>3. x \in {a, b} /\ \A z \in {a, b} : x >= z
  BY <1>1, <1>2 DEF R!Max
<1> QED BY <1>1, <1>3

LEMMA LargestOfThree ==
    ASSUME NEW a \in Int, NEW b \in Int, NEW c \in Int
    PROVE  /\ R!Max({a, b, c}) \in {a, b, c}
           /\ R!Max({a, b, c}) >= a /\ R!Max({a, b, c}) >= b /\ R!Max({a, b, c}) >= c
<1>1. PICK x : x = R!Max({a, b, c})
  OBVIOUS
<1>2. \E y \in {a, b, c} : \A z \in {a, b, c} : y >= z
  <2>1. CASE a >= b /\ a >= c
    BY <2>1
  <2>2. CASE b >= a /\ b >= c
    BY <2>2
  <2>3. CASE c >= a /\ c >= b
    BY <2>3
  <2> QED BY <2>1, <2>2, <2>3
<1>3. x \in {a, b, c} /\ \A z \in {a, b, c} : x >= z
  BY <1>1, <1>2 DEF R!Max
<1> QED BY <1>1, <1>3

(* The offset moves past the update.                                       *)
LEMMA MovedPast ==
    ASSUME Configured, NEW T, NEW f, Good(f, T), f.pc \in {"save", "saveError"}
    PROVE  /\ R!Moved(f) = [f EXCEPT !.offset = f.batch[1] + 1]
           /\ f.batch[1] + 1 \in 0 .. Len(Kind) + 1 /\ AllSafe(f.batch[1] + 1, T) /\ Safe(f.batch[1], T)
           /\ f.batch[1] \in 1 .. Len(Kind) /\ f.offset <= f.batch[1] + 1 /\ f.offset \in Nat
<1>1. f.pc \in Serving
  BY DEF Serving, R!Running
<1>2. /\ Head(f.batch) = f.batch[1] /\ f.batch[1] \in 1 .. Len(Kind) /\ f.offset \in Nat /\ Len(Kind) \in Nat
  BY <1>1, HeadsUp, KindTyped
<1>3. AllSafe(f.batch[1], T) /\ f.offset <= f.batch[1] + 1 /\ Safe(f.batch[1], T)
  BY <1>1 DEF Good
<1>4. R!Max({f.offset, f.batch[1] + 1}) = f.batch[1] + 1
  <2>1. PICK m, n : m = f.offset /\ n = f.batch[1] + 1 /\ m \in Int /\ n \in Int /\ m <= n
    BY <1>2, <1>3
  <2>2. R!Max({m, n}) = IF m >= n THEN m ELSE n
    BY <2>1, Larger
  <2>3. R!Max({m, n}) = n
    BY <2>1, <2>2
  <2> QED BY <2>1, <2>3
<1>5. R!Moved(f) = [f EXCEPT !.offset = f.batch[1] + 1]
  BY <1>2, <1>4 DEF R!Moved
<1>6. AllSafe(f.batch[1] + 1, T)
  <2> SUFFICES ASSUME NEW u \in 1 .. Len(Kind), u < f.batch[1] + 1 PROVE Safe(u, T)
    BY DEF AllSafe
  <2>1. u < f.batch[1] \/ u = f.batch[1]
    BY <1>2
  <2> QED BY <1>3, <2>1 DEF AllSafe
<1> QED BY <1>2, <1>3, <1>5, <1>6

(* The same relay with its offset moved on, at error or at its next poll.  *)
LEMMA Onwards ==
    ASSUME NEW f \in RelayType, NEW m \in 0 .. Len(Kind) + 1, NEW g, g = [f EXCEPT !.offset = m]
    PROVE  g \in RelayType /\ g.offset = m /\ g.batch = f.batch /\ g.pc = f.pc
BY DEF RelayType

LEMMA SaveKeeps ==
    ASSUME Configured, RelayInv, NEW r \in Relays, R!Save(r)
    PROVE  RelayInv'
<1>1. /\ relay[r].pc \in {"save", "saveError"} /\ arrived' = arrived /\ confirmed' = confirmed /\ lock' = lock
      /\ dispatches' = dispatches /\ told' = told /\ overlap' = overlap
  BY DEF R!Save, R!telegram, R!history
<1>2. PICK f, h, m : f = relay[r] /\ h = R!Moved(f) /\ m = f.batch[1] + 1
  OBVIOUS
<1>3. /\ Good(f, told) /\ relay \in [Relays -> RelayType] /\ told \subseteq 1 .. Len(Kind)
      /\ f.pc \in Serving /\ f.pc \in R!Running /\ f \in RelayType
  BY <1>1, <1>2, Typed DEF RelayInv, Serving, R!Running, Good
<1>4. /\ h = [f EXCEPT !.offset = m] /\ m \in 0 .. Len(Kind) + 1 /\ AllSafe(m, told) /\ Safe(f.batch[1], told)
      /\ f.batch[1] \in 1 .. Len(Kind) /\ f.offset <= m /\ f.offset \in Nat
  BY <1>1, <1>2, <1>3, MovedPast
<1>5. h \in RelayType /\ h.offset = m /\ h.batch = f.batch /\ h.pc = f.pc
  BY <1>3, <1>4, Onwards
<1>6. confirmed' \in 0 .. Len(Kind) /\ dispatches' \in [1 .. Len(Kind) -> Nat] /\ AllSafe(confirmed' + 1, told')
      /\ file \in 0 .. Len(Kind) + 1 /\ AllSafe(file, told')
  BY <1>1, Typed DEF RelayInv, Answered
<1>7. CASE /\ file' = h.offset /\ breakdowns' = breakdowns
           /\ relay' = [relay EXCEPT ![r] = R!NextUpdate(h)]
  <2>1. PICK g : g = R!NextUpdate([f EXCEPT !.offset = m])
    OBVIOUS
  <2>2. Good(g, told) /\ g.pc \in {"begin", "poll"} /\ g.offset = m
    <3>1. m <= f.batch[1] + 1
      BY <1>2, <1>4
    <3> QED BY <1>3, <1>4, <2>1, <3>1, Left
  <2>3. Steps(r, g)
    BY <1>4, <1>7, <2>1 DEF Steps
  <2>4. ASSUME NEW u \in 1 .. Len(Kind) PROVE NoMore(r, g, u)
    <3>1. May(g, u) => May(f, u)
      <4> SUFFICES ASSUME May(g, u) PROVE f.offset <= u /\ f.batch[1] # u
        BY DEF May
      <4>1. m <= u
        BY <2>2 DEF May, R!Running
      <4> QED BY <1>2, <1>4, <4>1
    <3> QED BY <1>1, <1>2, <1>7, <3>1 DEF NoMore
  <2>5. file' \in 0 .. Len(Kind) + 1 /\ AllSafe(file', told') /\ Good(g, told') /\ breakdowns' \in 0 .. MaxBreakdowns
    BY <1>1, <1>4, <1>5, <1>7, <2>2, Faulted
  <2>6. g.pc \in R!Running
    BY <2>2 DEF R!Running
  <2> QED BY <1>1, <1>2, <1>3, <1>6, <2>3, <2>4, <2>5, <2>6, WorkKeeps
<1>8. CASE /\ R!Fault /\ file' = file
           /\ relay' = [relay EXCEPT ![r] = IF R!At(r, "save") THEN [h EXCEPT !.pc = "error"] ELSE R!Break(h)]
  <2>1. CASE R!At(r, "save")
    <3>1. PICK g : g = [h EXCEPT !.pc = "error"]
      OBVIOUS
    <3>2. g \in RelayType /\ g.pc = "error" /\ g.offset = m /\ g.batch = f.batch
      <4>1. "error" \in Points
        BY DEF Points, R!Running
      <4> QED BY <1>5, <3>1, <4>1, Gone
    <3>3. Good(g, told')
      BY <1>1, <1>2, <1>3, <1>4, <3>2 DEF Good
    <3>4. relay' = [relay EXCEPT ![r] = g]
      BY <1>8, <2>1, <3>1
    <3>5. g.pc \in R!Running
      BY <3>2 DEF R!Running
    <3> QED BY <1>1, <1>2, <1>3, <1>8, <3>3, <3>4, <3>5, BreakKeeps
  <2>2. CASE ~R!At(r, "save")
    <3>1. PICK g : g = R!Break(h)
      OBVIOUS
    <3>2. Good(g, told') /\ g.pc = "poll"
      <4>1. AllSafe(h.offset, told')
        BY <1>1, <1>4, <1>5
      <4> QED BY <1>5, <3>1, <4>1, Broken
    <3>3. relay' = [relay EXCEPT ![r] = g]
      BY <1>8, <2>2, <3>1
    <3>4. g.pc \in R!Running
      BY <3>2 DEF R!Running
    <3> QED BY <1>1, <1>2, <1>3, <1>8, <3>2, <3>3, <3>4, BreakKeeps
  <2> QED BY <2>1, <2>2
<1> QED BY <1>2, <1>7, <1>8 DEF R!Save

LEMMA PollKeeps ==
    ASSUME Configured, RelayInv, NEW r \in Relays, R!Poll(r)
    PROVE  RelayInv'
<1>1. PICK f, known, first, b :
         /\ f = relay[r] /\ known = R!Max({confirmed, f.offset - 1, 0}) /\ first = R!Max({known + 1, f.offset})
         /\ b = [i \in 1 .. (arrived - first + 1) |-> first + i - 1]
  OBVIOUS
<1>2. /\ f.pc = "poll" /\ confirmed' = (IF f.offset = 0 THEN confirmed ELSE known) /\ first <= arrived
      /\ relay' = [relay EXCEPT ![r].pc = "begin", ![r].batch = b]
      /\ arrived' = arrived /\ lock' = lock /\ file' = file /\ breakdowns' = breakdowns
      /\ dispatches' = dispatches /\ told' = told /\ overlap' = overlap
  BY <1>1 DEF R!Poll, R!At, R!history
<1>3. /\ Good(f, told) /\ relay \in [Relays -> RelayType] /\ f \in RelayType /\ f.offset \in 0 .. Len(Kind) + 1
      /\ AllSafe(f.offset, told) /\ AllSafe(confirmed + 1, told) /\ AllSafe(file, told)
      /\ told \subseteq 1 .. Len(Kind) /\ Len(Kind) \in Nat
      /\ arrived \in 0 .. Len(Kind) /\ confirmed \in 0 .. Len(Kind) /\ file \in 0 .. Len(Kind) + 1
      /\ dispatches \in [1 .. Len(Kind) -> Nat]
  BY <1>1, Typed, KindTyped DEF RelayInv, Good, Answered, RelayType
<1>4. /\ known \in {confirmed, f.offset - 1, 0} /\ known >= confirmed /\ known >= f.offset - 1 /\ known >= 0
  <2>1. PICK o, z : o = f.offset - 1 /\ o \in Int /\ confirmed \in Int /\ z = 0 /\ z \in Int
    BY <1>3
  <2>2. known = R!Max({confirmed, o, z})
    BY <1>1, <2>1
  <2>3. known \in {confirmed, o, z} /\ known >= confirmed /\ known >= o /\ known >= z
    <3>1. /\ R!Max({confirmed, o, z}) \in {confirmed, o, z} /\ R!Max({confirmed, o, z}) >= confirmed
          /\ R!Max({confirmed, o, z}) >= o /\ R!Max({confirmed, o, z}) >= z
      BY <2>1, LargestOfThree
    <3> QED BY <2>2, <3>1
  <2> QED BY <2>1, <2>3
<1>5. first = known + 1 /\ known \in 0 .. Len(Kind)
  <2>1. known \in 0 .. Len(Kind)
    BY <1>3, <1>4
  <2>2. first = IF known + 1 >= f.offset THEN known + 1 ELSE f.offset
    <3>1. PICK n : n = known + 1 /\ n \in Int /\ f.offset \in Int
      BY <1>3, <2>1
    <3>2. first = R!Max({n, f.offset})
      BY <1>1, <3>1
    <3> QED BY <3>1, <3>2, Larger
  <2> QED BY <1>3, <1>4, <2>1, <2>2
<1>6. AllSafe(known + 1, told)
  <2> SUFFICES ASSUME NEW u \in 1 .. Len(Kind), u < known + 1 PROVE Safe(u, told)
    BY DEF AllSafe
  <2>1. u < confirmed + 1 \/ u < f.offset
    BY <1>3, <1>4
  <2> QED BY <1>3, <2>1 DEF AllSafe
<1>7. b \in Seq(1 .. Len(Kind)) /\ b # <<>> /\ b[1] = first /\ Len(b) = arrived - first + 1
      /\ \A i \in 1 .. Len(b) : b[i] = first + i - 1
  <2>1. PICK n : n = arrived - first + 1 /\ n \in Nat /\ n >= 1 /\ first \in Nat /\ first >= 1 /\ n + first - 1 = arrived
    BY <1>2, <1>3, <1>5
  <2>2. b = [i \in 1 .. n |-> first + i - 1]
    BY <1>1, <2>1
  <2>3. \A i \in 1 .. n : first + i - 1 \in 1 .. Len(Kind)
    BY <1>3, <2>1
  <2>4. b \in [1 .. n -> 1 .. Len(Kind)]
    BY <2>2, <2>3
  <2>5. b \in Seq(1 .. Len(Kind)) /\ Len(b) = n
    BY <2>1, <2>4
  <2>6. b # <<>>
    BY <2>1, <2>5
  <2>7. \A i \in 1 .. n : b[i] = first + i - 1
    BY <2>2
  <2>8. b[1] = first
    BY <2>1, <2>7
  <2> QED BY <2>1, <2>5, <2>6, <2>7, <2>8
<1>8. PICK g : g = At(f, "begin", b)
  OBVIOUS
<1>9. g \in RelayType /\ g.pc = "begin" /\ g.offset = f.offset /\ g.batch = b
  <2>1. "begin" \in Points /\ b \in Batches
    BY <1>7 DEF Points, R!Running, Batches
  <2> QED BY <1>3, <1>8, <2>1, GoneWith
<1>10. Good(g, told')
  <2>1. f.offset <= first /\ f.offset <= first + 1 /\ first \in Nat
    BY <1>3, <1>4, <1>5
  <2>2. AllSafe(first, told)
    BY <1>5, <1>6
  <2> QED BY <1>2, <1>3, <1>7, <1>9, <2>1, <2>2 DEF Good
<1>11. Steps(r, g)
  BY <1>1, <1>2, <1>3, <1>8 DEF Steps, At
<1>12. ASSUME NEW u \in 1 .. Len(Kind) PROVE NoMore(r, g, u)
  <2>1. May(g, u) => May(f, u)
    BY <1>2, <1>9 DEF May, R!Running, Busy
  <2> QED BY <1>1, <1>2, <2>1 DEF NoMore
<1>13. confirmed' \in 0 .. Len(Kind) /\ AllSafe(confirmed' + 1, told')
  BY <1>2, <1>3, <1>5, <1>6
<1>14. relay[r].pc \in R!Running /\ g.pc \in R!Running /\ breakdowns' \in 0 .. MaxBreakdowns
  BY <1>1, <1>2, <1>9, Faulted DEF R!Running
<1> QED BY <1>2, <1>3, <1>10, <1>11, <1>12, <1>13, <1>14, WorkKeeps

(* A relay that starts, or ends, at a safe offset.                         *)
LEMMA StartKeeps ==
    ASSUME Configured, RelayInv, NEW r \in Relays, NEW g \in RelayType, AllSafe(g.offset, told),
           relay' = [relay EXCEPT ![r] = g], g.pc \notin Serving,
           g.pc \in R!Running => relay[r].pc \in R!Starting,
           (relay[r].pc \in {"down"} \cup R!Starting /\ breakdowns' = breakdowns) \/ R!Fault,
           arrived' = arrived, confirmed' = confirmed, file' = file, dispatches' = dispatches, told' = told,
           lock' \in Relays \cup {None, "empty"}, overlap' \in BOOLEAN, overlap => overlap', LockHolds'
    PROVE  RelayInv'
<1>1. Steps(r, g)
  BY DEF Steps
<1>2. Good(g, told')
  <2>1. g.pc \notin {"save", "saveError"}
    BY DEF Serving, R!Running
  <2> QED BY <2>1 DEF Good
<1>3. breakdowns' \in 0 .. MaxBreakdowns
  BY Faulted
<1>4. ASSUME NEW u \in 1 .. Len(Kind) PROVE NoMore(r, g, u)
  <2>1. CASE R!Fault
    BY <2>1, Faulted DEF NoMore
  <2>2. CASE relay[r].pc \in {"down"} \cup R!Starting /\ breakdowns' = breakdowns
    <3>1. May(relay[r], u)
      BY <2>2 DEF May, R!Starting, R!Running
    <3> QED BY <2>2, <3>1 DEF NoMore
  <2> QED BY <2>1, <2>2
<1>5. /\ confirmed' \in 0 .. Len(Kind) /\ file' \in 0 .. Len(Kind) + 1
      /\ AllSafe(file', told') /\ AllSafe(confirmed' + 1, told') /\ dispatches' \in [1 .. Len(Kind) -> Nat]
      /\ told \subseteq told' /\ told' \subseteq 1 .. Len(Kind)
  BY Typed DEF RelayInv, Answered
<1> QED BY <1>1, <1>2, <1>3, <1>4, <1>5, StepKeeps

LEMMA DownTyped == Configured => R!Down \in RelayType /\ AllSafe(R!Down.offset, told) /\ R!Down.pc = "down"
<1> SUFFICES ASSUME Configured PROVE R!Down \in RelayType /\ AllSafe(R!Down.offset, told) /\ R!Down.pc = "down"
  OBVIOUS
<1>1. PICK d : d = R!Down
  OBVIOUS
<1>2. d = [pc |-> "down", offset |-> 0, batch |-> <<>>] /\ d.pc = "down" /\ d.offset = 0
  BY <1>1 DEF R!Down
<1>3. d \in RelayType
  BY <1>2, KindTyped DEF RelayType, Points
<1>4. AllSafe(d.offset, told)
  BY <1>2, KindTyped DEF AllSafe
<1> QED BY <1>1, <1>2, <1>3, <1>4

LEMMA OpenKeeps ==
    ASSUME Configured, RelayInv, NEW r \in Relays, R!Open(r)
    PROVE  RelayInv'
<1>1. /\ relay[r].pc = "down" /\ lock # r
      /\ overlap' = (overlap \/ \E s \in Relays \ {r} : relay[s].pc \in R!Starting)
      /\ arrived' = arrived /\ confirmed' = confirmed /\ file' = file /\ breakdowns' = breakdowns
      /\ dispatches' = dispatches /\ told' = told
  BY DEF R!Open, R!At, R!telegram, R!history
<1>2. PICK p : /\ relay' = R!To(r, p)
               /\ \/ p = "wrote" /\ lock = None /\ lock' = "empty"
                  \/ p = "inspect" /\ lock' = lock
  BY DEF R!Open
<1>3. PICK g : g = [relay[r] EXCEPT !.pc = p]
  OBVIOUS
<1>4. /\ relay \in [Relays -> RelayType] /\ relay[r] \in RelayType /\ AllSafe(relay[r].offset, told)
      /\ lock \in Relays \cup {None, "empty"} /\ overlap \in BOOLEAN /\ None \notin Relays /\ LockHolds
  BY Typed DEF RelayInv, Good, Configured
<1>5. g \in RelayType /\ g.pc = p /\ g.offset = relay[r].offset
  <2>1. p \in Points
    BY <1>2 DEF Points, R!Starting
  <2> QED BY <1>3, <1>4, <2>1, Gone
<1>6. relay' = [relay EXCEPT ![r] = g]
  BY <1>2, <1>3, <1>4 DEF R!To, RelayType
<1>7. g.pc \notin Serving /\ g.pc \notin R!Running /\ p \in R!Starting
  BY <1>2, <1>5 DEF Serving, R!Starting, R!Running
<1>8. relay'[r].pc = p /\ \A s \in Relays \ {r} : relay'[s] = relay[s]
  BY <1>4, <1>5, <1>6
<1>9. LockHolds'
  <2> SUFFICES ASSUME ~overlap'
               PROVE  /\ \A s, t \in Relays : relay'[s].pc \in R!Starting /\ relay'[t].pc \in R!Starting => s = t
                      /\ \A s \in Relays : relay'[s].pc \in R!Running => lock' = s
                      /\ \A s, t \in Relays : relay'[t].pc \in {"wrote", "overwrite"} => relay'[s].pc \notin R!Running
    BY DEF LockHolds, R!Starting, R!Running
  <2>1. ~overlap /\ \A s \in Relays \ {r} : relay[s].pc \notin R!Starting
    BY <1>1
  <2>2. \A s \in Relays : relay[s].pc \in R!Running => lock = s
    BY <1>4, <2>1 DEF LockHolds
  <2>3. \A s \in Relays \ {r} : relay'[s].pc \notin R!Starting
    BY <1>8, <2>1
  <2>4. \A s \in Relays : relay'[s].pc \in R!Running => s # r /\ relay[s].pc \in R!Running
    BY <1>5, <1>7, <1>8
  <2>5. \A s \in Relays : relay'[s].pc \in R!Running => lock' = s /\ p # "wrote"
    BY <1>2, <1>4, <2>2, <2>4
  <2>6. \A t \in Relays : relay'[t].pc \in {"wrote", "overwrite"} => t = r /\ p = "wrote"
    BY <1>2, <1>8, <2>3 DEF R!Starting
  <2> QED BY <2>3, <2>5, <2>6
<1>10. /\ lock' \in Relays \cup {None, "empty"} /\ overlap' \in BOOLEAN /\ (overlap => overlap')
       /\ relay[r].pc \in {"down"} \cup R!Starting
  BY <1>1, <1>2, <1>4
<1>11. /\ AllSafe(g.offset, told) /\ breakdowns' = breakdowns /\ arrived' = arrived /\ confirmed' = confirmed
       /\ file' = file /\ dispatches' = dispatches /\ told' = told
  BY <1>1, <1>4, <1>5
<1> QED BY <1>5, <1>6, <1>7, <1>9, <1>10, <1>11, StartKeeps

(* A relay takes the lock that it alone is after, and goes to work.        *)
LEMMA TakesLock ==
    ASSUME Configured, RelayInv, NEW r \in Relays, R!WriteLock(r) \/ R!Overwrite(r)
    PROVE  RelayInv'
<1>1. /\ relay[r].pc \in {"wrote", "overwrite"} /\ lock' = r /\ relay' = R!Loaded(r)
      /\ arrived' = arrived /\ confirmed' = confirmed /\ file' = file /\ breakdowns' = breakdowns
      /\ dispatches' = dispatches /\ told' = told /\ overlap' = overlap
  BY DEF R!WriteLock, R!Overwrite, R!At, R!telegram, R!history
<1>2. PICK g : g = [pc |-> "poll", offset |-> file, batch |-> <<>>]
  OBVIOUS
<1>3. /\ relay \in [Relays -> RelayType] /\ file \in 0 .. Len(Kind) + 1 /\ AllSafe(file, told)
      /\ overlap \in BOOLEAN /\ LockHolds
  BY Typed DEF RelayInv, Answered
<1>4. g \in RelayType /\ g.pc = "poll" /\ g.offset = file
  BY <1>2, <1>3 DEF RelayType, Points, R!Running
<1>5. relay' = [relay EXCEPT ![r] = g] /\ relay[r].pc \in R!Starting
  BY <1>1, <1>2 DEF R!Loaded, R!Starting
<1>6. relay'[r].pc = "poll" /\ \A s \in Relays \ {r} : relay'[s] = relay[s]
  BY <1>3, <1>4, <1>5
<1>7. LockHolds'
  <2> SUFFICES ASSUME ~overlap'
               PROVE  /\ \A s, t \in Relays : relay'[s].pc \in R!Starting /\ relay'[t].pc \in R!Starting => s = t
                      /\ \A s \in Relays : relay'[s].pc \in R!Running => lock' = s
                      /\ \A s, t \in Relays : relay'[t].pc \in {"wrote", "overwrite"} => relay'[s].pc \notin R!Running
    BY DEF LockHolds, R!Starting, R!Running
  <2>1. \A s \in Relays \ {r} : relay'[s].pc \notin R!Starting /\ relay'[s].pc \notin R!Running
    <3>1. ~overlap
      BY <1>1
    <3>2. \A s \in Relays \ {r} : relay[s].pc \notin R!Starting /\ relay[s].pc \notin R!Running
      BY <1>1, <1>3, <1>5, <3>1 DEF LockHolds
    <3> QED BY <1>6, <3>2
  <2>2. relay'[r].pc \notin R!Starting
    BY <1>6 DEF R!Starting
  <2>3. \A t \in Relays : relay'[t].pc \notin R!Starting
    BY <2>1, <2>2
  <2>4. \A t \in Relays : relay'[t].pc \notin {"wrote", "overwrite"}
    BY <2>3 DEF R!Starting
  <2> QED BY <1>1, <2>1, <2>3, <2>4
<1>8. g.pc \notin Serving
  BY <1>4 DEF Serving, R!Running
<1> QED BY <1>1, <1>3, <1>4, <1>5, <1>7, <1>8, StartKeeps

LEMMA InspectKeeps ==
    ASSUME Configured, RelayInv, NEW r \in Relays, R!Inspect(r)
    PROVE  RelayInv'
<1>1. /\ relay[r].pc = "inspect" /\ lock' = lock
      /\ arrived' = arrived /\ confirmed' = confirmed /\ file' = file /\ breakdowns' = breakdowns
      /\ dispatches' = dispatches /\ told' = told /\ overlap' = overlap
      /\ relay' = IF R!Alive(lock) THEN [relay EXCEPT ![r] = R!Down] ELSE R!To(r, "overwrite")
  BY DEF R!Inspect, R!At, R!telegram, R!history
<1>2. PICK g : g = IF R!Alive(lock) THEN R!Down ELSE [relay[r] EXCEPT !.pc = "overwrite"]
  OBVIOUS
<1>3. /\ relay \in [Relays -> RelayType] /\ relay[r] \in RelayType /\ AllSafe(relay[r].offset, told)
      /\ lock \in Relays \cup {None, "empty"} /\ overlap \in BOOLEAN /\ LockHolds
  BY Typed DEF RelayInv, Good
<1>4. /\ g \in RelayType /\ AllSafe(g.offset, told)
      /\ g.pc = "down" \/ (g.pc = "overwrite" /\ ~R!Alive(lock))
  <2>1. CASE R!Alive(lock)
    <3>1. g = R!Down
      BY <1>2, <2>1
    <3> QED BY <3>1, DownTyped
  <2>2. CASE ~R!Alive(lock)
    <3>1. g = [relay[r] EXCEPT !.pc = "overwrite"] /\ "overwrite" \in Points
      BY <1>2, <2>2 DEF Points, R!Starting
    <3>2. g \in RelayType /\ g.pc = "overwrite" /\ g.offset = relay[r].offset
      BY <1>3, <3>1, Gone
    <3> QED BY <1>3, <2>2, <3>2
  <2> QED BY <2>1, <2>2
<1>5. relay' = [relay EXCEPT ![r] = g]
  BY <1>1, <1>2, <1>3 DEF R!To, RelayType
<1>6. relay'[r] = g /\ \A s \in Relays \ {r} : relay'[s] = relay[s]
  BY <1>3, <1>5
<1>7. LockHolds'
  <2> SUFFICES ASSUME ~overlap'
               PROVE  /\ \A s, t \in Relays : relay'[s].pc \in R!Starting /\ relay'[t].pc \in R!Starting => s = t
                      /\ \A s \in Relays : relay'[s].pc \in R!Running => lock' = s
                      /\ \A s, t \in Relays : relay'[t].pc \in {"wrote", "overwrite"} => relay'[s].pc \notin R!Running
    BY DEF LockHolds, R!Starting, R!Running
  <2>1. ~overlap /\ relay[r].pc \in R!Starting
    BY <1>1 DEF R!Starting
  <2>2. \A s \in Relays \ {r} : relay'[s].pc \notin R!Starting
    BY <1>3, <1>6, <2>1 DEF LockHolds
  <2>3. g.pc \notin R!Running
    BY <1>4 DEF R!Running
  <2>4. \A s \in Relays : relay'[s].pc \in R!Running => lock = s /\ relay[s].pc # "down"
    <3>1. \A s \in Relays \ {r} : relay[s].pc \in R!Running => lock = s /\ relay[s].pc # "down"
      BY <1>3, <2>1 DEF LockHolds, R!Running
    <3> QED BY <1>6, <2>3, <3>1
  <2>5. \A s \in Relays : relay'[s].pc \in R!Running => R!Alive(lock)
    BY <2>4 DEF R!Alive
  <2>6. \A t \in Relays : relay'[t].pc \in {"wrote", "overwrite"} => t = r /\ ~R!Alive(lock)
    BY <1>4, <1>6, <2>2 DEF R!Starting
  <2> QED BY <1>1, <2>2, <2>4, <2>5, <2>6
<1>8. g.pc \notin Serving /\ g.pc \notin R!Running /\ relay[r].pc \in {"down"} \cup R!Starting
  BY <1>1, <1>4 DEF Serving, R!Running, R!Starting
<1> QED BY <1>1, <1>3, <1>4, <1>5, <1>7, <1>8, StartKeeps

LEMMA EndKeeps ==
    ASSUME Configured, RelayInv, NEW r \in Relays, R!Stop(r) \/ R!Crash(r)
    PROVE  RelayInv'
<1>1. /\ R!Fault /\ relay' = [relay EXCEPT ![r] = R!Down]
      /\ arrived' = arrived /\ confirmed' = confirmed /\ file' = file
      /\ dispatches' = dispatches /\ told' = told /\ overlap' = overlap
      /\ lock' = lock \/ (lock = r /\ lock' = None)
  BY DEF R!Stop, R!Crash, R!telegram, R!history
<1>2. PICK g : g = R!Down
  OBVIOUS
<1>3. g \in RelayType /\ AllSafe(g.offset, told) /\ g.pc = "down"
  BY <1>2, DownTyped
<1>4. /\ relay \in [Relays -> RelayType] /\ lock \in Relays \cup {None, "empty"} /\ overlap \in BOOLEAN /\ LockHolds
  BY Typed DEF RelayInv
<1>5. relay' = [relay EXCEPT ![r] = g]
  BY <1>1, <1>2
<1>6. relay'[r].pc = "down" /\ \A s \in Relays \ {r} : relay'[s] = relay[s]
  BY <1>3, <1>4, <1>5
<1>7. \A s \in Relays : relay'[s].pc \in R!Starting \cup R!Running => s # r /\ relay'[s] = relay[s]
  BY <1>6 DEF R!Starting, R!Running
<1>8. LockHolds'
  <2> SUFFICES ASSUME ~overlap'
               PROVE  /\ \A s, t \in Relays : relay'[s].pc \in R!Starting /\ relay'[t].pc \in R!Starting => s = t
                      /\ \A s \in Relays : relay'[s].pc \in R!Running => lock' = s
                      /\ \A s, t \in Relays : relay'[t].pc \in {"wrote", "overwrite"} => relay'[s].pc \notin R!Running
    BY DEF LockHolds, R!Starting, R!Running
  <2>1. ~overlap
    BY <1>1
  <2>2. \A s, t \in Relays : relay'[s].pc \in R!Starting /\ relay'[t].pc \in R!Starting => s = t
    BY <1>4, <1>7, <2>1 DEF LockHolds
  <2>3. \A s \in Relays : relay'[s].pc \in R!Running => lock' = s
    BY <1>1, <1>4, <1>7, <2>1 DEF LockHolds
  <2>4. \A s, t \in Relays : relay'[t].pc \in {"wrote", "overwrite"} => relay'[s].pc \notin R!Running
    <3> SUFFICES ASSUME NEW s \in Relays, NEW t \in Relays, relay'[t].pc \in {"wrote", "overwrite"},
                        relay'[s].pc \in R!Running
                 PROVE  FALSE
      OBVIOUS
    <3>1. relay'[s] = relay[s] /\ relay'[t] = relay[t]
      BY <1>7 DEF R!Starting
    <3> QED BY <1>4, <2>1, <3>1 DEF LockHolds
  <2> QED BY <2>2, <2>3, <2>4
<1>9. g.pc \notin Serving /\ g.pc \notin R!Running
  BY <1>3 DEF Serving, R!Running
<1>10. lock' \in Relays \cup {None, "empty"} /\ overlap' \in BOOLEAN
  BY <1>1, <1>4
<1> QED BY <1>1, <1>3, <1>5, <1>8, <1>9, <1>10, StartKeeps

(* Another update comes in.                                                *)
LEMMA ArriveKeeps ==
    ASSUME Configured, RelayInv, R!Arrive
    PROVE  RelayInv'
<1>1. /\ arrived < Len(Kind) /\ arrived' = arrived + 1 /\ confirmed' = confirmed /\ lock' = lock /\ file' = file
      /\ relay' = relay /\ breakdowns' = breakdowns /\ dispatches' = dispatches /\ told' = told /\ overlap' = overlap
  BY DEF R!Arrive, R!history
<1>2. R!TypeOK'
  <2>1. arrived' \in 0 .. Len(Kind)
    BY <1>1, KindTyped, Typed DEF RelayInv
  <2> QED BY <1>1, <2>1 DEF RelayInv, R!TypeOK
<1>3. /\ Answered' /\ LockHolds' /\ \A s \in Relays : Good(relay[s], told)'
      /\ \A u \in 1 .. Len(Kind) : Counted(u)' /\ OneCounted(u)'
  BY <1>1 DEF RelayInv, Answered, LockHolds, Good, AllSafe, Safe, Counted, OneCounted, Those, May
<1> QED BY <1>2, <1>3 DEF RelayInv

LEMMA RelayStep == Configured /\ RelayInv /\ [R!Next]_(R!vars) => RelayInv'
<1> SUFFICES ASSUME Configured, RelayInv, [R!Next]_(R!vars) PROVE RelayInv'
  OBVIOUS
<1>1. CASE R!Arrive
  BY <1>1, ArriveKeeps
<1>2. ASSUME NEW r \in Relays, R!Start(r) PROVE RelayInv'
  BY <1>2, OpenKeeps, TakesLock, InspectKeeps DEF R!Start
<1>3. ASSUME NEW r \in Relays, R!Work(r) PROVE RelayInv'
  BY <1>3, PollKeeps, BeginKeeps, DispatchKeeps, SendAnswerKeeps, JobPolledKeeps, SendErrorKeeps, SaveKeeps DEF R!Work
<1>4. ASSUME NEW r \in Relays, R!RequestFails(r) \/ R!Stop(r) \/ R!Crash(r) PROVE RelayInv'
  BY <1>4, RequestFailsKeeps, EndKeeps
<1>5. CASE UNCHANGED R!vars
  <2>1. /\ arrived' = arrived /\ confirmed' = confirmed /\ lock' = lock /\ file' = file /\ relay' = relay
        /\ breakdowns' = breakdowns /\ dispatches' = dispatches /\ told' = told /\ overlap' = overlap
    BY <1>5 DEF R!vars
  <2>2. R!TypeOK'
    BY <2>1 DEF RelayInv, R!TypeOK
  <2>3. /\ Answered' /\ LockHolds' /\ \A s \in Relays : Good(relay[s], told)'
        /\ \A u \in 1 .. Len(Kind) : Counted(u)' /\ OneCounted(u)'
    BY <2>1 DEF RelayInv, Answered, LockHolds, Good, AllSafe, Safe, Counted, OneCounted, Those, May
  <2> QED BY <2>2, <2>3 DEF RelayInv
<1> QED BY <1>1, <1>2, <1>3, <1>4, <1>5 DEF R!Next

LEMMA RelayShown ==
    ASSUME Configured, RelayInv
    PROVE  R!NoUpdateLost /\ R!RelaysRepeatOnFaults
<1>0. /\ Len(Kind) \in Nat /\ R!Updates = 1 .. Len(Kind) /\ Cardinality(Relays) \in Nat /\ IsFiniteSet(Relays)
      /\ confirmed \in Nat /\ file \in Nat /\ breakdowns \in Nat /\ dispatches \in [1 .. Len(Kind) -> Nat]
      /\ relay \in [Relays -> RelayType] /\ overlap \in BOOLEAN
  BY KindTyped, Typed DEF RelayInv, Configured
<1>1. R!NoUpdateLost
  <2> SUFFICES ASSUME NEW u \in 1 .. Len(Kind), R!Passed(u) \/ u <= confirmed PROVE Safe(u, told)
    BY <1>0 DEF R!NoUpdateLost, Safe
  <2>1. CASE u < file
    BY <2>1 DEF RelayInv, Answered, AllSafe
  <2>2. CASE u <= confirmed
    <3>1. u < confirmed + 1
      BY <1>0, <2>2
    <3> QED BY <3>1 DEF RelayInv, Answered, AllSafe
  <2>3. ASSUME NEW r \in Relays, u < relay[r].offset PROVE Safe(u, told)
    BY <2>3 DEF RelayInv, Good, AllSafe
  <2> QED BY <2>1, <2>2, <2>3 DEF R!Passed
<1>2. R!DispatchesNeedFaults
  <2>1. R!Cardinality(Relays) = Cardinality(Relays)
    BY DEF R!Cardinality, Cardinality
  <2> SUFFICES ASSUME NEW u \in 1 .. Len(Kind)
               PROVE  dispatches[u] <= breakdowns + (IF overlap THEN Cardinality(Relays) ELSE 1)
    BY <1>0, <2>1 DEF R!DispatchesNeedFaults
  <2>2. dispatches[u] \in Nat
    BY <1>0
  <2>3. CASE overlap
    <3>1. Cardinality(Those(u)) \in Nat
      <4>1. Those(u) \subseteq Relays
        BY DEF Those
      <4> QED BY <1>0, <4>1, FS_Subset, FS_CardinalityType
    <3>2. dispatches[u] + Cardinality(Those(u)) <= breakdowns + Cardinality(Relays)
      BY DEF RelayInv, Counted
    <3> QED BY <1>0, <2>2, <2>3, <3>1, <3>2
  <2>4. CASE ~overlap
    <3>1. PICK n : n = (IF \E r \in Relays : ~May(relay[r], u) THEN 0 ELSE 1) /\ n \in {0, 1}
      OBVIOUS
    <3>2. dispatches[u] + n <= breakdowns + 1
      BY <2>4, <3>1 DEF RelayInv, OneCounted
    <3> QED BY <1>0, <2>2, <2>4, <3>1, <3>2
  <2> QED BY <1>0, <2>3, <2>4
<1>3. R!OneRelay
  <2> SUFFICES ASSUME ~overlap PROVE ~(R!Cardinality(R!Up) > 1)
    BY DEF R!OneRelay
  <2>1. R!Cardinality(R!Up) = Cardinality(R!Up)
    BY DEF R!Cardinality, Cardinality
  <2>2. R!Up \subseteq {lock}
    BY DEF R!Up, RelayInv, LockHolds
  <2>3. IsFiniteSet({lock}) /\ Cardinality({lock}) = 1
    BY FS_Singleton
  <2>4. Cardinality(R!Up) <= 1 /\ Cardinality(R!Up) \in Nat
    BY <2>2, <2>3, FS_Subset, FS_CardinalityType
  <2> QED BY <2>1, <2>4
<1> QED BY <1>1, <1>2, <1>3 DEF R!RelaysRepeatOnFaults, RelayInv

(* Whatever relays run, crash, stop or start over one another, an update   *)
(* that the offset or Telegram has left behind was answered, with its      *)
(* answer or an error, or is one to ignore; it is dispatched once more     *)
(* only for a failed request or save, a death, or two relays that started  *)
(* at once; and without such a start one relay runs at a time.             *)
THEOREM RelaysKeepUpdates ==
    ASSUME R!RelayAssumption, IsFiniteSet(Relays)
    PROVE  R!Spec => [](R!NoUpdateLost /\ R!RelaysRepeatOnFaults)
<1>0. Configured
  BY DEF R!RelayAssumption, Configured
<1>1. R!Init => RelayInv
  BY <1>0, RelayBegins
<1>2. RelayInv /\ [R!Next]_(R!vars) => RelayInv'
  BY <1>0, RelayStep
<1>3. RelayInv => R!NoUpdateLost /\ R!RelaysRepeatOnFaults
  BY <1>0, RelayShown
<1> QED BY <1>1, <1>2, <1>3, PTL DEF R!Spec
-----------------------------------------------------------------------------
(* ExecuteStream: what a stream leaves on record.                          *)

CONSTANTS StallAbort, DrainTimeout, MaxUnwritten
VARIABLES at, frame, terminal, aborted, ended, gap, result, log, unwritten

S == INSTANCE ExecuteStream

Frames  == {"start", "result", "complete", "error"}
Types   == {"stream_start", "stream_complete", "stream_error", "stream_partial_failure",
            "client_disconnect", "backpressure"}
Reasons == {"request_accepted", "result_emitted", "agent_execute_rejected", "stream_stall_timeout",
            "frame_too_large", "write_failed", "stream_execution_failed", "drain_timeout", "aborted",
            "response_buffer_full", "response_closed", "written"}
Entry   == [kind : {"receipt", "frame"}, what : Types \cup Frames, reason : Reasons]

Partial(e) == e.what = "stream_partial_failure"
Failure(e) == e.what \in {"stream_partial_failure", "client_disconnect"}
Stalled    == S!PartialFailure("stream_stall_timeout")
Clean(l)   == \A i \in DOMAIN l : ~ Failure(l[i])
ResultOut(l) == \E i \in DOMAIN l : l[i] = S!Frame("result")

InOrder(l) ==
    \A i \in DOMAIN l :
        /\ l[i].what = "stream_complete" => \E j \in 1 .. i - 1 : l[j] = S!Frame("result")
        /\ l[i] = S!Gone => \A j \in i + 1 .. Len(l) : Partial(l[j])
ToldOnce(l) ==
    \A i, j \in DOMAIN l : i < j /\ Failure(l[i]) /\ Failure(l[j]) => l[i] \in {S!Gone, Stalled}
LateStalls(l) ==
    ResultOut(l) => \A j \in DOMAIN l : Partial(l[j]) => l[j] = Stalled
Sound(l) == InOrder(l) /\ ToldOnce(l) /\ LateStalls(l)

(* As long as the stream is open and the client there, nothing is called a *)
(* failure; what is told last goes with where the handler stands.          *)
Told(type) == S!Told(type)
StreamInv ==
    /\ S!TypeOK /\ log \in Seq(Entry) /\ Sound(log)
    /\ at # "over" /\ ~ aborted => Clean(log)
    /\ aborted => at \in {"running", "over"}
    /\ at = "running" => frame = "start"
    /\ at # "over" /\ frame = "start" => result = "none"
    /\ ResultOut(log) => frame = "complete"
    /\ unwritten = 0 =>
          /\ frame = "complete" => Told("stream_complete")
          /\ frame = "error" => Told("stream_error")
          /\ aborted /\ at = "running" => Told("client_disconnect")
          /\ at = "over" /\ result # "none" => \E type \in S!Closing : Told(type)

LEMMA EntriesAre ==
    /\ \A t \in Types, r \in Reasons : S!Receipt(t, r) \in Entry
    /\ \A f \in Frames : S!Frame(f) \in Entry /\ ~ Failure(S!Frame(f)) /\ S!Frame(f).kind = "frame"
    /\ \A f \in Frames : S!Frame(f).what = f
    /\ \A t, r : S!Receipt(t, r).what = t /\ S!Receipt(t, r).kind = "receipt" /\ S!Receipt(t, r).reason = r
    /\ \A r : S!PartialFailure(r) = S!Receipt("stream_partial_failure", r)
    /\ Partial(Stalled) /\ Failure(Stalled) /\ Failure(S!Gone) /\ ~ Partial(S!Gone)
    /\ S!Gone = S!Receipt("client_disconnect", "response_closed") /\ Stalled \in Entry /\ S!Gone \in Entry
    /\ \A f \in Frames : f \notin Types
  BY DEF S!Receipt, S!Frame, Entry, Failure, Partial, Stalled, S!PartialFailure, S!Gone, Types, Frames, Reasons

(* What is put behind a log without failures.                              *)
LEMMA Lengthened ==
    ASSUME NEW l \in Seq(Entry), NEW k \in Seq(Entry), Clean(l), InOrder(l), Sound(k),
           ResultOut(l) => \A j \in DOMAIN k : Partial(k[j]) => k[j] = Stalled
    PROVE  /\ l \o k \in Seq(Entry) /\ Sound(l \o k)
           /\ ResultOut(l \o k) <=> ResultOut(l) \/ ResultOut(k)
           /\ Clean(k) => Clean(l \o k)
<1>1. PICK m : m = l \o k
  OBVIOUS
<1>0. m \in Seq(Entry)
  BY <1>1
<1>2. /\ Len(m) = Len(l) + Len(k) /\ DOMAIN m = 1 .. Len(m)
      /\ \A i \in 1 .. Len(l) : m[i] = l[i]
      /\ \A i \in 1 .. Len(k) : m[Len(l) + i] = k[i]
  BY <1>1
<1>3. /\ DOMAIN l = 1 .. Len(l) /\ DOMAIN k = 1 .. Len(k) /\ Len(l) \in Nat /\ Len(k) \in Nat
  OBVIOUS
<1>4. ASSUME NEW i \in DOMAIN m
      PROVE  \/ i \in DOMAIN l /\ m[i] = l[i] /\ ~ Failure(m[i])
             \/ i - Len(l) \in DOMAIN k /\ m[i] = k[i - Len(l)] /\ i > Len(l)
  <2>1. CASE i <= Len(l)
    <3>1. i \in DOMAIN l /\ m[i] = l[i]
      BY <1>2, <1>3, <2>1
    <3> QED BY <3>1 DEF Clean
  <2>2. CASE i > Len(l)
    <3>1. i - Len(l) \in DOMAIN k /\ Len(l) + (i - Len(l)) = i
      BY <1>2, <1>3, <2>2
    <3> QED BY <1>2, <1>3, <2>2, <3>1
  <2> QED BY <1>2, <1>3, <2>1, <2>2
<1>5. ResultOut(m) <=> ResultOut(l) \/ ResultOut(k)
  <2>1. ResultOut(m) => ResultOut(l) \/ ResultOut(k)
    BY <1>4 DEF ResultOut
  <2>2. ResultOut(l) => ResultOut(m)
    BY <1>2, <1>3 DEF ResultOut
  <2>3. ASSUME ResultOut(k) PROVE ResultOut(m)
    <3>1. PICK i \in DOMAIN k : k[i] = S!Frame("result")
      BY <2>3 DEF ResultOut
    <3>2. Len(l) + i \in DOMAIN m /\ m[Len(l) + i] = k[i]
      BY <1>2, <1>3
    <3> QED BY <3>1, <3>2 DEF ResultOut
  <2> QED BY <2>1, <2>2, <2>3
<1>6. ASSUME NEW i \in DOMAIN m, m[i].what = "stream_complete"
      PROVE  \E j \in 1 .. i - 1 : m[j] = S!Frame("result")
  <2>1. CASE i \in DOMAIN l /\ m[i] = l[i]
    <3>1. PICK j \in 1 .. i - 1 : l[j] = S!Frame("result")
      BY <1>6, <2>1 DEF InOrder
    <3>2. m[j] = l[j]
      BY <1>2, <1>3, <2>1
    <3> QED BY <3>1, <3>2
  <2>2. CASE i - Len(l) \in DOMAIN k /\ m[i] = k[i - Len(l)]
    <3>1. PICK j \in 1 .. (i - Len(l)) - 1 : k[j] = S!Frame("result")
      BY <1>6, <2>2 DEF Sound, InOrder
    <3>2. j \in 1 .. Len(k) /\ Len(l) + j \in 1 .. i - 1
      BY <1>2, <1>3, <2>2
    <3>3. m[Len(l) + j] = k[j]
      BY <1>2, <3>2
    <3> QED BY <3>1, <3>2, <3>3
  <2> QED BY <1>4, <2>1, <2>2
<1>7. ASSUME NEW i \in DOMAIN m, m[i] = S!Gone, NEW j \in i + 1 .. Len(m) PROVE Partial(m[j])
  <2>1. i - Len(l) \in DOMAIN k /\ m[i] = k[i - Len(l)]
    BY <1>4, <1>7, EntriesAre
  <2>2. j - Len(l) \in (i - Len(l)) + 1 .. Len(k) /\ j - Len(l) \in 1 .. Len(k) /\ Len(l) + (j - Len(l)) = j
    BY <1>2, <1>3, <2>1
  <2>3. m[j] = k[j - Len(l)]
    BY <1>2, <2>2
  <2> QED BY <1>7, <2>1, <2>2, <2>3 DEF Sound, InOrder
<1>8. ASSUME NEW i \in DOMAIN m, NEW j \in DOMAIN m, i < j, Failure(m[i]), Failure(m[j])
      PROVE  m[i] \in {S!Gone, Stalled}
  <2>1. i - Len(l) \in DOMAIN k /\ m[i] = k[i - Len(l)] /\ j - Len(l) \in DOMAIN k /\ m[j] = k[j - Len(l)]
    BY <1>4, <1>8
  <2>2. i - Len(l) < j - Len(l)
    BY <1>2, <1>3, <1>8
  <2> QED BY <1>8, <2>1, <2>2 DEF Sound, ToldOnce
<1>9. ASSUME ResultOut(m), NEW j \in DOMAIN m, Partial(m[j]) PROVE m[j] = Stalled
  <2>1. Failure(m[j])
    BY <1>9 DEF Partial, Failure
  <2>2. j - Len(l) \in DOMAIN k /\ m[j] = k[j - Len(l)]
    BY <1>4, <2>1
  <2> QED BY <1>5, <1>9, <2>2 DEF Sound, LateStalls
<1>10. Clean(k) => Clean(m)
  BY <1>4 DEF Clean
<1>11. Sound(m)
  BY <1>6, <1>7, <1>8, <1>9 DEF Sound, InOrder, ToldOnce, LateStalls
<1> QED BY <1>0, <1>1, <1>5, <1>10, <1>11

(* What is left of one or two entries when receipts are lost.              *)
LEMMA Leftover ==
    ASSUME NEW es \in Seq(Entry), Len(es) <= 2, Sound(es), NEW k \in S!Parts(es),
           \A i \in DOMAIN es : es[i].kind = "frame" => \E j \in DOMAIN k : k[j] = es[i]
    PROVE  /\ k \in Seq(Entry) /\ Sound(k) /\ (ResultOut(k) <=> ResultOut(es))
           /\ Len(k) <= Len(es) /\ (Len(k) = Len(es) => k = es)
           /\ \A j \in DOMAIN k : \E i \in DOMAIN es : k[j] = es[i]
<1>1. CASE k = es
  BY <1>1
<1>2. CASE k = <<>> /\ k # es
  <2>1. Len(es) > 0 /\ Len(k) = 0
    BY <1>2
  <2>2. ~ ResultOut(es)
    BY <1>2, EntriesAre DEF ResultOut, Frames
  <2>3. Sound(k) /\ ~ ResultOut(k)
    BY <1>2 DEF Sound, InOrder, ToldOnce, LateStalls, ResultOut
  <2> QED BY <1>2, <2>1, <2>2, <2>3
<1>3. ASSUME NEW i \in DOMAIN es, k = <<es[i]>>, k # es PROVE
        /\ k \in Seq(Entry) /\ Sound(k) /\ (ResultOut(k) <=> ResultOut(es))
        /\ Len(k) <= Len(es) /\ (Len(k) = Len(es) => k = es)
        /\ \A j \in DOMAIN k : \E n \in DOMAIN es : k[j] = es[n]
  <2>1. k \in Seq(Entry) /\ Len(k) = 1 /\ DOMAIN k = {1} /\ k[1] = es[i]
    BY <1>3
  <2>2. Len(es) = 2 /\ DOMAIN es = {1, 2}
    <3>1. Len(es) # 1
      <4>1. ASSUME Len(es) = 1 PROVE FALSE
        <5>1. i = 1 /\ es = <<es[1]>>
          BY <4>1
        <5> QED BY <1>3, <5>1
      <4> QED BY <4>1
    <3>2. Len(es) \in Nat /\ DOMAIN es = 1 .. Len(es)
      OBVIOUS
    <3>3. i \in 1 .. Len(es)
      BY <1>3, <3>2
    <3>4. Len(es) = 2
      BY <3>1, <3>2, <3>3
    <3> QED BY <3>2, <3>4
  <2>3. \A n \in DOMAIN es : es[n].kind = "frame" => es[n] = es[i]
    BY <2>1
  <2>4. ResultOut(k) <=> ResultOut(es)
    <3>1. ResultOut(es) => es[i] = S!Frame("result")
      BY <2>3, EntriesAre DEF ResultOut, Frames
    <3> QED BY <1>3, <2>1, <3>1 DEF ResultOut
  <2>5. es[i].what # "stream_complete"
    <3> SUFFICES ASSUME es[i].what = "stream_complete" PROVE FALSE
      OBVIOUS
    <3>1. PICK j \in 1 .. i - 1 : es[j] = S!Frame("result")
      BY DEF Sound, InOrder
    <3>2. j \in DOMAIN es
      BY <1>3, <3>1
    <3>3. es[j].kind = "frame" /\ es[j].what = "result"
      BY <3>1, EntriesAre DEF Frames
    <3> QED BY <2>3, <3>2, <3>3
  <2>6. InOrder(k)
    BY <2>1, <2>5 DEF InOrder
  <2>7. ToldOnce(k)
    BY <2>1 DEF ToldOnce
  <2>8. LateStalls(k)
    BY <1>3, <2>1, <2>4 DEF Sound, LateStalls
  <2> QED BY <1>3, <2>1, <2>2, <2>4, <2>6, <2>7, <2>8 DEF Sound
<1> QED BY <1>1, <1>2, <1>3 DEF S!Parts

(* What recording does to a log without failures.                          *)
LEMMA Recorded ==
    ASSUME S!StreamAssumption, StreamInv, at # "over", ~ aborted,
           NEW es \in Seq(Entry), Len(es) <= 2, Sound(es),
           ResultOut(log) => \A j \in DOMAIN es : Partial(es[j]) => es[j] = Stalled,
           S!Records(es)
    PROVE  /\ log' \in Seq(Entry) /\ Sound(log') /\ unwritten' \in 0 .. MaxUnwritten
           /\ ResultOut(log') <=> ResultOut(log) \/ ResultOut(es)
           /\ Clean(es) => Clean(log')
           /\ unwritten' = 0 => unwritten = 0 /\ \A type : Told(type) => Told(type)'
           /\ unwritten' = 0 => \A i \in DOMAIN es : es[i].kind = "receipt" => Told(es[i].what)'
<1>1. PICK k \in S!Parts(es) :
        /\ \A i \in DOMAIN es : es[i].kind = "frame" => \E j \in DOMAIN k : k[j] = es[i]
        /\ log' = log \o k
        /\ unwritten' = unwritten + Len(es) - Len(k) /\ unwritten' <= MaxUnwritten
  BY DEF S!Records
<1>2. /\ k \in Seq(Entry) /\ Sound(k) /\ (ResultOut(k) <=> ResultOut(es))
      /\ Len(k) <= Len(es) /\ (Len(k) = Len(es) => k = es)
      /\ \A j \in DOMAIN k : \E i \in DOMAIN es : k[j] = es[i]
  BY <1>1, Leftover
<1>3. log \in Seq(Entry) /\ Clean(log) /\ InOrder(log) /\ unwritten \in Nat /\ MaxUnwritten \in Nat
  BY DEF StreamInv, Sound, S!TypeOK, S!StreamAssumption
<1>4. ResultOut(log) => \A j \in DOMAIN k : Partial(k[j]) => k[j] = Stalled
  BY <1>2
<1>5. /\ log \o k \in Seq(Entry) /\ Sound(log \o k)
      /\ ResultOut(log \o k) <=> ResultOut(log) \/ ResultOut(k)
      /\ Clean(k) => Clean(log \o k)
  BY <1>2, <1>3, <1>4, Lengthened
<1>6. Clean(es) => Clean(k)
  BY <1>2 DEF Clean
<1>7. Len(es) \in Nat /\ Len(k) \in Nat
  BY <1>2
<1>8. unwritten' \in 0 .. MaxUnwritten /\ (unwritten' = 0 => unwritten = 0 /\ Len(k) = Len(es))
  BY <1>1, <1>2, <1>3, <1>7
<1>12. PICK m : m = log \o k
  OBVIOUS
<1>13. /\ log' = m /\ DOMAIN log = 1 .. Len(log) /\ DOMAIN k = 1 .. Len(k) /\ Len(log) \in Nat
       /\ DOMAIN m = 1 .. Len(log) + Len(k)
       /\ \A i \in 1 .. Len(log) : m[i] = log[i]
       /\ \A i \in 1 .. Len(k) : m[Len(log) + i] = k[i]
  BY <1>1, <1>2, <1>3, <1>12
<1>9. /\ \A i \in DOMAIN log : i \in DOMAIN log' /\ log'[i] = log[i]
      /\ \A i \in DOMAIN k : Len(log) + i \in DOMAIN log' /\ log'[Len(log) + i] = k[i]
  BY <1>7, <1>13
<1>10. \A type : Told(type) => Told(type)'
  BY <1>9 DEF Told, S!Told
<1>11. ASSUME unwritten' = 0, NEW i \in DOMAIN es, es[i].kind = "receipt" PROVE Told(es[i].what)'
  <2>1. k = es
    BY <1>2, <1>8, <1>11
  <2> QED BY <1>9, <1>11, <2>1 DEF Told, S!Told
<1> QED BY <1>1, <1>2, <1>5, <1>6, <1>8, <1>10, <1>11

(* The few entries there are to record.                                    *)
LEMMA OneEntry ==
    ASSUME NEW e \in Entry, e.what # "stream_complete"
    PROVE  /\ <<e>> \in Seq(Entry) /\ Len(<<e>>) = 1 /\ <<e>>[1] = e /\ DOMAIN <<e>> = {1}
           /\ InOrder(<<e>>) /\ ToldOnce(<<e>>)
           /\ (ResultOut(<<e>>) <=> e = S!Frame("result"))
           /\ (e.what # "stream_partial_failure" => LateStalls(<<e>>))
<1>1. <<e>> \in Seq(Entry) /\ Len(<<e>>) = 1 /\ <<e>>[1] = e /\ DOMAIN <<e>> = {1}
  OBVIOUS
<1> QED BY <1>1 DEF InOrder, ToldOnce, LateStalls, ResultOut, Partial

LEMMA SoundAlone ==
    ASSUME NEW e \in Entry, e.what # "stream_complete" PROVE Sound(<<e>>)
<1>1. CASE e.what = "stream_partial_failure"
  <2>1. e # S!Frame("result")
    BY <1>1, EntriesAre DEF Frames, Types
  <2>2. ~ ResultOut(<<e>>)
    BY <2>1, OneEntry
  <2> QED BY <2>2, OneEntry DEF Sound, LateStalls
<1>2. CASE e.what # "stream_partial_failure"
  BY <1>2, OneEntry DEF Sound
<1> QED BY <1>1, <1>2

LEMMA TwoEntries ==
    ASSUME NEW d \in Entry, NEW e \in Entry,
           \/ d = S!Frame("result") /\ e.what = "stream_complete"
           \/ d \in {S!Gone, Stalled} /\ Partial(e)
    PROVE  /\ <<d, e>> \in Seq(Entry) /\ Len(<<d, e>>) = 2 /\ <<d, e>>[1] = d /\ <<d, e>>[2] = e
           /\ Sound(<<d, e>>) /\ (ResultOut(<<d, e>>) <=> d = S!Frame("result"))
           /\ DOMAIN <<d, e>> = {1, 2}
<1>0. PICK l : l = <<d, e>>
  OBVIOUS
<1>1. l = <<d, e>> /\ l \in Seq(Entry) /\ Len(l) = 2 /\ l[1] = d /\ l[2] = e /\ DOMAIN l = {1, 2}
  BY <1>0
<1>2. /\ e # S!Frame("result") /\ e # S!Gone /\ d.what # "stream_complete"
      /\ d = S!Frame("result") => ~ Failure(d) /\ ~ Failure(e) /\ d # S!Gone
      /\ d \in {S!Gone, Stalled} => d # S!Frame("result")
  BY EntriesAre DEF Frames, Types, Partial, Failure
<1>3. ResultOut(l) <=> d = S!Frame("result")
  BY <1>1, <1>2 DEF ResultOut
<1>4. \A i \in DOMAIN l : l[i].what = "stream_complete" => i = 2 /\ d = S!Frame("result")
  BY <1>1, <1>2, EntriesAre DEF Partial
<1>5. \A i \in DOMAIN l : l[i] = S!Gone => i = 1 /\ Partial(e)
  BY <1>1, <1>2
<1>6. InOrder(l)
  <2>1. 1 \in 1 .. 2 - 1 /\ \A j \in 1 + 1 .. Len(l) : j = 2
    BY <1>1
  <2> QED BY <1>1, <1>4, <1>5, <2>1 DEF InOrder
<1>7. ToldOnce(l)
  <2>1. \A i, j \in DOMAIN l : i < j => i = 1 /\ j = 2
    BY <1>1
  <2> QED BY <1>1, <1>2, <2>1 DEF ToldOnce
<1>8. LateStalls(l)
  <2>1. d = S!Frame("result") => ~ Partial(d) /\ ~ Partial(e)
    BY <1>2, EntriesAre DEF Partial, Failure
  <2> QED BY <1>1, <1>3, <2>1 DEF LateStalls
<1> QED BY <1>1, <1>3, <1>6, <1>7, <1>8 DEF Sound

LEMMA OneMore == ASSUME NEW d \in Entry, NEW e \in Entry PROVE Append(<<d>>, e) = <<d, e>>
<1>1. PICK l, m : l = Append(<<d>>, e) /\ m = <<d, e>>
  OBVIOUS
<1>2. l \in Seq(Entry) /\ Len(l) = 2 /\ l[1] = d /\ l[2] = e
  BY <1>1
<1>3. m \in Seq(Entry) /\ Len(m) = 2 /\ m[1] = d /\ m[2] = e
  BY <1>1
<1>4. l = m
  BY <1>2, <1>3
<1> QED BY <1>1, <1>4

LEMMA NoEntry == <<>> \in Seq(Entry) /\ Len(<<>>) = 0 /\ DOMAIN <<>> = {} /\ Sound(<<>>) /\ ~ ResultOut(<<>>)
  BY DEF Sound, InOrder, ToldOnce, LateStalls, ResultOut

LEMMA StreamStart ==
    ASSUME S!StreamAssumption, S!Init PROVE StreamInv
<1>1. /\ at = "open" /\ frame = "start" /\ terminal = "open" /\ result = "none"
      /\ aborted = FALSE /\ ended = FALSE /\ gap = 0 /\ log = <<>> /\ unwritten = 0
  BY DEF S!Init
<1>2. 0 \in 0 .. S!MaxGap /\ 0 \in 0 .. MaxUnwritten
  BY DEF S!StreamAssumption, S!MaxGap
<1>3. S!TypeOK
  <2>1. aborted \in BOOLEAN /\ ended \in BOOLEAN
    BY <1>1
  <2> QED BY <1>1, <1>2, <2>1 DEF S!TypeOK
<1>4. Clean(log)
  BY <1>1, NoEntry DEF Clean
<1> QED BY <1>1, <1>3, <1>4, NoEntry DEF StreamInv

(* The types the handler's own steps leave.                                *)
StepTypes == /\ aborted \in BOOLEAN /\ ended \in BOOLEAN /\ gap \in 0 .. S!MaxGap
             /\ result \in {"none", "accepted", "rejected", "thrown"}

(* What is shown once the recording is: the handler goes on or is over.    *)
LEMMA ProceedKeeps ==
    ASSUME S!StreamAssumption, StreamInv, at \in {"send", "draining"}, ~ aborted,
           NEW before, S!Proceed(before),
           \/ before = <<S!Frame(frame)>>
           \/ frame \in {"complete", "error"} /\ before \in {<<>>, <<Stalled>>, <<S!Gone>>},
           aborted' \in BOOLEAN, gap' \in 0 .. S!MaxGap, UNCHANGED result,
           aborted' => frame \in {"complete", "error"}
    PROVE  StreamInv'
<1>1. /\ frame \in Frames /\ log \in Seq(Entry) /\ at # "over" /\ terminal \in {"open", "aborted", "failed", "completed"}
      /\ result \in {"none", "accepted", "rejected", "thrown"} /\ ended \in BOOLEAN
      /\ ResultOut(log) => frame = "complete"
  BY DEF StreamInv, S!TypeOK, Frames
<1>2. /\ S!Frame(frame) \in Entry /\ S!Frame(frame).what = frame /\ ~ Failure(S!Frame(frame))
      /\ S!Frame(frame).what # "stream_complete" /\ ~ Partial(S!Frame(frame))
      /\ frame # "result" => S!Frame(frame) # S!Frame("result")
  BY <1>1, EntriesAre DEF Frames, Types, Failure, Partial
<1>3. CASE frame = "start"
  <2>1. at' = "running" /\ UNCHANGED <<frame, terminal, ended>> /\ before = <<S!Frame(frame)>> /\ S!Records(before)
        /\ ~ aborted'
    BY <1>3 DEF S!Proceed
  <2>2. before \in Seq(Entry) /\ Len(before) <= 2 /\ Sound(before) /\ Clean(before) /\ ~ ResultOut(before)
        /\ ~ ResultOut(log)
    BY <1>1, <1>2, <1>3, <2>1, OneEntry, SoundAlone DEF Clean
  <2>3. log' \in Seq(Entry) /\ Sound(log') /\ unwritten' \in 0 .. MaxUnwritten /\ Clean(log') /\ ~ ResultOut(log')
    BY <1>1, <2>1, <2>2, Recorded
  <2>4. S!TypeOK'
    BY <1>1, <2>1, <2>3 DEF S!TypeOK, StreamInv
  <2>5. result = "none"
    BY <1>1, <1>3 DEF StreamInv
  <2> QED BY <1>1, <1>3, <2>1, <2>3, <2>4, <2>5 DEF StreamInv
<1>4. CASE frame = "result"
  <2>0. PICK said : said = S!Receipt("stream_complete", IF result = "accepted" THEN "result_emitted"
                                                        ELSE "agent_execute_rejected")
    OBVIOUS
  <2>1. /\ at' = "send" /\ frame' = "complete" /\ UNCHANGED <<terminal, ended>> /\ ~ aborted'
        /\ before = <<S!Frame("result")>> /\ \E es : es = Append(before, said) /\ S!Records(es)
    BY <1>4, <2>0 DEF S!Proceed
  <2>2. said \in Entry /\ said.what = "stream_complete" /\ said.kind = "receipt"
    <3>1. (IF result = "accepted" THEN "result_emitted" ELSE "agent_execute_rejected") \in Reasons
      BY DEF Reasons
    <3> QED BY <2>0, <3>1, EntriesAre DEF Types
  <2>3. PICK es : es = <<S!Frame("result"), said>> /\ S!Records(es)
    BY <1>2, <1>4, <2>1, <2>2, OneMore
  <2>4. /\ es \in Seq(Entry) /\ Len(es) = 2 /\ Sound(es) /\ DOMAIN es = {1, 2}
        /\ es[1] = S!Frame("result") /\ es[2] = said
    BY <1>2, <1>4, <2>2, <2>3, TwoEntries
  <2>5. Clean(es)
    BY <1>2, <1>4, <2>2, <2>4 DEF Clean, Failure
  <2>6. ~ ResultOut(log)
    BY <1>1, <1>4
  <2>7. /\ log' \in Seq(Entry) /\ Sound(log') /\ unwritten' \in 0 .. MaxUnwritten /\ Clean(log')
        /\ unwritten' = 0 => \A i \in DOMAIN es : es[i].kind = "receipt" => Told(es[i].what)'
    <3>1. S!Records(es) /\ Len(es) <= 2 /\ at # "over" /\ ~ aborted
      BY <1>1, <2>3, <2>4
    <3>2. es \in Seq(Entry) /\ Sound(es) /\ Clean(es)
      BY <2>4, <2>5
    <3> HIDE <2>4
    <3> QED BY <2>6, <3>1, <3>2, Recorded
  <2>8. unwritten' = 0 => Told("stream_complete")'
    BY <2>2, <2>4, <2>7
  <2>9. S!TypeOK'
    BY <1>1, <2>1, <2>7 DEF S!TypeOK, StreamInv
  <2> QED BY <2>1, <2>7, <2>8, <2>9 DEF StreamInv
<1>5. CASE frame \in {"complete", "error"}
  <2>1. /\ at' = "over" /\ ended' = TRUE /\ S!Records(before) /\ UNCHANGED frame
        /\ terminal' = IF frame = "complete" THEN "completed" ELSE "failed"
    BY <1>5 DEF S!Proceed
  <2>2. \/ before = <<>>
        \/ before \in {<<S!Frame(frame)>>, <<Stalled>>, <<S!Gone>>}
    OBVIOUS
  <2>3. /\ before \in Seq(Entry) /\ Len(before) <= 2 /\ Sound(before) /\ ~ ResultOut(before)
        /\ \A j \in DOMAIN before : Partial(before[j]) => before[j] = Stalled
    <3>1. CASE before = <<>>
      BY <3>1, NoEntry
    <3>2. ASSUME NEW e \in {S!Frame(frame), Stalled, S!Gone}, before = <<e>> PROVE
                 /\ before \in Seq(Entry) /\ Len(before) <= 2 /\ Sound(before) /\ ~ ResultOut(before)
                 /\ \A j \in DOMAIN before : Partial(before[j]) => before[j] = Stalled
      <4>1. e \in Entry /\ e.what # "stream_complete" /\ e # S!Frame("result") /\ (Partial(e) => e = Stalled)
        BY <1>2, <1>5, EntriesAre DEF Frames, Types, Partial
      <4> QED BY <3>2, <4>1, OneEntry, SoundAlone
    <3> QED BY <2>2, <3>1, <3>2
  <2>4. /\ log' \in Seq(Entry) /\ Sound(log') /\ unwritten' \in 0 .. MaxUnwritten
        /\ ResultOut(log') <=> ResultOut(log)
        /\ unwritten' = 0 => unwritten = 0 /\ \A type : Told(type) => Told(type)'
    BY <1>1, <2>1, <2>3, Recorded
  <2>5. unwritten' = 0 => \/ frame = "complete" /\ Told("stream_complete")'
                          \/ frame = "error" /\ Told("stream_error")'
    BY <1>5, <2>4 DEF StreamInv
  <2>6. S!TypeOK'
    BY <1>1, <2>1, <2>4 DEF S!TypeOK, StreamInv
  <2> QED BY <1>1, <1>5, <2>1, <2>4, <2>5, <2>6 DEF StreamInv, S!Closing
<1> QED BY <1>1, <1>3, <1>4, <1>5 DEF Frames

LEMMA GiveUpKeeps ==
    ASSUME S!StreamAssumption, StreamInv, at \in {"send", "draining"}, ~ aborted,
           NEW status \in Reasons, NEW before \in {<<>>, <<Stalled>>, <<S!Gone>>}, S!GiveUp(status, before),
           aborted' \in BOOLEAN, gap' \in 0 .. S!MaxGap, UNCHANGED result
    PROVE  StreamInv'
<1>1. /\ frame \in Frames /\ log \in Seq(Entry) /\ at # "over"
      /\ result \in {"none", "accepted", "rejected", "thrown"}
      /\ ResultOut(log) => frame = "complete"
  BY DEF StreamInv, S!TypeOK, Frames
<1>2. CASE frame \in {"complete", "error"}
  BY <1>2, ProceedKeeps DEF S!GiveUp
<1>3. CASE frame \in {"start", "result"}
  <2>0. PICK reason, said : /\ reason = IF status = "stream_stall_timeout" THEN "stream_execution_failed"
                                        ELSE status
                           /\ said = S!PartialFailure(reason)
    OBVIOUS
  <2>1. /\ at' = "over" /\ ended' = TRUE /\ UNCHANGED frame
        /\ terminal' = IF status = "frame_too_large" THEN "failed" ELSE "aborted"
        /\ S!Records(IF frame = "start" THEN before ELSE Append(before, said))
    BY <1>3, <2>0 DEF S!GiveUp
  <2>2. said \in Entry /\ said.what = "stream_partial_failure" /\ said.kind = "receipt" /\ Partial(said)
        /\ said # S!Frame("result")
    <3>1. reason \in Reasons
      BY <2>0 DEF Reasons
    <3> QED BY <2>0, <3>1, EntriesAre DEF Types, Partial, Frames
  <2>3. ~ ResultOut(log)
    BY <1>1, <1>3
  <2>4. CASE frame = "start"
    <3>1. before \in Seq(Entry) /\ Len(before) <= 2 /\ Sound(before) /\ ~ ResultOut(before)
      <4>1. Stalled \in Entry /\ S!Gone \in Entry /\ Stalled.what # "stream_complete" /\ S!Gone.what # "stream_complete"
            /\ Stalled # S!Frame("result") /\ S!Gone # S!Frame("result")
        BY EntriesAre DEF Partial, Types, Frames
      <4>2. CASE before = <<>>
        BY <4>2, NoEntry
      <4>3. CASE before = <<Stalled>>
        BY <4>1, <4>3, OneEntry, SoundAlone
      <4>4. CASE before = <<S!Gone>>
        BY <4>1, <4>4, OneEntry, SoundAlone
      <4> QED BY <4>2, <4>3, <4>4
    <3>2. log' \in Seq(Entry) /\ Sound(log') /\ unwritten' \in 0 .. MaxUnwritten /\ ~ ResultOut(log')
      BY <1>1, <2>1, <2>3, <2>4, <3>1, Recorded
    <3>3. result = "none"
      BY <1>1, <2>4 DEF StreamInv
    <3>4. S!TypeOK'
      BY <1>1, <2>1, <3>2 DEF S!TypeOK, StreamInv
    <3> QED BY <2>1, <2>4, <3>2, <3>3, <3>4 DEF StreamInv
  <2>5. CASE frame = "result"
    <3>0. PICK es : es = Append(before, said)
      OBVIOUS
    <3>1. /\ es \in Seq(Entry) /\ Len(es) <= 2 /\ Sound(es) /\ ~ ResultOut(es)
          /\ \E i \in DOMAIN es : es[i] = said
      <4>1. CASE before = <<>>
        <5>1. es = <<said>>
          BY <3>0, <4>1
        <5> QED BY <2>2, <5>1, OneEntry, SoundAlone
      <4>2. ASSUME NEW d \in {Stalled, S!Gone}, before = <<d>>
            PROVE  /\ es \in Seq(Entry) /\ Len(es) <= 2 /\ Sound(es) /\ ~ ResultOut(es)
                   /\ \E i \in DOMAIN es : es[i] = said
        <5>2. d \in Entry /\ d # S!Frame("result")
          BY EntriesAre DEF Partial, Types, Frames, Failure
        <5>1. es = <<d, said>>
          BY <2>2, <3>0, <4>2, <5>2, OneMore
        <5>3. /\ <<d, said>> \in Seq(Entry) /\ Len(<<d, said>>) = 2 /\ <<d, said>>[2] = said
              /\ Sound(<<d, said>>) /\ ~ ResultOut(<<d, said>>) /\ DOMAIN <<d, said>> = {1, 2}
          BY <2>2, <5>2, TwoEntries
        <5> QED BY <5>1, <5>3
      <4> QED BY <4>1, <4>2
    <3>2. S!Records(es)
      BY <2>1, <2>5, <3>0
    <3>3. /\ log' \in Seq(Entry) /\ Sound(log') /\ unwritten' \in 0 .. MaxUnwritten /\ ~ ResultOut(log')
          /\ unwritten' = 0 => \A i \in DOMAIN es : es[i].kind = "receipt" => Told(es[i].what)'
      BY <1>1, <2>3, <3>1, <3>2, Recorded
    <3>4. unwritten' = 0 => Told("stream_partial_failure")'
      BY <2>2, <3>1, <3>3
    <3>5. S!TypeOK'
      BY <1>1, <2>1, <3>3 DEF S!TypeOK, StreamInv
    <3> QED BY <2>1, <2>5, <3>3, <3>4, <3>5 DEF StreamInv, S!Closing
  <2> QED BY <1>3, <2>4, <2>5
<1> QED BY <1>1, <1>2, <1>3 DEF Frames

LEMMA StreamOpens ==
    ASSUME S!StreamAssumption, StreamInv, S!Open PROVE StreamInv'
<1>1. PICK e : e = S!Receipt("stream_start", "request_accepted")
  OBVIOUS
<1>2. /\ at = "open" /\ at' = "send" /\ S!Records(<<e>>) /\ UNCHANGED <<frame, terminal, aborted, ended, gap, result>>
  BY <1>1 DEF S!Open
<1>3. e \in Entry /\ e.what = "stream_start" /\ e # S!Frame("result")
  BY <1>1, EntriesAre DEF Types, Reasons, Frames
<1>4. ~ aborted /\ log \in Seq(Entry)
  BY <1>2 DEF StreamInv
<1>5. <<e>> \in Seq(Entry) /\ Len(<<e>>) <= 2 /\ Sound(<<e>>) /\ Clean(<<e>>) /\ ~ ResultOut(<<e>>)
      /\ \A j \in DOMAIN <<e>> : Partial(<<e>>[j]) => <<e>>[j] = Stalled
  BY <1>3, OneEntry, SoundAlone DEF Clean, Failure, Partial
<1>6. /\ log' \in Seq(Entry) /\ Sound(log') /\ unwritten' \in 0 .. MaxUnwritten /\ Clean(log')
      /\ ResultOut(log') <=> ResultOut(log)
      /\ unwritten' = 0 => unwritten = 0 /\ \A type : Told(type) => Told(type)'
  BY <1>2, <1>4, <1>5, Recorded
<1>7. S!TypeOK'
  BY <1>2, <1>6 DEF S!TypeOK, StreamInv
<1>8. unwritten' = 0 => /\ frame = "complete" => Told("stream_complete")'
                        /\ frame = "error" => Told("stream_error")'
  BY <1>6 DEF StreamInv
<1> QED BY <1>2, <1>4, <1>6, <1>7, <1>8 DEF StreamInv

LEMMA BackpressureKeeps ==
    ASSUME S!StreamAssumption, StreamInv, S!Backpressure PROVE StreamInv'
<1>1. PICK e : e = S!Receipt("backpressure", "response_buffer_full")
  OBVIOUS
<1>2. /\ at = "send" /\ ~ aborted /\ at' = "draining" /\ gap' = 0 /\ S!Records(<<e>>)
      /\ UNCHANGED <<frame, terminal, aborted, ended, result>>
  BY <1>1 DEF S!Backpressure, S!Sending
<1>3. e \in Entry /\ e.what = "backpressure" /\ e # S!Frame("result")
  BY <1>1, EntriesAre DEF Types, Reasons, Frames
<1>4. ~ aborted /\ log \in Seq(Entry)
  BY <1>2 DEF StreamInv
<1>5. <<e>> \in Seq(Entry) /\ Len(<<e>>) <= 2 /\ Sound(<<e>>) /\ Clean(<<e>>) /\ ~ ResultOut(<<e>>)
      /\ \A j \in DOMAIN <<e>> : Partial(<<e>>[j]) => <<e>>[j] = Stalled
  BY <1>3, OneEntry, SoundAlone DEF Clean, Failure, Partial
<1>6. /\ log' \in Seq(Entry) /\ Sound(log') /\ unwritten' \in 0 .. MaxUnwritten /\ Clean(log')
      /\ ResultOut(log') <=> ResultOut(log)
      /\ unwritten' = 0 => unwritten = 0 /\ \A type : Told(type) => Told(type)'
  BY <1>2, <1>4, <1>5, Recorded
<1>7. 0 \in 0 .. S!MaxGap
  BY DEF S!StreamAssumption, S!MaxGap
<1>8. S!TypeOK'
  BY <1>2, <1>6, <1>7 DEF S!TypeOK, StreamInv
<1>9. unwritten' = 0 => /\ frame = "complete" => Told("stream_complete")'
                        /\ frame = "error" => Told("stream_error")'
  BY <1>6 DEF StreamInv
<1> QED BY <1>2, <1>4, <1>6, <1>8, <1>9 DEF StreamInv

LEMMA SendKeeps ==
    ASSUME S!StreamAssumption, StreamInv, S!Stall \/ S!WriteFails \/ S!Written
    PROVE  StreamInv'
<1>1. at = "send" /\ ~ aborted /\ gap' = 0 /\ UNCHANGED <<aborted, result>>
  BY DEF S!Stall, S!WriteFails, S!Written, S!Sending
<1>2. 0 \in 0 .. S!MaxGap /\ aborted' \in BOOLEAN /\ ~ aborted'
  BY <1>1 DEF S!StreamAssumption, S!MaxGap, StreamInv, S!TypeOK
<1>3. CASE S!Stall
  <2>1. S!GiveUp("stream_stall_timeout", <<Stalled>>)
    BY <1>3 DEF S!Stall, Stalled
  <2>2. PICK before, status : before = <<Stalled>> /\ status = "stream_stall_timeout" /\ S!GiveUp(status, before)
    BY <2>1
  <2> QED BY <1>1, <1>2, <2>2, GiveUpKeeps DEF Reasons
<1>4. CASE S!WriteFails
  <2>1. PICK status \in {"frame_too_large", "write_failed"} : S!GiveUp(status, <<>>)
    BY <1>4 DEF S!WriteFails
  <2> QED BY <1>1, <1>2, <2>1, GiveUpKeeps DEF Reasons
<1>5. CASE S!Written
  <2>1. PICK before : before = <<S!Frame(frame)>> /\ S!Proceed(before)
    BY <1>5 DEF S!Written
  <2> QED BY <1>1, <1>2, <2>1, ProceedKeeps
<1> QED BY <1>3, <1>4, <1>5

LEMMA DrainKeeps ==
    ASSUME S!StreamAssumption, StreamInv, S!Drained \/ S!TimeOut
    PROVE  StreamInv'
<1>1. at = "draining" /\ ~ aborted /\ UNCHANGED <<aborted, gap, result>>
  BY DEF S!Drained, S!TimeOut, StreamInv
<1>2. gap' \in 0 .. S!MaxGap /\ aborted' \in BOOLEAN /\ ~ aborted'
  BY <1>1 DEF StreamInv, S!TypeOK
<1>3. CASE S!Drained
  <2>1. PICK before : before = <<S!Frame(frame)>> /\ S!Proceed(before)
    BY <1>3 DEF S!Drained
  <2> QED BY <1>1, <1>2, <2>1, ProceedKeeps
<1>4. CASE S!TimeOut
  <2>1. S!GiveUp("drain_timeout", <<>>)
    BY <1>4 DEF S!TimeOut
  <2> QED BY <1>1, <1>2, <2>1, GiveUpKeeps DEF Reasons
<1> QED BY <1>3, <1>4

LEMMA ReturnKeeps ==
    ASSUME S!StreamAssumption, StreamInv, S!Return PROVE StreamInv'
<1>1. /\ at = "running" /\ frame = "start" /\ result' \in {"accepted", "rejected"}
      /\ UNCHANGED <<aborted, ended, gap, log, unwritten>>
  BY DEF S!Return, StreamInv
<1>2. \A type : Told(type)' = Told(type)
  BY <1>1 DEF Told, S!Told
<1>3. CASE aborted
  <2>1. at' = "over" /\ terminal' = "aborted" /\ UNCHANGED frame
    BY <1>3 DEF S!Return
  <2>2. S!TypeOK'
    BY <1>1, <2>1 DEF S!TypeOK, StreamInv
  <2>3. unwritten' = 0 => Told("client_disconnect")'
    BY <1>1, <1>2, <1>3 DEF StreamInv
  <2> QED BY <1>1, <2>1, <2>2, <2>3 DEF StreamInv, S!Closing
<1>4. CASE ~ aborted
  <2>1. at' = "send" /\ frame' = "result" /\ UNCHANGED terminal
    BY <1>4 DEF S!Return
  <2>2. S!TypeOK'
    BY <1>1, <2>1 DEF S!TypeOK, StreamInv
  <2> QED BY <1>1, <1>4, <2>1, <2>2 DEF StreamInv
<1> QED BY <1>3, <1>4

LEMMA ThrowKeeps ==
    ASSUME S!StreamAssumption, StreamInv, S!Throw PROVE StreamInv'
<1>1. /\ at = "running" /\ frame = "start" /\ result' = "thrown"
      /\ UNCHANGED <<aborted, ended, gap>>
  BY DEF S!Throw, StreamInv
<1>2. CASE aborted
  <2>1. at' = "over" /\ terminal' = "failed" /\ UNCHANGED <<frame, log, unwritten>>
    BY <1>2 DEF S!Throw
  <2>2. S!TypeOK'
    BY <1>1, <2>1 DEF S!TypeOK, StreamInv
  <2>3. unwritten' = 0 => Told("client_disconnect")'
    BY <1>1, <1>2, <2>1 DEF StreamInv, Told, S!Told
  <2> QED BY <1>1, <2>1, <2>2, <2>3 DEF StreamInv, S!Closing
<1>3. CASE ~ aborted
  <2>1. PICK e : e = S!Receipt("stream_error", "stream_execution_failed")
    OBVIOUS
  <2>2. at' = "send" /\ frame' = "error" /\ UNCHANGED terminal /\ S!Records(<<e>>)
    BY <1>3, <2>1 DEF S!Throw
  <2>3. e \in Entry /\ e.what = "stream_error" /\ e.kind = "receipt" /\ e # S!Frame("result")
    BY <2>1, EntriesAre DEF Types, Reasons, Frames
  <2>4. <<e>> \in Seq(Entry) /\ Len(<<e>>) <= 2 /\ Sound(<<e>>) /\ Clean(<<e>>) /\ ~ ResultOut(<<e>>)
        /\ DOMAIN <<e>> = {1} /\ <<e>>[1] = e
    BY <2>3, OneEntry, SoundAlone DEF Clean, Failure
  <2>5. ~ ResultOut(log)
    BY <1>1 DEF StreamInv
  <2>6. /\ log' \in Seq(Entry) /\ Sound(log') /\ unwritten' \in 0 .. MaxUnwritten /\ Clean(log')
        /\ ~ ResultOut(log')
        /\ unwritten' = 0 => \A i \in DOMAIN <<e>> : <<e>>[i].kind = "receipt" => Told(<<e>>[i].what)'
    BY <1>1, <1>3, <2>2, <2>4, <2>5, Recorded
  <2>7. unwritten' = 0 => Told("stream_error")'
    BY <2>3, <2>4, <2>6
  <2>8. S!TypeOK'
    BY <1>1, <2>2, <2>6 DEF S!TypeOK, StreamInv
  <2> QED BY <1>1, <1>3, <2>2, <2>6, <2>7, <2>8 DEF StreamInv
<1> QED BY <1>2, <1>3

LEMMA DisconnectKeeps ==
    ASSUME S!StreamAssumption, StreamInv, S!Disconnect PROVE StreamInv'
<1>1. /\ at \in {"running", "draining"} /\ ~ aborted /\ aborted' = TRUE /\ UNCHANGED <<gap, result>>
  BY DEF S!Disconnect
<1>2. gap' \in 0 .. S!MaxGap /\ aborted' \in BOOLEAN
  BY <1>1 DEF StreamInv, S!TypeOK
<1>3. CASE at = "draining"
  <2>1. PICK before, status : before = <<S!Gone>> /\ status = "aborted" /\ S!GiveUp(status, before)
    BY <1>3 DEF S!Disconnect
  <2> QED BY <1>1, <1>2, <1>3, <2>1, GiveUpKeeps DEF Reasons
<1>4. CASE at = "running"
  <2>1. PICK e : e = S!Gone
    OBVIOUS
  <2>2. S!Records(<<e>>) /\ UNCHANGED <<at, frame, terminal, ended>>
    BY <1>4, <2>1 DEF S!Disconnect
  <2>3. e \in Entry /\ e.what = "client_disconnect" /\ e.kind = "receipt" /\ e # S!Frame("result")
        /\ ~ Partial(e)
    BY <2>1, EntriesAre DEF Types, Reasons, Frames
  <2>4. <<e>> \in Seq(Entry) /\ Len(<<e>>) <= 2 /\ Sound(<<e>>) /\ ~ ResultOut(<<e>>)
        /\ DOMAIN <<e>> = {1} /\ <<e>>[1] = e
    BY <2>3, OneEntry, SoundAlone
  <2>5. ~ ResultOut(log) /\ frame = "start" /\ at # "over"
    BY <1>4 DEF StreamInv
  <2>6. /\ log' \in Seq(Entry) /\ Sound(log') /\ unwritten' \in 0 .. MaxUnwritten
        /\ ~ ResultOut(log')
        /\ unwritten' = 0 => \A i \in DOMAIN <<e>> : <<e>>[i].kind = "receipt" => Told(<<e>>[i].what)'
    BY <1>1, <2>2, <2>4, <2>5, Recorded
  <2>7. unwritten' = 0 => Told("client_disconnect")'
    BY <2>3, <2>4, <2>6
  <2>8. S!TypeOK'
    BY <1>1, <1>2, <2>2, <2>6 DEF S!TypeOK, StreamInv
  <2>9. result = "none"
    BY <1>4, <2>5 DEF StreamInv
  <2> QED BY <1>1, <1>4, <2>2, <2>5, <2>6, <2>7, <2>8, <2>9 DEF StreamInv
<1> QED BY <1>1, <1>3, <1>4

LEMMA StreamStep ==
    ASSUME S!StreamAssumption, StreamInv, [S!Next]_(S!streaming) PROVE StreamInv'
<1>1. CASE S!Tick
  <2>1. at \in {"running", "draining"} /\ gap < S!MaxGap /\ gap' = gap + 1
        /\ UNCHANGED <<at, frame, terminal, aborted, ended, result, log, unwritten>>
    BY <1>1 DEF S!Tick
  <2>2. gap' \in 0 .. S!MaxGap
    <3>1. S!MaxGap \in Nat
      BY DEF S!StreamAssumption, S!MaxGap
    <3> QED BY <2>1, <3>1 DEF StreamInv, S!TypeOK
  <2>3. S!TypeOK'
    BY <2>1, <2>2 DEF S!TypeOK, StreamInv
  <2> QED BY <2>1, <2>3 DEF StreamInv, Told, S!Told
<1>2. CASE UNCHANGED S!streaming
  <2>1. UNCHANGED <<at, frame, terminal, aborted, ended, gap, result, log, unwritten>>
    BY <1>2 DEF S!streaming
  <2>2. S!TypeOK'
    BY <2>1 DEF S!TypeOK, StreamInv
  <2> QED BY <2>1, <2>2 DEF StreamInv, Told, S!Told
<1> QED BY <1>1, <1>2, StreamOpens, BackpressureKeeps, SendKeeps, DrainKeeps, ReturnKeeps, ThrowKeeps,
           DisconnectKeeps DEF S!Next, S!Work

LEMMA StreamMeans ==
    ASSUME StreamInv
    PROVE  S!TypeOK /\ S!EndsAreOnRecord /\ S!ReceiptsAreInOrder /\ S!FailuresAreToldOnce
<1>1. S!TypeOK /\ S!EndsAreOnRecord
  BY DEF StreamInv, S!EndsAreOnRecord, Told
<1>2. S!ReceiptsAreInOrder
  BY DEF StreamInv, Sound, InOrder, Partial, S!ReceiptsAreInOrder
<1>3. S!FailuresAreToldOnce
  <2> SUFFICES ASSUME NEW i \in DOMAIN log, NEW j \in DOMAIN log
               PROVE  /\ i < j /\ {log[i].what, log[j].what} \subseteq {"stream_partial_failure", "client_disconnect"}
                            => log[i] \in {S!Gone, S!PartialFailure("stream_stall_timeout")}
                      /\ log[i] = S!Frame("result") /\ log[j].what = "stream_partial_failure"
                            => log[j] = S!PartialFailure("stream_stall_timeout")
    BY DEF S!FailuresAreToldOnce
  <2>1. i < j /\ Failure(log[i]) /\ Failure(log[j]) => log[i] \in {S!Gone, Stalled}
    BY DEF StreamInv, Sound, ToldOnce
  <2>2. log[i] = S!Frame("result") /\ Partial(log[j]) => log[j] = Stalled
    BY DEF StreamInv, Sound, LateStalls, ResultOut
  <2> QED BY <2>1, <2>2 DEF Failure, Partial, Stalled
<1> QED BY <1>1, <1>2, <1>3

(* Whatever the client and the socket do, and for any thresholds: a stream *)
(* whose agent has run ends with a receipt that says how, unless an append *)
(* failed; it is called complete only after its result went out, and       *)
(* nothing but failures is told once the client is gone; and a stream is   *)
(* called a failure twice only for a stall or a client that left.          *)
THEOREM StreamsAreOnRecord ==
    ASSUME S!StreamAssumption
    PROVE  S!Spec => [](S!TypeOK /\ S!EndsAreOnRecord /\ S!ReceiptsAreInOrder /\ S!FailuresAreToldOnce)
<1>1. S!Init => StreamInv
  BY StreamStart
<1>2. StreamInv /\ [S!Next]_(S!streaming) => StreamInv'
  BY StreamStep
<1>3. StreamInv => S!TypeOK /\ S!EndsAreOnRecord /\ S!ReceiptsAreInOrder /\ S!FailuresAreToldOnce
  BY StreamMeans
<1> QED BY <1>1, <1>2, <1>3, PTL DEF S!Spec
=============================================================================
