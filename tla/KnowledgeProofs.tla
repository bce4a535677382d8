--------------------------- MODULE KnowledgeProofs ---------------------------
(***************************************************************************)
(* Proofs about the components of MCKnowledge, for any values of their     *)
(* constants: of CognitiveMemory first, with one voice until a pack is     *)
(* mounted and its notes whatever is mounted, then of AutoRemember,        *)
(* FrictionContainment, SelfImprovement, QueryCache, TrajectoryLedger and  *)
(* TrajectoryReplay, and last of the components side by side.              *)
(***************************************************************************)
EXTENDS MCKnowledge, FiniteSetTheorems, WellFoundedInduction, TLAPS

-----------------------------------------------------------------------------
(* The inductive invariant                                                 *)

IsList(ms) == ms \in Seq({ms[i] : i \in DOMAIN ms})

(* The array ms and the pages ps, of the ids up to n.                      *)
Shape(ms, ps, n) ==
    /\ n \in Nat /\ IsList(ms) /\ DOMAIN ps \subseteq 1..n
    /\ \A i \in DOMAIN ms : /\ IsMemory(ms[i]) /\ ms[i].status \in {"active", "archived"}
                            /\ ms[i].id \in 1..n
    /\ \A i, j \in DOMAIN ms : ms[i].id = ms[j].id => i = j
    /\ \A id \in DOMAIN ps : IsMemory(ps[id]) /\ ps[id].id = id

(* How far a save has come: it writes page a next, which h says is begun.  *)
Progress(ms, a, h, u) ==
    /\ a \in 0..Len(ms) /\ h \in BOOLEAN /\ u \in BOOLEAN
    /\ h => a > 0
    /\ ~u => a = 0 /\ ms = <<>>

(* A page that has been written has its memory's status and partition; one *)
(* still to come has those the memory had, which may have been archived    *)
(* since, or is the first page of the last memory.                         *)
Written(m, ps) == /\ m.id \in DOMAIN ps
                  /\ ps[m.id].status = m.status /\ ps[m.id].part = m.part
Torn(m, ps)    == m.id \in DOMAIN ps /\ ps[m.id].status = "torn"
Behind(m, ps)  == /\ m.id \in DOMAIN ps /\ ps[m.id].status # "torn"
                  /\ ps[m.id].part = m.part /\ (Active(m) => Active(ps[m.id]))

Mirrored(ms, ps, a, h) ==
    \A i \in DOMAIN ms :
        IF a = 0 \/ i < a THEN Written(ms[i], ps)
        ELSE IF i = a /\ h THEN Torn(ms[i], ps)
        ELSE Behind(ms[i], ps) \/ (i = Len(ms) /\ ms[i].id \notin DOMAIN ps)

(* A running process knows every page it could read.                       *)
Readable(ps) == {id \in DOMAIN ps : ps[id].status # "torn"}

Found(ms, ps, u) ==
    /\ u => Readable(ps) \subseteq {ms[i].id : i \in DOMAIN ms}
    /\ \A id \in Readable(ps) : /\ ps[id].class = "unknown" /\ ps[id].due = "never"
                                /\ ps[id].status \in {"active", "archived"}

(* One voice, of the array and of the pages.                               *)
Alone(f) == \A i, j \in DOMAIN f :
                Active(f[i]) /\ Active(f[j]) /\ f[i].part = f[j].part => i = j

(* A page that contradicts an active memory is one the save archives       *)
(* before it comes to that memory.                                         *)
Overruled(ms, ps, a) ==
    \A i \in DOMAIN ms, id \in DOMAIN ps :
        /\ Active(ms[i]) /\ Active(ps[id]) /\ ms[i].part = ps[id].part /\ ms[i].id # id
        => a > 0 /\ \E k \in DOMAIN ms : a <= k /\ k < i /\ ms[k].id = id

Consistent(ms, ps, n, a, h, u) ==
    /\ Shape(ms, ps, n) /\ Progress(ms, a, h, u) /\ Mirrored(ms, ps, a, h)
    /\ Found(ms, ps, u) /\ Alone(ms) /\ Alone(ps) /\ Overruled(ms, ps, a)

MemoryInv ==
    /\ packs \in Nat
    /\ packs = 0 => Consistent(memories, pages, captures, at, half, up)

-----------------------------------------------------------------------------
(* What becomes of a memory                                                *)

LEMMA Changed ==
    ASSUME NEW m, IsMemory(m)
    PROVE  /\ IsMemory(Archived(m)) /\ Archived(m).status = "archived"
           /\ Archived(m).id = m.id /\ Archived(m).part = m.part /\ Content(Archived(m)) = Content(m)
BY DEF IsMemory, Archived, Content

LEMMA Paged ==
    ASSUME NEW m, IsMemory(m)
    PROVE  /\ IsMemory(PageOf(m)) /\ PageOf(m).status = m.status
           /\ PageOf(m).id = m.id /\ PageOf(m).part = m.part /\ Content(PageOf(m)) = Content(m)
           /\ PageOf(m).class = "unknown" /\ PageOf(m).due = "never"
BY DEF IsMemory, PageOf, Content

(* What is read of a page.                                                 *)
LEMMA Shortened ==
    ASSUME NEW m, IsMemory(m)
    PROVE  LET n == [m EXCEPT !.behind = {}] IN
           /\ IsMemory(n) /\ n.status = m.status /\ n.id = m.id /\ n.part = m.part
           /\ Content(n) = m.notes
BY DEF IsMemory, Content

LEMMA Aged ==
    ASSUME NEW m, IsMemory(m)
    PROVE  LET n == [m EXCEPT !.due = "past"] IN
           /\ IsMemory(n) /\ n.status = m.status /\ n.id = m.id /\ n.part = m.part
           /\ Content(n) = Content(m)
BY DEF IsMemory, Content

LEMMA Empty ==
    ASSUME NEW m, IsMemory(m)
    PROVE  /\ IsMemory(Emptied(m)) /\ Emptied(m).status = "torn" /\ Emptied(m).id = m.id
           /\ Content(Emptied(m)) = {}
BY Paged DEF IsMemory, Emptied, Content

LEMMA Born ==
    ASSUME NEW id, NEW text
    PROVE  LET m == Memory(id, text) IN
           IsMemory(m) /\ m.id = id /\ m.part = text.part /\ Content(m) = {id} /\ m.status = "active"
BY DEF IsMemory, Memory, Content

LEMMA ListFacts ==
    ASSUME NEW ms, IsList(ms)
    PROVE  /\ Len(ms) \in Nat /\ DOMAIN ms = 1..Len(ms)
           /\ ms = <<>> <=> Len(ms) = 0
BY DEF IsList

LEMMA ListOf ==
    ASSUME NEW n \in Nat, NEW f, f = [i \in 1..n |-> f[i]]
    PROVE  IsList(f) /\ Len(f) = n
<1>1. f \in [1..n -> {f[i] : i \in DOMAIN f}]
  OBVIOUS
<1> QED BY <1>1 DEF IsList

-----------------------------------------------------------------------------
(* A save begins: an operation returned the array new                      *)

(* What an operation may make of a memory, and of the array: it revives    *)
(* nothing, and only a capture adds a memory, with which no other of its   *)
(* partition stays active.                                                 *)
Follows(m, k) ==
    /\ IsMemory(k) /\ k.id = m.id /\ k.part = m.part /\ Content(m) \subseteq Content(k)
    /\ k.status \in {"active", "archived"} /\ (Active(k) => Active(m))

Joins(ms, m, id) ==
    /\ IsMemory(m) /\ m.id = id /\ m.status = "active"
    /\ \A i \in DOMAIN ms : i < Len(ms) /\ ms[i].part = m.part => ~Active(ms[i])

Succeeds(ms, n, new, n2) ==
    /\ IsList(new)
    /\ \A i \in DOMAIN ms : Follows(ms[i], new[i])
    /\ \/ Len(new) = Len(ms) /\ n2 \in {n, n + 1}
       \/ Len(new) = Len(ms) + 1 /\ n2 = n + 1 /\ Joins(new, new[Len(new)], n2)

(* The indices of a list and of one with at most one element more.         *)
LEMMA OneMore ==
    ASSUME NEW p \in Nat, NEW q \in {p, p + 1}
    PROVE  /\ 1..p \subseteq 1..q
           /\ \A i \in 1..q : i \notin 1..p => i = q /\ q = p + 1
OBVIOUS

LEMMA Indices ==
    ASSUME NEW ms, NEW n, NEW new, NEW n2, IsList(ms), Succeeds(ms, n, new, n2)
    PROVE  /\ Len(ms) \in Nat /\ DOMAIN ms = 1..Len(ms)
           /\ Len(new) \in Nat /\ DOMAIN new = 1..Len(new)
           /\ DOMAIN ms \subseteq DOMAIN new
           /\ \A i \in DOMAIN new : i \notin DOMAIN ms =>
                  i = Len(new) /\ Len(new) = Len(ms) + 1 /\ n2 = n + 1 /\ Joins(new, new[i], n2)
<1>1. IsList(new) /\ Len(new) \in {Len(ms), Len(ms) + 1}
  BY Zenon DEF Succeeds
<1>2. PICK p \in Nat : p = Len(ms) /\ DOMAIN ms = 1..p
  BY ListFacts
<1>3. PICK q \in Nat : q = Len(new) /\ DOMAIN new = 1..q
  BY <1>1, ListFacts
<1>4. q \in {p, p + 1}
  BY <1>1, <1>2, <1>3
<1>5. DOMAIN ms \subseteq DOMAIN new /\ \A i \in DOMAIN new : i \notin DOMAIN ms => i = q /\ q = p + 1
  BY <1>2, <1>3, <1>4, OneMore
<1>6. ASSUME q = p + 1 PROVE n2 = n + 1 /\ Joins(new, new[q], n2)
  <2>1. Len(new) # Len(ms)
    BY <1>2, <1>3, <1>6
  <2> QED BY <1>3, <2>1, Zenon DEF Succeeds
<1> QED BY <1>2, <1>3, <1>5, <1>6

LEMMA SuccessorShape ==
    ASSUME NEW ms, NEW ps, NEW n, NEW new, NEW n2, Shape(ms, ps, n), Succeeds(ms, n, new, n2)
    PROVE  /\ Shape(new, ps, n2)
           /\ \A i \in DOMAIN new : i \notin DOMAIN ms => new[i].id \notin DOMAIN ps
<1>1. n \in Nat /\ n2 \in {n, n + 1} /\ DOMAIN ps \subseteq 1..n /\ IsList(ms) /\ IsList(new)
  BY Zenon DEF Shape, Succeeds
<1>2. ASSUME NEW i \in DOMAIN new, i \notin DOMAIN ms
      PROVE  n2 = n + 1 /\ IsMemory(new[i]) /\ new[i].id = n + 1 /\ new[i].status = "active"
  BY <1>1, <1>2, Indices DEF Joins
<1>3. ASSUME NEW i \in DOMAIN ms
      PROVE  /\ IsMemory(new[i]) /\ new[i].status \in {"active", "archived"}
             /\ new[i].id = ms[i].id /\ new[i].id \in 1..n
  BY DEF Succeeds, Follows, Shape
<1>4. /\ n + 1 \notin 1..n /\ DOMAIN ps \subseteq 1..n2 /\ n2 \in Nat
      /\ \A x \in 1..n : x \in 1..n2 /\ (n2 = n + 1 => n + 1 \in 1..n2)
      /\ (n2 = n + 1 => n + 1 \in 1..n2)
  BY <1>1
<1>5. ASSUME NEW i \in DOMAIN new
      PROVE  IsMemory(new[i]) /\ new[i].status \in {"active", "archived"} /\ new[i].id \in 1..n2
  <2>1. CASE i \in DOMAIN ms
    BY <1>3, <1>4, <2>1
  <2>2. CASE i \notin DOMAIN ms
    BY <1>2, <1>4, <2>2
  <2> QED BY <2>1, <2>2
<1>6. ASSUME NEW i \in DOMAIN new, NEW j \in DOMAIN new, new[i].id = new[j].id PROVE i = j
  <2>1. CASE i \in DOMAIN ms /\ j \in DOMAIN ms
    BY <1>3, <1>6, <2>1 DEF Shape
  <2>2. CASE i \notin DOMAIN ms /\ j \notin DOMAIN ms
    BY <1>1, <2>2, Indices
  <2>3. ASSUME NEW k \in DOMAIN ms, NEW l \in DOMAIN new, l \notin DOMAIN ms PROVE new[k].id # new[l].id
    BY <1>2, <1>3, <1>4, <2>3
  <2> QED BY <1>6, <2>1, <2>2, <2>3
<1>7. \A i \in DOMAIN new : i \notin DOMAIN ms => new[i].id \notin DOMAIN ps
  BY <1>1, <1>2, <1>4
<1>8. Shape(new, ps, n2)
  BY <1>1, <1>4, <1>5, <1>6 DEF Shape
<1> QED BY <1>7, <1>8

LEMMA SaveBegins ==
    ASSUME NEW ms, NEW ps, NEW n, NEW new, NEW n2,
           Consistent(ms, ps, n, 0, FALSE, TRUE), Succeeds(ms, n, new, n2)
    PROVE  Consistent(new, ps, n2, IF new = <<>> THEN 0 ELSE 1, FALSE, TRUE)
<1> DEFINE a == IF new = <<>> THEN 0 ELSE 1
<1>0. Shape(ms, ps, n) /\ IsList(ms) /\ IsList(new)
  BY DEF Consistent, Shape, Succeeds
<1>1. /\ Shape(new, ps, n2) /\ DOMAIN ms \subseteq DOMAIN new
      /\ \A i \in DOMAIN new : i \notin DOMAIN ms =>
             /\ i = Len(new) /\ Len(new) = Len(ms) + 1 /\ new[i].id \notin DOMAIN ps
             /\ Joins(new, new[i], n2)
  BY <1>0, SuccessorShape, Indices
<1>2. /\ Len(new) \in Nat /\ DOMAIN new = 1..Len(new) /\ (new = <<>> <=> Len(new) = 0)
      /\ Len(ms) \in Nat /\ DOMAIN ms = 1..Len(ms)
  BY <1>0, ListFacts
<1>3. a \in {0, 1} /\ (DOMAIN new # {} => a = 1) /\ Progress(new, a, FALSE, TRUE)
  BY <1>2 DEF Progress
<1>4. ASSUME NEW i \in DOMAIN ms
      PROVE  /\ Behind(new[i], ps) /\ new[i].id = ms[i].id /\ new[i].part = ms[i].part
             /\ (Active(new[i]) => Active(ms[i]))
  <2>1. Written(ms[i], ps) /\ IsMemory(ms[i]) /\ ms[i].status \in {"active", "archived"}
    BY DEF Consistent, Mirrored, Shape
  <2>2. Follows(ms[i], new[i])
    BY DEF Succeeds
  <2>3. ps[ms[i].id].status = ms[i].status /\ ps[ms[i].id].part = ms[i].part
    BY <2>1 DEF Written
  <2> QED BY <2>1, <2>2, <2>3 DEF Follows, Behind, Written, Active
<1>5. Mirrored(new, ps, a, FALSE)
  <2> SUFFICES ASSUME NEW i \in DOMAIN new
               PROVE  Behind(new[i], ps) \/ (i = Len(new) /\ new[i].id \notin DOMAIN ps)
    BY <1>2, <1>3 DEF Mirrored
  <2> QED BY <1>1, <1>4
<1>6. Found(new, ps, TRUE)
  <2>1. Found(ms, ps, TRUE)
    BY DEF Consistent
  <2>2. {ms[i].id : i \in DOMAIN ms} \subseteq {new[i].id : i \in DOMAIN new}
    BY <1>1, <1>4
  <2> QED BY <2>1, <2>2 DEF Found
<1>7. ASSUME NEW i \in DOMAIN new, NEW j \in DOMAIN new,
             i \notin DOMAIN ms, Active(new[j]), new[i].part = new[j].part
      PROVE  i = j
  <2>1. i = Len(new) /\ Len(new) = Len(ms) + 1
    BY <1>1, <1>7
  <2>2. Joins(new, new[i], n2)
    BY <1>1, <1>7
  <2>3. ~(j < Len(new))
    BY <1>7, <2>2 DEF Joins
  <2> QED BY <1>2, <2>1, <2>3
<1>8. Alone(ms) /\ Alone(ps) /\ Overruled(ms, ps, 0)
  BY DEF Consistent
<1>9. Alone(new)
  <2> SUFFICES ASSUME NEW i \in DOMAIN new, NEW j \in DOMAIN new,
                      Active(new[i]), Active(new[j]), new[i].part = new[j].part
               PROVE  i = j
    BY DEF Alone
  <2>1. CASE i \in DOMAIN ms /\ j \in DOMAIN ms
    BY <1>4, <1>8, <2>1 DEF Alone
  <2> QED BY <1>7, <2>1
<1>10. Overruled(new, ps, a)
  <2> SUFFICES ASSUME NEW i \in DOMAIN new, NEW id \in DOMAIN ps,
                      Active(new[i]), Active(ps[id]), new[i].part = ps[id].part, new[i].id # id
               PROVE  \E k \in DOMAIN new : 1 <= k /\ k < i /\ new[k].id = id
    BY <1>3 DEF Overruled
  <2>1. PICK k \in DOMAIN ms : ms[k].id = id
    BY <1>8 DEF Consistent, Found, Readable, Active
  <2>2. k \in DOMAIN new /\ new[k].id = id
    BY <1>1, <1>4, <2>1
  <2>3. i \notin DOMAIN ms
    BY <1>4, <1>8 DEF Overruled
  <2>4. i = Len(ms) + 1
    BY <1>1, <2>3
  <2>5. PICK p \in Nat : DOMAIN ms = 1..p /\ p = Len(ms)
    BY <1>2
  <2>6. 1 <= k /\ k < i
    BY <2>1, <2>4, <2>5
  <2> QED BY <2>2, <2>6
<1> HIDE DEF a
<1>11. Consistent(new, ps, n2, a, FALSE, TRUE)
  BY <1>1, <1>3, <1>5, <1>6, <1>8, <1>9, <1>10 DEF Consistent
<1> QED BY <1>11 DEF a

-----------------------------------------------------------------------------
(* A page is emptied, and filled                                           *)

LEMMA PageBegun ==
    ASSUME NEW ms, NEW ps, NEW n, NEW a, Consistent(ms, ps, n, a, FALSE, TRUE), a > 0
    PROVE  Consistent(ms, Filed(ps, Emptied(ms[a])), n, a, TRUE, TRUE)
<1>0. Shape(ms, ps, n) /\ Progress(ms, a, FALSE, TRUE) /\ Mirrored(ms, ps, a, FALSE)
      /\ Found(ms, ps, TRUE) /\ Alone(ms) /\ Alone(ps) /\ Overruled(ms, ps, a)
  BY DEF Consistent
<1>1. a \in DOMAIN ms /\ IsMemory(ms[a]) /\ ms[a].id \in 1..n /\ a \in Nat /\ DOMAIN ms = 1..Len(ms)
  <2>1. DOMAIN ms = 1..Len(ms) /\ Len(ms) \in Nat
    BY <1>0, ListFacts DEF Shape
  <2>2. a \in 0..Len(ms)
    BY <1>0 DEF Progress
  <2>3. a \in DOMAIN ms /\ a \in Nat
    BY <2>1, <2>2
  <2> QED BY <1>0, <2>1, <2>3 DEF Shape
<1>2. PICK p : p = Emptied(ms[a])
  OBVIOUS
<1>3. IsMemory(p) /\ p.id = ms[a].id /\ p.status = "torn"
  BY <1>1, <1>2, Empty
<1>4. PICK qs : qs = Filed(ps, p)
  OBVIOUS
<1>5. /\ DOMAIN qs = DOMAIN ps \cup {ms[a].id} /\ qs[ms[a].id] = p
      /\ \A id \in DOMAIN ps : id # ms[a].id => qs[id] = ps[id]
  <2>1. /\ DOMAIN qs = DOMAIN ps \cup {p.id} /\ qs[p.id] = p
        /\ \A id \in DOMAIN ps : id # p.id => qs[id] = ps[id]
    BY <1>4 DEF Filed
  <2> QED BY <1>3, <2>1
<1>6. Shape(ms, qs, n)
  BY <1>0, <1>1, <1>3, <1>5 DEF Shape
<1>7. ASSUME NEW i \in DOMAIN ms, i # a
      PROVE  /\ ms[i].id # ms[a].id
             /\ Written(ms[i], ps) => Written(ms[i], qs)
             /\ Behind(ms[i], ps) => Behind(ms[i], qs)
             /\ ms[i].id \notin DOMAIN ps => ms[i].id \notin DOMAIN qs
  <2>1. ms[i].id # ms[a].id
    BY <1>0, <1>1, <1>7 DEF Shape
  <2> QED BY <1>5, <2>1 DEF Written, Behind
<1>8. Torn(ms[a], qs)
  BY <1>3, <1>5 DEF Torn
<1>9. Mirrored(ms, qs, a, TRUE)
  <2> SUFFICES ASSUME NEW i \in DOMAIN ms
               PROVE  IF a = 0 \/ i < a THEN Written(ms[i], qs)
                      ELSE IF i = a THEN Torn(ms[i], qs)
                      ELSE Behind(ms[i], qs) \/ (i = Len(ms) /\ ms[i].id \notin DOMAIN qs)
    BY DEF Mirrored
  <2>1. IF a = 0 \/ i < a THEN Written(ms[i], ps)
        ELSE Behind(ms[i], ps) \/ (i = Len(ms) /\ ms[i].id \notin DOMAIN ps)
    BY <1>0 DEF Mirrored
  <2>2. CASE i = a
    BY <1>1, <1>8, <2>2
  <2>3. CASE i # a
    BY <1>7, <2>1, <2>3
  <2> QED BY <2>2, <2>3
<1>10. ASSUME NEW id \in DOMAIN qs, qs[id].status # "torn" PROVE id \in DOMAIN ps /\ qs[id] = ps[id]
  BY <1>3, <1>5, <1>10
<1>11. Found(ms, qs, TRUE)
  BY <1>0, <1>10 DEF Found, Readable
<1>12. Alone(qs)
  BY <1>0, <1>10 DEF Alone, Active
<1>13. Overruled(ms, qs, a)
  BY <1>0, <1>10 DEF Overruled, Active
<1>14. Progress(ms, a, TRUE, TRUE)
  BY <1>0 DEF Progress
<1> QED BY <1>0, <1>2, <1>4, <1>6, <1>9, <1>11, <1>12, <1>13, <1>14 DEF Consistent

LEMMA PageDone ==
    ASSUME NEW ms, NEW ps, NEW n, NEW a, Consistent(ms, ps, n, a, TRUE, TRUE)
    PROVE  Consistent(ms, Filed(ps, PageOf(ms[a])), n, IF a < Len(ms) THEN a + 1 ELSE 0, FALSE, TRUE)
<1>0. Shape(ms, ps, n) /\ Progress(ms, a, TRUE, TRUE) /\ Mirrored(ms, ps, a, TRUE)
      /\ Found(ms, ps, TRUE) /\ Alone(ms) /\ Alone(ps) /\ Overruled(ms, ps, a)
  BY DEF Consistent
<1>1. /\ a \in DOMAIN ms /\ IsMemory(ms[a]) /\ ms[a].id \in 1..n /\ a \in Nat /\ a > 0 /\ a <= Len(ms)
      /\ DOMAIN ms = 1..Len(ms) /\ Len(ms) \in Nat /\ ms[a].status \in {"active", "archived"}
  <2>1. DOMAIN ms = 1..Len(ms) /\ Len(ms) \in Nat
    BY <1>0, ListFacts DEF Shape
  <2>2. a \in 0..Len(ms) /\ a > 0
    BY <1>0 DEF Progress
  <2>3. a \in DOMAIN ms /\ a \in Nat /\ a <= Len(ms)
    BY <2>1, <2>2
  <2> QED BY <1>0, <2>1, <2>2, <2>3 DEF Shape
<1>2. PICK p : p = PageOf(ms[a])
  OBVIOUS
<1>3. /\ IsMemory(p) /\ p.id = ms[a].id /\ p.status = ms[a].status /\ p.part = ms[a].part
      /\ p.class = "unknown" /\ p.due = "never"
  BY <1>1, <1>2, Paged
<1>4. PICK qs : qs = Filed(ps, p)
  OBVIOUS
<1>5. /\ DOMAIN qs = DOMAIN ps \cup {ms[a].id} /\ qs[ms[a].id] = p
      /\ \A id \in DOMAIN ps : id # ms[a].id => qs[id] = ps[id]
  <2>1. /\ DOMAIN qs = DOMAIN ps \cup {p.id} /\ qs[p.id] = p
        /\ \A id \in DOMAIN ps : id # p.id => qs[id] = ps[id]
    BY <1>4 DEF Filed
  <2> QED BY <1>3, <2>1
<1>6. Shape(ms, qs, n)
  BY <1>0, <1>1, <1>3, <1>5 DEF Shape
<1>7. PICK b : b = IF a < Len(ms) THEN a + 1 ELSE 0
  OBVIOUS
<1>8. /\ b \in 0..Len(ms) /\ (b = 0 => a = Len(ms)) /\ (b # 0 => b = a + 1)
  BY <1>1, <1>7
<1>9. ASSUME NEW i \in DOMAIN ms, i # a
      PROVE  /\ ms[i].id # ms[a].id
             /\ Written(ms[i], ps) => Written(ms[i], qs)
             /\ Behind(ms[i], ps) => Behind(ms[i], qs)
             /\ ms[i].id \notin DOMAIN ps => ms[i].id \notin DOMAIN qs
  <2>1. ms[i].id # ms[a].id
    BY <1>0, <1>1, <1>9 DEF Shape
  <2> QED BY <1>5, <2>1 DEF Written, Behind
<1>10. Written(ms[a], qs)
  BY <1>3, <1>5 DEF Written
<1>11. Mirrored(ms, qs, b, FALSE)
  <2> SUFFICES ASSUME NEW i \in DOMAIN ms
               PROVE  IF b = 0 \/ i < b THEN Written(ms[i], qs)
                      ELSE Behind(ms[i], qs) \/ (i = Len(ms) /\ ms[i].id \notin DOMAIN qs)
    BY DEF Mirrored
  <2>1. i # a => IF i < a THEN Written(ms[i], ps)
                 ELSE Behind(ms[i], ps) \/ (i = Len(ms) /\ ms[i].id \notin DOMAIN ps)
    BY <1>0, <1>1 DEF Mirrored
  <2>2. i \in Nat /\ i <= Len(ms)
    BY <1>1
  <2>3. i = a \/ (b = 0 \/ i < b <=> i < a)
    BY <1>1, <1>8, <2>2
  <2>4. b = 0 \/ a < b
    BY <1>1, <1>8
  <2>5. CASE i = a
    BY <1>10, <2>4, <2>5
  <2>6. CASE i # a
    BY <1>9, <2>1, <2>3, <2>6
  <2> QED BY <2>5, <2>6
<1>12. ASSUME NEW id \in DOMAIN qs PROVE id = ms[a].id \/ (id \in DOMAIN ps /\ qs[id] = ps[id] /\ id # ms[a].id)
  BY <1>5
<1>13. Found(ms, qs, TRUE)
  <2>1. ASSUME NEW id \in Readable(qs)
        PROVE  /\ \E i \in DOMAIN ms : id = ms[i].id
               /\ qs[id].class = "unknown" /\ qs[id].due = "never"
               /\ qs[id].status \in {"active", "archived"}
    <3>1. CASE id = ms[a].id
      BY <1>1, <1>3, <1>5, <3>1
    <3>2. CASE id # ms[a].id
      BY <1>0, <1>12, <2>1, <3>2 DEF Found, Readable
    <3> QED BY <3>1, <3>2
  <2> QED BY <2>1 DEF Found
(* No other page of the partition can be active: the save has passed it.   *)
<1>14. ASSUME NEW id \in DOMAIN qs, id # ms[a].id, Active(qs[id]), Active(p), qs[id].part = p.part
       PROVE  FALSE
  <2>1. id \in DOMAIN ps /\ qs[id] = ps[id]
    BY <1>12, <1>14
  <2>2. Active(ms[a]) /\ ms[a].part = ps[id].part /\ Active(ps[id])
    BY <1>3, <1>14, <2>1 DEF Active
  <2>3. \E k \in DOMAIN ms : a <= k /\ k < a /\ ms[k].id = id
    BY <1>0, <1>1, <1>14, <2>1, <2>2 DEF Overruled
  <2> QED BY <1>1, <2>3
<1>15. Alone(qs)
  <2> SUFFICES ASSUME NEW i \in DOMAIN qs, NEW j \in DOMAIN qs,
                      Active(qs[i]), Active(qs[j]), qs[i].part = qs[j].part
               PROVE  i = j
    BY DEF Alone
  <2>1. CASE i # ms[a].id /\ j # ms[a].id
    BY <1>0, <1>12, <2>1 DEF Alone
  <2> QED BY <1>5, <1>14, <2>1
<1>16. Overruled(ms, qs, b)
  <2> SUFFICES ASSUME NEW i \in DOMAIN ms, NEW id \in DOMAIN qs,
                      Active(ms[i]), Active(qs[id]), ms[i].part = qs[id].part, ms[i].id # id
               PROVE  b > 0 /\ \E k \in DOMAIN ms : b <= k /\ k < i /\ ms[k].id = id
    BY DEF Overruled
  <2>1. id # ms[a].id
    <3> SUFFICES ASSUME id = ms[a].id PROVE FALSE
      OBVIOUS
    <3>1. Active(ms[a]) /\ ms[a].part = ms[i].part
      BY <1>3, <1>5 DEF Active
    <3>2. i = a
      BY <1>0, <1>1, <3>1 DEF Alone
    <3> QED BY <3>2
  <2>2. id \in DOMAIN ps /\ qs[id] = ps[id]
    BY <1>12, <2>1
  <2>3. PICK k \in DOMAIN ms : a <= k /\ k < i /\ ms[k].id = id
    BY <1>0, <2>2 DEF Overruled
  <2>4. k # a
    BY <2>1, <2>3
  <2>5. k \in Nat /\ i \in Nat /\ i <= Len(ms)
    BY <1>1
  <2>6. a + 1 <= k /\ a < Len(ms)
    BY <1>1, <2>3, <2>4, <2>5
  <2>7. b = a + 1 /\ b > 0
    BY <1>1, <1>7, <2>6
  <2> QED BY <2>3, <2>6, <2>7
<1>17. Progress(ms, b, FALSE, TRUE)
  BY <1>8 DEF Progress
<1> QED BY <1>0, <1>2, <1>4, <1>6, <1>7, <1>11, <1>13, <1>15, <1>16, <1>17 DEF Consistent

-----------------------------------------------------------------------------
(* Time, crashes and restarts                                              *)

LEMMA ArrayAges ==
    ASSUME NEW ms, NEW ps, NEW n, NEW i \in DOMAIN ms, Consistent(ms, ps, n, 0, FALSE, TRUE)
    PROVE  /\ Consistent([ms EXCEPT ![i].due = "past"], ps, n, 0, FALSE, TRUE)
           /\ DOMAIN [ms EXCEPT ![i].due = "past"] = DOMAIN ms
<1>0. Shape(ms, ps, n) /\ Mirrored(ms, ps, 0, FALSE)
      /\ Found(ms, ps, TRUE) /\ Alone(ms) /\ Alone(ps) /\ Overruled(ms, ps, 0)
  BY DEF Consistent
<1>1. DOMAIN ms = 1..Len(ms) /\ Len(ms) \in Nat /\ IsMemory(ms[i])
  BY <1>0, ListFacts DEF Shape
<1>2. PICK m : m = [ms[i] EXCEPT !.due = "past"]
  OBVIOUS
<1>3. IsMemory(m) /\ m.status = ms[i].status /\ m.id = ms[i].id /\ m.part = ms[i].part
  BY <1>1, <1>2, Aged
<1>4. PICK new : new = [ms EXCEPT ![i].due = "past"]
  OBVIOUS
<1>5. new = [j \in 1..Len(ms) |-> IF j = i THEN m ELSE ms[j]]
  BY <1>1, <1>2, <1>4
<1>6. /\ IsList(new) /\ Len(new) = Len(ms) /\ DOMAIN new = DOMAIN ms
      /\ \A j \in DOMAIN ms : new[j] = IF j = i THEN m ELSE ms[j]
  BY <1>1, <1>5, ListOf
<1>7. ASSUME NEW j \in DOMAIN ms
      PROVE  /\ (IsMemory(ms[j]) => IsMemory(new[j])) /\ new[j].status = ms[j].status
             /\ new[j].id = ms[j].id /\ new[j].part = ms[j].part
  BY <1>3, <1>6
<1>8. Shape(new, ps, n)
  BY <1>0, <1>6, <1>7 DEF Shape
<1>9. Mirrored(new, ps, 0, FALSE)
  <2>1. ASSUME NEW j \in DOMAIN new PROVE Written(new[j], ps)
    <3>1. Written(ms[j], ps)
      BY <1>0, <1>6 DEF Mirrored
    <3> QED BY <1>6, <1>7, <3>1 DEF Written
  <2> QED BY <2>1 DEF Mirrored
<1>10. Found(new, ps, TRUE)
  BY <1>0, <1>6, <1>7 DEF Found
<1>11. Alone(new) /\ Overruled(new, ps, 0)
  BY <1>0, <1>6, <1>7 DEF Alone, Overruled, Active
<1>12. Progress(new, 0, FALSE, TRUE)
  BY <1>1, <1>6 DEF Progress
<1> QED BY <1>0, <1>4, <1>6, <1>8, <1>9, <1>10, <1>11, <1>12 DEF Consistent

LEMMA ArrayLost ==
    ASSUME NEW ms, NEW ps, NEW n, NEW a, NEW h, NEW u, Consistent(ms, ps, n, a, h, u)
    PROVE  Consistent(<<>>, ps, n, 0, FALSE, FALSE)
<1>1. DOMAIN <<>> = {} /\ Len(<<>>) = 0 /\ IsList(<<>>)
  BY DEF IsList
<1>2. Shape(<<>>, ps, n)
  BY <1>1 DEF Consistent, Shape
<1>3. Progress(<<>>, 0, FALSE, FALSE)
  BY <1>1 DEF Progress
<1>4. Mirrored(<<>>, ps, 0, FALSE) /\ Alone(<<>>) /\ Overruled(<<>>, ps, 0)
  BY <1>1 DEF Mirrored, Alone, Overruled
<1>5. Found(<<>>, ps, FALSE) /\ Alone(ps)
  BY DEF Consistent, Found
<1> QED BY <1>2, <1>3, <1>4, <1>5 DEF Consistent

(* The pages are read in some order, each of them once.                    *)
LEMMA ReadInOrder ==
    ASSUME NEW S, IsFiniteSet(S), NEW order \in SetToSeqs(S)
    PROVE  /\ \E k \in Nat : DOMAIN order = 1..k
           /\ \A i \in DOMAIN order : order[i] \in S
           /\ \A i, j \in DOMAIN order : order[i] = order[j] => i = j
           /\ \A x \in S : \E i \in DOMAIN order : order[i] = x
<1>1. PICK k \in Nat : k = Cardinality(S)
  BY FS_CardinalityType
<1>2. order \in [1..k -> S] /\ \A i, j \in 1..k : i # j => order[i] # order[j]
  BY <1>1 DEF SetToSeqs
<1>3. order \in Injection(1..k, S)
  BY <1>2 DEF Injection, IsInjective
<1>4. IsFiniteSet(1..k) /\ Cardinality(1..k) = k
  BY FS_Interval, <1>1
<1>5. order \in Surjection(1..k, S)
  BY <1>1, <1>3, <1>4, FS_Injection
<1> QED BY <1>2, <1>5 DEF Surjection

LEMMA ArrayReadBack ==
    ASSUME NEW ps, NEW n, Consistent(<<>>, ps, n, 0, FALSE, FALSE),
           NEW order \in SetToSeqs(Readable(ps)),
           NEW new, new = [i \in DOMAIN order |-> [ps[order[i]] EXCEPT !.behind = {}]]
    PROVE  Consistent(new, ps, n, 0, FALSE, TRUE)
<1>0. Shape(<<>>, ps, n) /\ Found(<<>>, ps, FALSE) /\ Alone(ps)
  BY DEF Consistent
<1>1. IsFiniteSet(Readable(ps))
  <2>1. n \in Nat /\ DOMAIN ps \subseteq 1..n
    BY <1>0 DEF Shape
  <2>2. IsFiniteSet(1..n)
    BY <2>1, FS_Interval
  <2>3. Readable(ps) \in SUBSET (1..n)
    BY <2>1, Zenon DEF Readable
  <2> QED BY <2>2, <2>3, FS_Subset
<1>2. PICK k \in Nat : DOMAIN order = 1..k
  BY <1>1, ReadInOrder
<1>3. /\ \A i \in DOMAIN order : order[i] \in Readable(ps)
      /\ \A i, j \in DOMAIN order : order[i] = order[j] => i = j
      /\ \A x \in Readable(ps) : \E i \in DOMAIN order : order[i] = x
  BY <1>1, ReadInOrder
<1>4. IsList(new) /\ Len(new) = k /\ DOMAIN new = DOMAIN order
      /\ \A i \in DOMAIN order : new[i] = [ps[order[i]] EXCEPT !.behind = {}]
  <2>1. new = [i \in 1..k |-> new[i]] /\ DOMAIN new = 1..k
    BY <1>2
  <2> QED BY <1>2, <2>1, ListOf
<1>5. ASSUME NEW i \in DOMAIN order
      PROVE  /\ order[i] \in DOMAIN ps /\ IsMemory(new[i]) /\ new[i].id = order[i]
             /\ new[i].status \in {"active", "archived"} /\ order[i] \in 1..n
             /\ ps[order[i]].status = new[i].status /\ ps[order[i]].part = new[i].part
  <2>1. PICK m : m = ps[order[i]]
    OBVIOUS
  <2>2. order[i] \in Readable(ps) /\ new[i] = [m EXCEPT !.behind = {}]
    BY <1>3, <1>4, <2>1
  <2>3. /\ order[i] \in DOMAIN ps /\ IsMemory(m) /\ m.id = order[i]
        /\ m.status \in {"active", "archived"} /\ order[i] \in 1..n
    BY <1>0, <2>1, <2>2 DEF Shape, Found, Readable
  <2>4. /\ IsMemory(new[i]) /\ new[i].status = m.status /\ new[i].id = m.id /\ new[i].part = m.part
    BY <2>2, <2>3, Shortened
  <2> QED BY <2>1, <2>3, <2>4
<1>6. Shape(new, ps, n)
  BY <1>0, <1>3, <1>4, <1>5 DEF Shape
<1>7. Mirrored(new, ps, 0, FALSE)
  BY <1>4, <1>5 DEF Mirrored, Written
<1>8. Found(new, ps, TRUE)
  <2>1. ASSUME NEW x \in Readable(ps) PROVE x \in {new[i].id : i \in DOMAIN new}
    <3>1. PICK i \in DOMAIN order : order[i] = x
      BY <1>3
    <3>2. i \in DOMAIN new /\ new[i].id = x
      BY <1>4, <1>5, <3>1
    <3> QED BY <3>2
  <2> QED BY <1>0, <2>1 DEF Found
<1>9. ASSUME NEW i \in DOMAIN new, NEW id \in DOMAIN ps,
             Active(new[i]), Active(ps[id]), new[i].part = ps[id].part
      PROVE  order[i] = id
  <2>1. i \in DOMAIN order
    BY <1>4
  <2>2. /\ order[i] \in DOMAIN ps /\ ps[order[i]].status = new[i].status
        /\ ps[order[i]].part = new[i].part
    BY <1>5, <2>1
  <2>3. Active(ps[order[i]]) /\ ps[order[i]].part = ps[id].part
    BY <1>9, <2>2 DEF Active
  <2> QED BY <1>0, <1>9, <2>2, <2>3, Zenon DEF Alone
<1>10. Alone(new)
  <2> SUFFICES ASSUME NEW i \in DOMAIN new, NEW j \in DOMAIN new,
                      Active(new[i]), Active(new[j]), new[i].part = new[j].part
               PROVE  i = j
    BY DEF Alone
  <2>1. i \in DOMAIN order /\ j \in DOMAIN order
    BY <1>4
  <2>2. /\ order[j] \in DOMAIN ps /\ ps[order[j]].status = new[j].status
        /\ ps[order[j]].part = new[j].part
    BY <1>5, <2>1
  <2>3. order[i] = order[j]
    <3>1. Active(ps[order[j]]) /\ new[i].part = ps[order[j]].part
      BY <2>2 DEF Active
    <3> QED BY <1>9, <2>2, <3>1
  <2> QED BY <1>3, <2>1, <2>3
<1>12. Overruled(new, ps, 0)
  <2> SUFFICES ASSUME NEW i \in DOMAIN new, NEW id \in DOMAIN ps,
                      Active(new[i]), Active(ps[id]), new[i].part = ps[id].part, new[i].id # id
               PROVE  FALSE
    BY DEF Overruled
  <2>1. order[i] = id
    BY <1>9
  <2>2. i \in DOMAIN order
    BY <1>4
  <2>3. new[i].id = order[i]
    BY <1>5, <2>2
  <2> QED BY <2>1, <2>3
<1>11. Progress(new, 0, FALSE, TRUE)
  BY <1>2, <1>4 DEF Progress
<1> QED BY <1>0, <1>6, <1>7, <1>8, <1>10, <1>11, <1>12 DEF Consistent

-----------------------------------------------------------------------------
(* What the operations make of the array                                   *)

(* An operation begins: nothing is being saved.                            *)
Resting ==
    /\ Idle /\ captures \in Nat /\ IsList(memories)
    /\ \A i \in DOMAIN memories : /\ IsMemory(memories[i])
                                  /\ memories[i].status \in {"active", "archived"}

(* What an operation but the mount of a pack does.                         *)
Evolves ==
    \E ms : /\ Save(ms) /\ Succeeds(memories, captures, ms, captures')
            /\ UNCHANGED <<pages, up, packs, kept, torn, cut>>
            /\ \/ captures' = captures /\ note' = note
               \/ /\ captures < MaxCaptures /\ captures' = captures + 1
                  /\ \E i \in DOMAIN ms : note' \in Content(ms[i])

LEMMA Quiet ==
    ASSUME Resting
    PROVE  /\ DOMAIN memories = 1..Len(memories) /\ Len(memories) \in Nat
BY ListFacts DEF Resting

LEMMA Same ==
    ASSUME NEW m, IsMemory(m), m.status \in {"active", "archived"}
    PROVE  Follows(m, m) /\ Follows(m, Archived(m))
BY Changed DEF Follows, Active

(* An array of as many memories, each of which follows its own.            *)
LEMMA Likewise ==
    ASSUME Resting, NEW ms, ms = [i \in DOMAIN memories |-> ms[i]],
           \A i \in DOMAIN memories : Follows(memories[i], ms[i])
    PROVE  Succeeds(memories, captures, ms, captures)
<1>1. IsList(ms) /\ Len(ms) = Len(memories)
  BY Quiet, ListOf
<1>2. captures \in {captures, captures + 1}
  OBVIOUS
<1> QED BY <1>1, <1>2, Zenon DEF Succeeds

LEMMA Archiving ==
    ASSUME Resting, NEW S
    PROVE  /\ \A i \in DOMAIN memories : Follows(memories[i], Superseded(S)[i])
           /\ Superseded(S) = [i \in DOMAIN memories |-> Superseded(S)[i]]
           /\ DOMAIN Superseded(S) = DOMAIN memories
           /\ \A i \in DOMAIN memories : i \in S => ~Active(Superseded(S)[i])
BY Same, Changed DEF Resting, Superseded, Active

LEMMA RetrieveEvolves ==
    ASSUME Resting, Retrieve
    PROVE  Evolves
<1>1. /\ Idle /\ Save(memories) /\ UNCHANGED <<pages, up, packs, kept, torn, cut>>
      /\ note' = note /\ captures' = captures
  BY DEF Retrieve
<1>2. memories = [i \in DOMAIN memories |-> memories[i]]
  BY Quiet DEF Resting, IsList
<1>3. Succeeds(memories, captures, memories, captures')
  BY <1>1, <1>2, Same, Likewise DEF Resting
<1> QED BY <1>1, <1>3 DEF Evolves

LEMMA EvictEvolves ==
    ASSUME Resting, Evict
    PROVE  Evolves
<1>1. /\ Idle /\ UNCHANGED <<pages, up, packs, kept, torn, cut>>
      /\ note' = note /\ captures' = captures
  BY DEF Evict
<1>2. PICK out : Save(Superseded(out))
  BY DEF Evict
<1>3. Succeeds(memories, captures, Superseded(out), captures')
  BY <1>1, Archiving, Likewise
<1> QED BY <1>1, <1>2, <1>3 DEF Evolves

LEMMA DecayEvolves ==
    ASSUME Resting, Decay
    PROVE  Evolves
<1>1. /\ Idle /\ UNCHANGED <<pages, up, packs, kept, torn, cut>>
      /\ note' = note /\ captures' = captures
  BY DEF Decay
<1>2. PICK worn \in SUBSET Mortal : Save(Decayed(worn))
  BY DEF Decay
<1>3. PICK ms : ms = Decayed(worn)
  OBVIOUS
<1>4. ms = [i \in DOMAIN memories |-> ms[i]]
  BY <1>3 DEF Decayed
<1>5. ASSUME NEW i \in DOMAIN memories
      PROVE  Follows(memories[i], ms[i])
  <2>1. IsMemory(memories[i]) /\ memories[i].status \in {"active", "archived"}
    BY DEF Resting
  <2>2. \/ ms[i] = memories[i]
        \/ \E l, s : /\ s \in {"archived", memories[i].status}
                     /\ ms[i] = [memories[i] EXCEPT !.level = l, !.status = s]
    BY <1>3 DEF Decayed
  <2>3. CASE ms[i] = memories[i]
    BY <2>1, <2>3, Same
  <2>4. ASSUME NEW l, NEW s, s \in {"archived", memories[i].status},
               ms[i] = [memories[i] EXCEPT !.level = l, !.status = s]
        PROVE  Follows(memories[i], ms[i])
    <3>1. /\ IsMemory(ms[i]) /\ ms[i].status = s /\ ms[i].id = memories[i].id
          /\ ms[i].part = memories[i].part /\ Content(ms[i]) = Content(memories[i])
      BY <2>1, <2>4 DEF IsMemory, Content
    <3> QED BY <2>1, <2>4, <3>1 DEF Follows, Active
  <2> QED BY <2>2, <2>3, <2>4
<1>6. Succeeds(memories, captures, ms, captures')
  BY <1>1, <1>4, <1>5, Likewise
<1> QED BY <1>1, <1>2, <1>3, <1>6 DEF Evolves

(* Nothing of f's memories is lost when they are put together.             *)
LEMMA Piled ==
    ASSUME NEW f, NEW y \in DOMAIN f
    PROVE  Content(f[y]) \subseteq Before(f) \cup Below(f)
<1> DEFINE U == UNION {Content(f[j]) : j \in DOMAIN f}
<1>1. Below(f) = U \ Before(f)
  BY DEF Below
<1>2. Content(f[y]) \subseteq U
  OBVIOUS
<1> HIDE DEF U
<1>3. \A B : Content(f[y]) \subseteq B \cup (U \ B)
  BY <1>2
<1> QED BY <1>1, <1>3

LEMMA ConsolidateEvolves ==
    ASSUME Resting, Consolidate
    PROVE  Evolves
<1>1. /\ Idle /\ UNCHANGED <<pages, up, packs, kept, torn, cut>>
      /\ note' = note /\ captures' = captures
  BY DEF Consolidate
<1>2. PICK into \in Groupings : Save(Consolidated(into))
  BY DEF Consolidate
<1>3. PICK ms : ms = Consolidated(into)
  OBVIOUS
<1>4. ms = [i \in DOMAIN memories |-> ms[i]]
  BY <1>3 DEF Consolidated
<1>5. ASSUME NEW i \in DOMAIN memories
      PROVE  Follows(memories[i], ms[i])
  <2>1. IsMemory(memories[i]) /\ memories[i].status \in {"active", "archived"}
    BY DEF Resting
  <2>2. \/ ms[i] = memories[i] \/ ms[i] = Archived(memories[i])
        \/ \E l, f : /\ i \in DOMAIN f /\ f[i] = memories[i]
                     /\ ms[i] = [memories[i] EXCEPT !.level = l, !.notes = Before(f), !.behind = Below(f)]
    <3> DEFINE f == [j \in {k \in DOMAIN memories : into[k] = i} |-> memories[j]]
    <3>1. into[i] = i => i \in DOMAIN f /\ f[i] = memories[i]
      OBVIOUS
    <3>2. \/ ms[i] = memories[i] \/ ms[i] = Archived(memories[i])
          \/ /\ into[i] = i
             /\ \E l : ms[i] = [memories[i] EXCEPT !.level = l, !.notes = Before(f), !.behind = Below(f)]
      BY <1>3 DEF Consolidated
    <3> HIDE DEF f
    <3> QED BY <3>1, <3>2
  <2>3. CASE ms[i] = memories[i] \/ ms[i] = Archived(memories[i])
    BY <2>1, <2>3, Same
  <2>4. ASSUME NEW l, NEW f, i \in DOMAIN f, f[i] = memories[i],
               ms[i] = [memories[i] EXCEPT !.level = l, !.notes = Before(f), !.behind = Below(f)]
        PROVE  Follows(memories[i], ms[i])
    <3>1. /\ IsMemory(ms[i]) /\ ms[i].status = memories[i].status /\ ms[i].id = memories[i].id
          /\ ms[i].part = memories[i].part /\ ms[i].notes = Before(f) /\ ms[i].behind = Below(f)
      BY <2>1, <2>4 DEF IsMemory
    <3>2. Content(memories[i]) \subseteq Content(ms[i])
      BY <2>4, <3>1, Piled DEF Content
    <3> QED BY <2>1, <3>1, <3>2 DEF Follows, Active
  <2> QED BY <2>2, <2>3, <2>4
<1>6. Succeeds(memories, captures, ms, captures')
  BY <1>1, <1>4, <1>5, Likewise
<1> QED BY <1>1, <1>2, <1>3, <1>6 DEF Evolves

LEMMA Smallest ==
    ASSUME NEW S \in SUBSET Nat, S # {}
    PROVE  \E m \in S : \A k \in S : m <= k
<1>1. PICK R : /\ IsWellFoundedOn(R, Nat)
               /\ \A x, y \in Nat : <<y, x>> \in R <=> y < x
  <2>1. \A x, y \in Nat : <<y, x>> \in OpToRel(<, Nat) <=> y < x
    BY DEF OpToRel
  <2> QED BY <2>1, NatLessThanWellFounded, Zenon
<1>2. PICK x \in S : \A y \in S : ~(<<y, x>> \in R)
  BY <1>1, WFMin
<1>3. \A y \in S : x <= y
  <2> SUFFICES ASSUME NEW y \in S PROVE x <= y
    OBVIOUS
  <2>1. x \in Nat /\ y \in Nat /\ ~(<<y, x>> \in R)
    BY <1>2
  <2>2. ~(y < x)
    BY <1>1, <2>1, Zenon
  <2> QED BY <2>1, <2>2
<1> QED BY <1>3

LEMMA Least ==
    ASSUME NEW S \in SUBSET Nat, S # {}
    PROVE  Min(S) \in S
BY Smallest DEF Min

LEMMA Gathers ==
    ASSUME NEW n \in Nat, NEW ms, ms = [j \in 1..n |-> ms[j]], NEW i \in 1..n, NEW m,
           IsMemory(ms[i]), ms[i].status \in {"active", "archived"}
    PROVE  LET new == Gathered(ms, i, m) IN
           /\ new = [j \in 1..n |-> new[j]]
           /\ \A j \in 1..n : j # i => new[j] = ms[j]
           /\ Follows(ms[i], new[i]) /\ Content(m) \subseteq Content(new[i])
<1>1. PICK new : new = Gathered(ms, i, m)
  OBVIOUS
<1>2. new = [j \in 1..n |-> new[j]] /\ \A j \in 1..n : j # i => new[j] = ms[j]
  BY <1>1 DEF Gathered
<1>3. PICK f : f = <<ms[i], m>>
  OBVIOUS
<1>4. PICK l, g : new[i] = [ms[i] EXCEPT !.level = l, !.grave = g, !.notes = Before(f), !.behind = Below(f)]
  BY <1>1, <1>3 DEF Gathered
<1>5. Follows(ms[i], new[i]) /\ Content(m) \subseteq Content(new[i])
  <2>1. /\ IsMemory(new[i]) /\ new[i].status = ms[i].status /\ new[i].id = ms[i].id
        /\ new[i].part = ms[i].part /\ new[i].notes = Before(f) /\ new[i].behind = Below(f)
    BY <1>4 DEF IsMemory
  <2>2. 1 \in DOMAIN f /\ f[1] = ms[i] /\ 2 \in DOMAIN f /\ f[2] = m
    BY <1>3
  <2>3. Content(ms[i]) \subseteq Content(new[i]) /\ Content(m) \subseteq Content(new[i])
    BY <2>1, <2>2, Piled DEF Content
  <2> QED BY <2>1, <2>3 DEF Follows, Active
<1> QED BY <1>1, <1>2, <1>5

LEMMA ListGrows ==
    ASSUME NEW ms, IsList(ms), NEW m
    PROVE  /\ IsList(Append(ms, m)) /\ Len(Append(ms, m)) = Len(ms) + 1
           /\ DOMAIN Append(ms, m) = 1..(Len(ms) + 1)
           /\ \A i \in DOMAIN ms : Append(ms, m)[i] = ms[i]
           /\ Append(ms, m)[Len(ms) + 1] = m
<1>1. PICK S : ms \in Seq(S) /\ m \in S
  <2>1. ms \in Seq({ms[i] : i \in DOMAIN ms} \cup {m})
    BY DEF IsList
  <2> QED BY <2>1
<1>2. PICK new : new = Append(ms, m)
  OBVIOUS
<1>3. /\ new \in Seq(S) /\ Len(new) = Len(ms) + 1 /\ Len(ms) \in Nat
      /\ \A i \in 1..Len(ms) : new[i] = ms[i]
      /\ new[Len(ms) + 1] = m /\ DOMAIN ms = 1..Len(ms)
  BY <1>1, <1>2
<1>4. DOMAIN new = 1..(Len(ms) + 1) /\ new = [i \in 1..(Len(ms) + 1) |-> new[i]]
  BY <1>3
<1>5. IsList(new)
  BY <1>3, <1>4, ListOf
<1> QED BY <1>2, <1>3, <1>4, <1>5

(* A text that contradicts none of the active memories it does not join,   *)
(* and joins none, archives all the others of its partition.               *)
LEMMA CaptureEvolves ==
    ASSUME Resting, NEW text \in Texts, Capture(text)
    PROVE  Evolves
<1>1. PICK m : m = Memory(captures + 1, text)
  OBVIOUS
<1>2. PICK C : C = Conflicts(m.part, m.polarity)
  OBVIOUS
<1>3. PICK twins : twins = Twins(m.part, m.polarity)
  OBVIOUS
<1>4. PICK ms : ms = IF twins = {} THEN Append(Superseded(C), m) ELSE Gathered(Superseded(C), Min(twins), m)
  OBVIOUS
<1>5. /\ captures < MaxCaptures /\ captures' = m.id /\ note' = m.id /\ Save(ms)
      /\ UNCHANGED <<pages, up, packs, kept, torn, cut>>
  BY <1>1, <1>2, <1>3, <1>4 DEF Capture
<1>6. /\ IsMemory(m) /\ m.id = captures + 1 /\ Content(m) = {m.id} /\ m.status = "active"
  BY <1>1, Born
<1>7. PICK s : s = Superseded(C)
  OBVIOUS
<1>8. PICK n \in Nat : n = Len(memories) /\ DOMAIN memories = 1..n
  BY Quiet
<1>9. /\ \A i \in 1..n : Follows(memories[i], s[i]) /\ (i \in C => ~Active(s[i]))
      /\ s = [i \in 1..n |-> s[i]]
  BY <1>7, <1>8, Archiving
<1>10. IsList(s) /\ Len(s) = n /\ DOMAIN s = 1..n
  BY <1>8, <1>9, ListOf
<1>11. CASE twins = {}
  <2>1. /\ IsList(ms) /\ Len(ms) = n + 1 /\ DOMAIN ms = 1..(n + 1) /\ ms[n + 1] = m
        /\ \A i \in 1..n : ms[i] = s[i]
    BY <1>4, <1>7, <1>10, <1>11, ListGrows
  <2>2. ASSUME NEW i \in 1..n, s[i].part = m.part PROVE ~Active(s[i])
    <3> SUFFICES ASSUME Active(s[i]) PROVE FALSE
      OBVIOUS
    <3>1. Active(memories[i]) /\ memories[i].part = m.part
      BY <1>9, <2>2 DEF Follows
    <3>2. i \in Twins(m.part, m.polarity) \/ i \in Conflicts(m.part, m.polarity)
      BY <1>8, <3>1 DEF Twins, Conflicts
    <3> QED BY <1>2, <1>3, <1>9, <1>11, <3>2
  <2>3. Joins(ms, ms[Len(ms)], captures')
    <3>1. \A i \in DOMAIN ms : i < Len(ms) => i \in 1..n
      BY <2>1
    <3>2. ASSUME NEW i \in DOMAIN ms, i < Len(ms), ms[i].part = m.part PROVE ~Active(ms[i])
      BY <2>1, <2>2, <3>1, <3>2
    <3> QED BY <1>5, <1>6, <2>1, <3>2 DEF Joins
  <2>4. Succeeds(memories, captures, ms, captures')
    <3>1. Len(ms) = Len(memories) + 1 /\ captures' = captures + 1
      BY <1>5, <1>6, <1>8, <2>1
    <3>2. \A i \in DOMAIN memories : Follows(memories[i], ms[i])
      BY <1>8, <1>9, <2>1
    <3> QED BY <2>1, <2>3, <3>1, <3>2, Zenon DEF Succeeds
  <2>5. n + 1 \in DOMAIN ms /\ note' \in Content(ms[n + 1])
    BY <1>5, <1>6, <2>1
  <2> QED BY <1>5, <1>6, <2>4, <2>5 DEF Evolves
<1>12. CASE twins # {}
  <2>1. twins \subseteq 1..n
    BY <1>3, <1>8 DEF Twins
  <2>2. Min(twins) \in 1..n
    <3>1. twins \in SUBSET Nat
      BY <2>1
    <3> QED BY <1>12, <2>1, <3>1, Least
  <2>3. PICK i \in 1..n : i = Min(twins)
    BY <2>2
  <2>4. /\ ms = Gathered(s, i, m) /\ IsMemory(s[i]) /\ s[i].status \in {"active", "archived"}
    BY <1>4, <1>7, <1>9, <1>12, <2>3 DEF Follows
  <2>5. /\ ms = [j \in 1..n |-> ms[j]] /\ \A j \in 1..n : j # i => ms[j] = s[j]
        /\ Follows(s[i], ms[i]) /\ Content(m) \subseteq Content(ms[i])
    <3>1. i \in 1..n /\ s = [j \in 1..n |-> s[j]]
      BY <1>9
    <3>2. PICK new : new = Gathered(s, i, m)
      OBVIOUS
    <3>3. /\ new = [j \in 1..n |-> new[j]] /\ \A j \in 1..n : j # i => new[j] = s[j]
          /\ Follows(s[i], new[i]) /\ Content(m) \subseteq Content(new[i])
      BY <2>4, <3>1, <3>2, Gathers
    <3> QED BY <2>4, <3>2, <3>3
  <2>6. ASSUME NEW j \in 1..n PROVE Follows(memories[j], ms[j])
    BY <1>9, <2>5 DEF Follows
  <2>7. IsList(ms) /\ Len(ms) = n /\ DOMAIN ms = 1..n
    BY <2>5, ListOf
  <2>8. Succeeds(memories, captures, ms, captures')
    <3>1. Len(ms) = Len(memories) /\ captures' \in {captures, captures + 1}
      BY <1>5, <1>6, <1>8, <2>7
    <3>2. \A j \in DOMAIN memories : Follows(memories[j], ms[j])
      BY <1>8, <2>6
    <3> QED BY <2>7, <3>1, <3>2, Zenon DEF Succeeds
  <2>9. i \in DOMAIN ms /\ note' \in Content(ms[i])
    BY <1>5, <1>6, <2>5, <2>7
  <2> QED BY <1>5, <1>6, <2>8, <2>9 DEF Evolves
<1> QED BY <1>11, <1>12

-----------------------------------------------------------------------------
(* The steps that keep one voice                                           *)

LEMMA Rests ==
    ASSUME MemoryInv, Idle, packs = 0
    PROVE  /\ Consistent(memories, pages, captures, 0, FALSE, TRUE) /\ up = TRUE /\ at = 0 /\ half = FALSE
           /\ Resting
<1>1. Consistent(memories, pages, captures, at, half, up)
  BY DEF MemoryInv
<1>2. at = 0 /\ up
  BY DEF Idle
<1>3. Progress(memories, at, half, up) /\ Shape(memories, pages, captures)
  BY <1>1 DEF Consistent
<1>4. half = FALSE /\ up = TRUE
  BY <1>2, <1>3 DEF Progress
<1>5. Resting
  BY <1>3 DEF Shape, Resting
<1> QED BY <1>1, <1>2, <1>4, <1>5

LEMMA EvolvesStep ==
    ASSUME MemoryInv, Idle, packs = 0, Evolves
    PROVE  MemoryInv'
<1>1. PICK ms : /\ Save(ms) /\ Succeeds(memories, captures, ms, captures')
                /\ UNCHANGED <<pages, up, packs, kept, torn, cut>>
  BY DEF Evolves
<1>2. /\ memories' = ms /\ at' = (IF ms = <<>> THEN 0 ELSE 1) /\ half' = FALSE /\ up' = TRUE
      /\ pages' = pages /\ packs' = 0
  BY <1>1, Rests DEF Save
<1>3. Consistent(memories', pages', captures', at', half', up')
  BY <1>1, <1>2, Rests, SaveBegins
<1> QED BY <1>2, <1>3 DEF MemoryInv

LEMMA OperationStep ==
    ASSUME MemoryInv, packs = 0,
           (\E text \in Texts : Capture(text)) \/ Consolidate \/ Retrieve \/ Decay \/ Evict
    PROVE  MemoryInv'
<1>1. Idle
  BY DEF Capture, Consolidate, Retrieve, Decay, Evict
<1>2. Resting
  BY <1>1, Rests
<1>3. Evolves
  BY <1>2, CaptureEvolves, ConsolidateEvolves, RetrieveEvolves, DecayEvolves, EvictEvolves
<1> QED BY <1>1, <1>3, EvolvesStep

LEMMA StartStep ==
    ASSUME MemoryInv, StartPage, packs = 0
    PROVE  MemoryInv'
<1>1. /\ up /\ at > 0 /\ ~half /\ half' = TRUE /\ pages' = Filed(pages, Emptied(memories[at]))
      /\ UNCHANGED <<memories, at, up, captures, packs>>
  BY DEF StartPage
<1>2. Consistent(memories, pages, captures, at, half, up)
  BY DEF MemoryInv
<1>3. half = FALSE /\ up = TRUE
  BY <1>1, <1>2 DEF Consistent, Progress
<1>4. Consistent(memories', pages', captures', at', half', up')
  BY <1>1, <1>2, <1>3, PageBegun
<1> QED BY <1>1, <1>4 DEF MemoryInv

LEMMA FillStep ==
    ASSUME MemoryInv, FillPage, packs = 0
    PROVE  MemoryInv'
<1>1. /\ up /\ half /\ half' = FALSE /\ pages' = Filed(pages, PageOf(memories[at]))
      /\ at' = (IF at < Len(memories) THEN at + 1 ELSE 0)
      /\ UNCHANGED <<memories, up, captures, packs>>
  BY DEF FillPage
<1>2. Consistent(memories, pages, captures, at, half, up)
  BY DEF MemoryInv
<1>3. half = TRUE /\ up = TRUE
  BY <1>1, <1>2 DEF Consistent, Progress
<1>4. Consistent(memories', pages', captures', at', half', up')
  BY <1>1, <1>2, <1>3, PageDone
<1> QED BY <1>1, <1>4 DEF MemoryInv

LEMMA TimeStep ==
    ASSUME MemoryInv, NEW i \in DOMAIN memories, TimePasses(i), packs = 0
    PROVE  MemoryInv'
<1>1. /\ Idle /\ memories' = [memories EXCEPT ![i].due = "past"]
      /\ UNCHANGED <<pages, at, half, up, captures, packs>>
  BY DEF TimePasses
<1>2. Consistent([memories EXCEPT ![i].due = "past"], pages, captures, 0, FALSE, TRUE)
  BY <1>1, Rests, ArrayAges
<1> QED BY <1>1, <1>2, Rests DEF MemoryInv

LEMMA CrashStep ==
    ASSUME MemoryInv, Crash, packs = 0
    PROVE  MemoryInv'
<1>1. /\ up' = FALSE /\ at' = 0 /\ half' = FALSE /\ memories' = <<>>
      /\ UNCHANGED <<pages, captures, packs>>
  BY DEF Crash
<1>2. Consistent(memories, pages, captures, at, half, up)
  BY DEF MemoryInv
<1>3. Consistent(memories', pages', captures', at', half', up')
  BY <1>1, <1>2, ArrayLost
<1> QED BY <1>1, <1>3 DEF MemoryInv

LEMMA ReloadStep ==
    ASSUME MemoryInv, Reload, packs = 0
    PROVE  MemoryInv'
<1>1. /\ ~up /\ up' = TRUE
      /\ UNCHANGED <<pages, at, half, captures, packs>>
  BY DEF Reload
<1>2. Legible = Readable(pages)
  BY DEF Legible, Readable
<1>3. PICK order \in SetToSeqs(Readable(pages)) : memories' = [i \in DOMAIN order |-> [pages[order[i]] EXCEPT !.behind = {}]]
  BY <1>2 DEF Reload
<1>4. Consistent(memories, pages, captures, at, half, up)
  BY DEF MemoryInv
<1>5. up = FALSE /\ at = 0 /\ half = FALSE /\ memories = <<>>
  BY <1>1, <1>4 DEF Consistent, Progress
<1>6. Consistent(memories', pages', captures', at', half', up')
  BY <1>1, <1>3, <1>4, <1>5, ArrayReadBack
<1> QED BY <1>1, <1>6 DEF MemoryInv

LEMMA InitMemory == Init => MemoryInv
<1> SUFFICES ASSUME Init PROVE MemoryInv
  OBVIOUS
<1>1. /\ memories = <<>> /\ pages = <<>> /\ at = 0 /\ half = FALSE /\ up = TRUE
      /\ captures = 0 /\ packs = 0
  BY DEF Init
<1>2. DOMAIN <<>> = {} /\ Len(<<>>) = 0 /\ IsList(<<>>)
  BY DEF IsList
<1>3. Shape(<<>>, <<>>, 0) /\ Progress(<<>>, 0, FALSE, TRUE)
  BY <1>2 DEF Shape, Progress
<1>4. Mirrored(<<>>, <<>>, 0, FALSE) /\ Alone(<<>>) /\ Overruled(<<>>, <<>>, 0) /\ Found(<<>>, <<>>, TRUE)
  BY <1>2 DEF Mirrored, Alone, Overruled, Found, Readable
<1>5. Consistent(<<>>, <<>>, 0, 0, FALSE, TRUE)
  BY <1>3, <1>4 DEF Consistent
<1> QED BY <1>1, <1>5 DEF MemoryInv

(* After the first pack there is nothing to show.                          *)
LEMMA NextMemory == MemoryInv /\ [Next]_vars => MemoryInv'
<1> SUFFICES ASSUME MemoryInv, [Next]_vars PROVE MemoryInv'
  OBVIOUS
<1>1. packs \in Nat
  BY DEF MemoryInv
<1>2. CASE LoadFromVerifiedPack
  <2>1. packs' = packs + 1
    BY <1>2 DEF LoadFromVerifiedPack
  <2> QED BY <1>1, <2>1 DEF MemoryInv
<1>3. CASE UNCHANGED vars
  BY <1>3 DEF vars, MemoryInv
<1>4. CASE packs # 0 /\ packs' = packs
  BY <1>1, <1>4 DEF MemoryInv
<1>5. CASE packs = 0 /\ ~LoadFromVerifiedPack /\ Next
  BY <1>5, OperationStep, StartStep, FillStep, TimeStep, CrashStep, ReloadStep DEF Next
<1>6. ASSUME Next, ~LoadFromVerifiedPack PROVE packs' = packs
  BY <1>6 DEF Next, Capture, Consolidate, Retrieve, Decay, Evict, StartPage, FillPage, TimePasses,
              Crash, Reload
<1> QED BY <1>2, <1>3, <1>4, <1>5, <1>6

(* Whatever is captured, consolidated and evicted, and wherever crashes    *)
(* cut saves short, a partition speaks with one voice until a pack is      *)
(* mounted: no wiki a crash leaves has two active pages of it.             *)
THEOREM OneVoiceAlways == Spec => []OneVoice
<1>1. MemoryInv => OneVoice
  <2> SUFFICES ASSUME MemoryInv, packs = 0 PROVE Alone(memories)
    BY DEF OneVoice, Alone
  <2> QED BY DEF MemoryInv, Consistent
<1> QED BY <1>1, InitMemory, NextMemory, PTL DEF Spec

-----------------------------------------------------------------------------
(* Notes and archived memories, whatever packs are mounted                 *)

(* The numbers of the captures to come, of which no memory has one.        *)
Unused(n) == (n + 1) .. MaxCaptures

IsArray(ms, n) ==
    /\ IsList(ms)
    /\ \A i \in DOMAIN ms : /\ IsMemory(ms[i]) /\ ms[i].status \in {"active", "archived"}
                            /\ ms[i].id \notin Unused(n)
    /\ \A i, j \in DOMAIN ms : ms[i].id = ms[j].id => i = j

IsWiki(ps, n) ==
    /\ IsFiniteSet(DOMAIN ps)
    /\ \A id \in DOMAIN ps : /\ IsMemory(ps[id]) /\ ps[id].id = id /\ id \notin Unused(n)
                             /\ ps[id].status \in {"active", "archived", "torn"}
                             /\ ps[id].status = "torn" => Content(ps[id]) = {}

(* No memory is active whose page is archived.                             *)
Agree(ms, ps) ==
    \A i \in DOMAIN ms :
        ms[i].id \in DOMAIN ps /\ ps[ms[i].id].status = "archived" => ~Active(ms[i])

(* The note n is on a page and in the memory of that page.                 *)
Held(n, ms, ps) ==
    \E i \in DOMAIN ms : /\ ms[i].id \in DOMAIN ps
                          /\ n \in Content(ps[ms[i].id]) /\ n \in Content(ms[i])

(* Every note of S is on a page; while the process runs the memory of that *)
(* page has it too, which is all there is when h says the page is emptied. *)
Safe(S, ms, ps, a, h, u) ==
    \A n \in S : IF u THEN Held(n, ms, ps) \/ (h /\ n \in Content(ms[a]))
                 ELSE \E id \in DOMAIN ps : n \in Content(ps[id])

Known(ms, ps) == Readable(ps) \subseteq {ms[i].id : i \in DOMAIN ms}

(* The note being captured is in the array, and on the page of its memory  *)
(* once the save has come past it.                                         *)
Pending(ms, ps, a, last) ==
    last # 0 => /\ a > 0
                /\ \E i \in DOMAIN ms :
                      /\ last \in Content(ms[i])
                      /\ i < a => ms[i].id \in DOMAIN ps /\ last \in Content(ps[ms[i].id])

NotesInv ==
    /\ captures \in Nat /\ IsArray(memories, captures) /\ IsWiki(pages, captures)
    /\ Progress(memories, at, half, up) /\ Agree(memories, pages)
    /\ (up => Known(memories, pages)) /\ Pending(memories, pages, at, note)
    /\ Safe(kept \ (torn \cup cut), memories, pages, at, half, up)

(* What any operation makes of the array: the memories it had follow       *)
(* themselves, and the new ones have numbers that none had.                *)
Grows(ms, new, n) ==
    /\ IsArray(new, n) /\ DOMAIN ms \subseteq DOMAIN new
    /\ \A i \in DOMAIN ms : Follows(ms[i], new[i])
    /\ \A i \in DOMAIN new : i \notin DOMAIN ms => \A j \in DOMAIN ms : new[i].id # ms[j].id

LEMMA GrownAgrees ==
    ASSUME NEW ms, NEW ps, NEW n, NEW m, NEW new, IsArray(ms, n), IsWiki(ps, n), Agree(ms, ps), Known(ms, ps),
           Grows(ms, new, m)
    PROVE  Agree(new, ps) /\ Known(new, ps)
<1>1. Known(new, ps)
  BY DEF Known, Grows, Follows
<1>2. ASSUME NEW i \in DOMAIN new, new[i].id \in DOMAIN ps, ps[new[i].id].status = "archived"
      PROVE  ~Active(new[i])
  <2>1. CASE i \in DOMAIN ms
    BY <1>2, <2>1 DEF Grows, Follows, Agree
  <2>2. CASE i \notin DOMAIN ms
    <3>1. new[i].id \notin Readable(ps)
      BY <2>2 DEF Grows, Known
    <3> QED BY <1>2, <3>1 DEF Readable
  <2> QED BY <2>1, <2>2
<1> QED BY <1>1, <1>2 DEF Agree

LEMMA GrownKeeps ==
    ASSUME NEW S, NEW ms, NEW ps, NEW n, NEW new, Grows(ms, new, n), Safe(S, ms, ps, 0, FALSE, TRUE)
    PROVE  \A a : Safe(S, new, ps, a, FALSE, TRUE)
<1>1. ASSUME NEW x \in S PROVE Held(x, new, ps)
  <2>1. PICK i \in DOMAIN ms : ms[i].id \in DOMAIN ps /\ x \in Content(ps[ms[i].id]) /\ x \in Content(ms[i])
    BY DEF Safe, Held
  <2>2. i \in DOMAIN new /\ new[i].id = ms[i].id /\ Content(ms[i]) \subseteq Content(new[i])
    BY <2>1 DEF Grows, Follows
  <2>3. x \in Content(new[i])
    BY <2>1, <2>2
  <2> QED BY <2>1, <2>2, <2>3 DEF Held
<1> QED BY <1>1 DEF Safe

LEMMA Fewer ==
    ASSUME NEW n \in Nat, MaxCaptures \in Nat
    PROVE  /\ Unused(n + 1) \subseteq Unused(n) /\ n + 1 \notin Unused(n + 1)
           /\ n < MaxCaptures => n + 1 \in Unused(n)
BY DEF Unused

LEMMA Rested ==
    ASSUME NotesInv, Idle
    PROVE  /\ Resting /\ at = 0 /\ half = FALSE /\ up = TRUE /\ note = 0
           /\ Known(memories, pages) /\ Safe(kept \ (torn \cup cut), memories, pages, 0, FALSE, TRUE)
<1>1. at = 0 /\ up = TRUE /\ half = FALSE
  BY DEF NotesInv, Idle, Progress
<1>2. Resting
  BY DEF NotesInv, IsArray, Resting
<1>3. note = 0
  BY <1>1 DEF NotesInv, Pending
<1> QED BY <1>1, <1>2, <1>3 DEF NotesInv

LEMMA EvolvesKeeps ==
    ASSUME MemoryAssumption, NotesInv, Idle, Evolves
    PROVE  NotesInv'
<1>1. PICK ms : /\ Save(ms) /\ Succeeds(memories, captures, ms, captures')
                /\ UNCHANGED <<pages, up, packs, kept, torn, cut>>
                /\ \/ captures' = captures /\ note' = note
                   \/ /\ captures < MaxCaptures /\ captures' = captures + 1
                      /\ \E i \in DOMAIN ms : note' \in Content(ms[i])
  BY DEF Evolves
<1>2. /\ memories' = ms /\ at' = (IF ms = <<>> THEN 0 ELSE 1) /\ half' = FALSE /\ up' = TRUE /\ pages' = pages
      /\ kept' = kept /\ torn' = torn /\ cut' = cut
  BY <1>1, Rested DEF Save
<1>3. /\ IsArray(memories, captures) /\ IsWiki(pages, captures) /\ captures \in Nat /\ Agree(memories, pages)
      /\ MaxCaptures \in Nat
  BY DEF NotesInv, MemoryAssumption
<1>4. /\ captures' \in Nat /\ Unused(captures') \subseteq Unused(captures)
      /\ captures' # captures => captures' \in Unused(captures) /\ captures' \notin Unused(captures')
  BY <1>1, <1>3, Fewer
<1>5. IsWiki(pages, captures')
  BY <1>3, <1>4 DEF IsWiki
<1>6. /\ DOMAIN memories \subseteq DOMAIN ms
      /\ \A i \in DOMAIN ms : i \notin DOMAIN memories =>
             i = Len(ms) /\ captures' = captures + 1 /\ Joins(ms, ms[i], captures')
  BY <1>1, <1>3, Indices DEF IsArray
<1>7. \A i \in DOMAIN memories : Follows(memories[i], ms[i])
  BY <1>1 DEF Succeeds
<1>8. ASSUME NEW i \in DOMAIN ms, i \notin DOMAIN memories
      PROVE  /\ IsMemory(ms[i]) /\ ms[i].status = "active" /\ ms[i].id = captures' /\ i = Len(ms)
             /\ captures' \in Unused(captures) /\ captures' \notin Unused(captures')
             /\ \A j \in DOMAIN memories : ms[i].id # memories[j].id
  <2>1. captures' = captures + 1 /\ Joins(ms, ms[i], captures') /\ i = Len(ms)
    BY <1>6, <1>8
  <2>2. captures' # captures
    BY <1>3, <2>1
  <2> QED BY <1>3, <1>4, <2>1, <2>2 DEF Joins, IsArray
<1>9. IsArray(ms, captures')
  <2>1. IsList(ms)
    BY <1>1 DEF Succeeds
  <2>2. ASSUME NEW i \in DOMAIN ms
        PROVE  IsMemory(ms[i]) /\ ms[i].status \in {"active", "archived"} /\ ms[i].id \notin Unused(captures')
    <3>1. CASE i \in DOMAIN memories
      BY <1>3, <1>4, <1>7, <3>1 DEF Follows, IsArray
    <3> QED BY <1>8, <3>1
  <2>3. ASSUME NEW i \in DOMAIN ms, NEW j \in DOMAIN ms, ms[i].id = ms[j].id PROVE i = j
    <3>1. CASE i \in DOMAIN memories /\ j \in DOMAIN memories
      BY <1>3, <1>7, <2>3, <3>1 DEF Follows, IsArray
    <3>2. CASE i \notin DOMAIN memories /\ j \notin DOMAIN memories
      BY <1>8, <3>2
    <3>3. ASSUME NEW k \in DOMAIN memories, NEW l \in DOMAIN ms, l \notin DOMAIN memories
          PROVE  ms[k].id # ms[l].id
      BY <1>7, <1>8, <3>3 DEF Follows
    <3> QED BY <2>3, <3>1, <3>2, <3>3
  <2> QED BY <2>1, <2>2, <2>3 DEF IsArray
<1>10. Grows(memories, ms, captures')
  BY <1>6, <1>7, <1>8, <1>9 DEF Grows
<1>11. Agree(ms, pages) /\ Known(ms, pages)
  BY <1>3, <1>10, Rested, GrownAgrees
<1>12. Len(ms) \in Nat /\ DOMAIN ms = 1..Len(ms) /\ (ms = <<>> <=> Len(ms) = 0)
  BY <1>9, ListFacts DEF IsArray
<1>13. Progress(ms, at', FALSE, TRUE)
  BY <1>2, <1>12 DEF Progress
<1>14. Pending(ms, pages, at', note')
  <2>1. CASE note' = note
    BY <2>1, Rested DEF Pending
  <2>2. CASE \E i \in DOMAIN ms : note' \in Content(ms[i])
    <3>1. PICK i \in DOMAIN ms : note' \in Content(ms[i])
      BY <2>2
    <3>2. at' = 1 /\ ~(i < 1)
      BY <1>2, <1>12
    <3> QED BY <3>1, <3>2 DEF Pending
  <2> QED BY <1>1, <2>1, <2>2
<1>15. Safe(kept \ (torn \cup cut), ms, pages, at', FALSE, TRUE)
  BY <1>10, Rested, GrownKeeps
<1> QED BY <1>2, <1>4, <1>5, <1>9, <1>11, <1>13, <1>14, <1>15 DEF NotesInv

LEMMA OperationKeeps ==
    ASSUME MemoryAssumption, NotesInv,
           (\E text \in Texts : Capture(text)) \/ Consolidate \/ Retrieve \/ Decay \/ Evict
    PROVE  NotesInv'
<1>1. Idle
  BY DEF Capture, Consolidate, Retrieve, Decay, Evict
<1>2. Resting
  BY <1>1, Rested
<1>3. Evolves
  BY <1>2, CaptureEvolves, ConsolidateEvolves, RetrieveEvolves, DecayEvolves, EvictEvolves
<1> QED BY <1>1, <1>3, EvolvesKeeps

(* One entry of a pack: it raises a memory, or is one.                     *)
LEMMA OneMounted ==
    ASSUME NEW n, NEW old, NEW ms, IsArray(old, n), Grows(old, ms, n),
           NEW item, IsMemory(item), item.status = "active", item.id \notin Unused(n)
    PROVE  Grows(old, Mounted(ms, item), n)
<1>1. PICK new : new = Mounted(ms, item)
  OBVIOUS
<1>2. PICK p \in Nat : p = Len(ms) /\ DOMAIN ms = 1..p
  BY ListFacts DEF Grows, IsArray
<1>3. IsArray(ms, n) /\ IsList(ms)
  BY DEF Grows, IsArray
<1>4. CASE \E i \in DOMAIN ms : ms[i].id = item.id
  <2>1. new = [i \in 1..p |-> IF ms[i].id # item.id THEN ms[i]
                  ELSE [ms[i] EXCEPT !.level = Max({ms[i].level, item.level}),
                                     !.grave = ms[i].grave \/ item.grave]]
    BY <1>1, <1>2, <1>4 DEF Mounted
  <2>2. IsList(new) /\ DOMAIN new = 1..p
    <3>1. new = [i \in 1..p |-> new[i]]
      BY <2>1
    <3> QED BY <3>1, ListOf
  <2>3. ASSUME NEW i \in 1..p
        PROVE  /\ IsMemory(new[i]) /\ new[i].id = ms[i].id /\ new[i].status = ms[i].status
               /\ new[i].part = ms[i].part /\ Content(new[i]) = Content(ms[i])
    <3>1. IsMemory(ms[i])
      BY <1>2, <1>3 DEF IsArray
    <3>2. \/ new[i] = ms[i]
          \/ \E l, g : new[i] = [ms[i] EXCEPT !.level = l, !.grave = g]
      BY <2>1
    <3> QED BY <3>1, <3>2 DEF IsMemory, Content
  <2>4. IsArray(new, n)
    BY <1>2, <1>3, <2>2, <2>3 DEF IsArray
  <2>5. ASSUME NEW i \in DOMAIN old PROVE Follows(old[i], new[i])
    <3>1. Follows(old[i], ms[i]) /\ i \in 1..p
      BY <1>2 DEF Grows
    <3> QED BY <2>3, <3>1 DEF Follows, Active
  <2> QED BY <1>1, <1>2, <2>2, <2>3, <2>4, <2>5 DEF Grows
<1>5. CASE ~\E i \in DOMAIN ms : ms[i].id = item.id
  <2>1. new = Append(ms, item)
    BY <1>1, <1>5 DEF Mounted
  <2>2. /\ IsList(new) /\ DOMAIN new = 1..(p + 1) /\ new[p + 1] = item
        /\ \A i \in 1..p : new[i] = ms[i]
    BY <1>2, <1>3, <2>1, ListGrows
  <2>3. \A i \in 1..(p + 1) : i = p + 1 \/ i \in 1..p
    BY <1>2
  <2>4. IsArray(new, n)
    BY <1>2, <1>3, <1>5, <2>2, <2>3 DEF IsArray
  <2>5. DOMAIN old \subseteq 1..p /\ 1..p \subseteq 1..(p + 1)
    BY <1>2 DEF Grows
  <2>6. ASSUME NEW i \in DOMAIN new, i \notin DOMAIN old, NEW j \in DOMAIN old PROVE new[i].id # old[j].id
    <3>1. CASE i \in 1..p
      BY <1>2, <2>2, <2>6, <3>1 DEF Grows
    <3>2. CASE i = p + 1
      <4>1. ms[j].id = old[j].id /\ j \in DOMAIN ms
        BY <2>6 DEF Grows, Follows
      <4> QED BY <1>5, <2>2, <3>2, <4>1
    <3> QED BY <2>2, <2>3, <2>6, <3>1, <3>2
  <2>7. \A i \in DOMAIN old : Follows(old[i], new[i])
    BY <2>2, <2>5 DEF Grows
  <2> QED BY <1>1, <2>2, <2>4, <2>5, <2>6, <2>7 DEF Grows
<1> QED BY <1>4, <1>5

(* f is the array after each of the first k entries.                       *)
Mounts(f, pack, k) ==
    /\ f = [j \in 0..k |-> f[j]] /\ f[0] = memories
    /\ \A j \in 1..k : f[j] = Mounted(f[j - 1], pack[j])

LEMMA MountingIs ==
    ASSUME NEW pack, Len(pack) \in Nat
    PROVE  Mounts(Mounting(pack), pack, Len(pack))
<1> DEFINE bad == {k \in 0 .. Len(pack) : ~\E f : Mounts(f, pack, k)}
<1>1. ASSUME bad # {} PROVE FALSE
  <2>1. PICK m \in bad : \A k \in bad : m <= k
    <3>1. bad \in SUBSET Nat
      OBVIOUS
    <3> HIDE DEF bad
    <3> QED BY <1>1, <3>1, Smallest
  <2>2. CASE m = 0
    <3>1. Mounts([j \in 0 .. 0 |-> memories], pack, 0)
      BY DEF Mounts
    <3> QED BY <2>1, <2>2, <3>1
  <2>3. CASE m # 0
    <3>1. m - 1 \in 0 .. Len(pack) /\ m - 1 \notin bad /\ m \in Nat
      BY <2>1, <2>3
    <3>2. PICK f : Mounts(f, pack, m - 1)
      BY <3>1
    <3>3. PICK g : g = [j \in 0 .. m |-> IF j = m THEN Mounted(f[m - 1], pack[m]) ELSE f[j]]
      OBVIOUS
    <3>4. /\ g = [j \in 0 .. m |-> g[j]] /\ g[0] = f[0] /\ g[m] = Mounted(f[m - 1], pack[m]) /\ g[m - 1] = f[m - 1]
          /\ \A j \in 1 .. m - 1 : g[j] = f[j] /\ g[j - 1] = f[j - 1]
      BY <2>3, <3>1, <3>3
    <3>5. \A j \in 1 .. m : j = m \/ j \in 1 .. m - 1
      BY <3>1
    <3>6. Mounts(g, pack, m)
      BY <3>2, <3>4, <3>5 DEF Mounts
    <3> QED BY <2>1, <3>6
  <2> QED BY <2>2, <2>3
<1>2. PICK f : Mounts(f, pack, Len(pack))
  <2>1. Len(pack) \in 0 .. Len(pack)
    OBVIOUS
  <2> QED BY <1>1, <2>1
<1>3. f = [k \in 0 .. Len(pack) |-> IF k = 0 THEN memories ELSE Mounted(f[k - 1], pack[k])]
  BY <1>2 DEF Mounts
<1>4. Mounting(pack) = CHOOSE h : h = [k \in 0 .. Len(pack) |-> IF k = 0 THEN memories
                                                             ELSE Mounted(h[k - 1], pack[k])]
  BY DEF Mounting
<1>5. PICK g : g = Mounting(pack)
  OBVIOUS
<1>6. g = [k \in 0 .. Len(pack) |-> IF k = 0 THEN memories ELSE Mounted(g[k - 1], pack[k])]
  BY <1>3, <1>4, <1>5
<1>7. Mounts(g, pack, Len(pack))
  BY <1>6 DEF Mounts
<1> QED BY <1>5, <1>7

LEMMA MountKeeps ==
    ASSUME MemoryAssumption, NotesInv, LoadFromVerifiedPack
    PROVE  NotesInv'
<1> PICK pack \in Packs : /\ \A i \in DOMAIN pack : pack[i].id \notin (captures + 1)..MaxCaptures
                          /\ \E n \in 0..Len(pack) : Mount(pack, n)
  BY DEF LoadFromVerifiedPack
<1>1. PICK n \in 0..Len(pack) : Mount(pack, n)
  OBVIOUS
<1>2. Idle /\ UNCHANGED <<pages, up, note, captures, kept, torn, cut>>
  BY DEF LoadFromVerifiedPack
<1>3. /\ Len(pack) \in Nat /\ DOMAIN pack = 1..Len(pack)
      /\ \A i \in DOMAIN pack : IsMemory(pack[i]) /\ pack[i].status = "active" /\ pack[i].id \notin Unused(captures)
  <2>1. PICK S : S = {pack[i] : i \in DOMAIN pack}
    OBVIOUS
  <2>2. /\ pack \in Seq(S)
        /\ \A i \in DOMAIN pack : IsMemory(pack[i]) /\ pack[i].status = "active"
    BY <2>1, Zenon DEF MemoryAssumption
  <2>3. Len(pack) \in Nat /\ DOMAIN pack = 1..Len(pack)
    BY <2>2
  <2> QED BY <2>2, <2>3 DEF Unused
<1>4. PICK f : f = Mounting(pack) /\ Mounts(f, pack, Len(pack))
  BY <1>3, MountingIs
<1>5. PICK ms : ms = f[n]
  OBVIOUS
<1>6. (Save(ms) \/ (memories' = ms /\ UNCHANGED <<at, half>>))
  BY <1>1, <1>4, <1>5 DEF Mount
<1>7. IsArray(memories, captures) /\ IsWiki(pages, captures) /\ Agree(memories, pages) /\ captures \in Nat
  BY DEF NotesInv
<1>8. Grows(memories, ms, captures)
  <2> DEFINE bad == {k \in 0 .. Len(pack) : ~Grows(memories, f[k], captures)}
  <2>1. ASSUME bad # {} PROVE FALSE
    <3>1. PICK m \in bad : \A k \in bad : m <= k
      <4>1. bad \in SUBSET Nat
        OBVIOUS
      <4> HIDE DEF bad
      <4> QED BY <2>1, <4>1, Smallest
    <3>2. m # 0
      <4>1. \A i \in DOMAIN memories : Follows(memories[i], memories[i])
        BY <1>7, Same DEF IsArray
      <4>2. Grows(memories, memories, captures)
        BY <1>7, <4>1 DEF Grows
      <4> QED BY <1>4, <3>1, <4>2 DEF Mounts
    <3>3. m - 1 \in 0 .. Len(pack) /\ m - 1 \notin bad /\ m \in 1 .. Len(pack)
      BY <1>3, <3>1, <3>2
    <3>4. Grows(memories, f[m - 1], captures) /\ f[m] = Mounted(f[m - 1], pack[m])
      BY <1>4, <3>3 DEF Mounts
    <3>5. Grows(memories, f[m], captures)
      BY <1>3, <1>7, <3>3, <3>4, OneMounted
    <3> QED BY <3>1, <3>5
  <2> QED BY <1>1, <1>5, <2>1
<1>9. Agree(ms, pages) /\ Known(ms, pages) /\ IsArray(ms, captures)
  BY <1>2, <1>7, <1>8, Rested, GrownAgrees DEF Grows
<1>10. Len(ms) \in Nat /\ (ms = <<>> <=> Len(ms) = 0)
  BY <1>9, ListFacts DEF IsArray
<1>11. memories' = ms /\ half' = FALSE /\ up' = TRUE /\ at' \in {0, IF ms = <<>> THEN 0 ELSE 1} /\ note' = 0
  BY <1>2, <1>6, Rested DEF Save
<1>12. Progress(ms, at', FALSE, TRUE)
  BY <1>10, <1>11 DEF Progress
<1>13. Pending(ms, pages, at', note')
  BY <1>11 DEF Pending
<1>14. Safe(kept \ (torn \cup cut), ms, pages, at', FALSE, TRUE)
  <2>1. PICK S : S = kept \ (torn \cup cut)
    OBVIOUS
  <2>2. Safe(S, memories, pages, 0, FALSE, TRUE)
    BY <1>2, <2>1, Rested
  <2> QED BY <1>8, <2>1, <2>2, GrownKeeps
<1> QED BY <1>2, <1>7, <1>9, <1>11, <1>12, <1>13, <1>14 DEF NotesInv

(* The memory whose page is being written.                                 *)
LEMMA AtWrites ==
    ASSUME NotesInv, at > 0
    PROVE  /\ at \in DOMAIN memories /\ at \in Nat /\ DOMAIN memories = 1..Len(memories) /\ Len(memories) \in Nat
           /\ IsMemory(memories[at]) /\ memories[at].status \in {"active", "archived"}
           /\ memories[at].id \notin Unused(captures)
<1>1. IsList(memories) /\ at \in 0..Len(memories)
  BY DEF NotesInv, IsArray, Progress
<1>2. DOMAIN memories = 1..Len(memories) /\ Len(memories) \in Nat
  BY <1>1, ListFacts
<1>3. at \in DOMAIN memories /\ at \in Nat
  BY <1>1, <1>2
<1> QED BY <1>2, <1>3 DEF NotesInv, IsArray

(* One page is put in the place of another.                                *)
IsPage(page, n) ==
    /\ IsMemory(page) /\ page.id \notin Unused(n) /\ page.status \in {"active", "archived", "torn"}
    /\ page.status = "torn" => Content(page) = {}

Replaces(ps, qs, page, n) ==
    /\ IsWiki(qs, n) /\ DOMAIN qs = DOMAIN ps \cup {page.id} /\ qs[page.id] = page
    /\ \A id \in DOMAIN ps : id # page.id => qs[id] = ps[id]

LEMMA WikiFiled ==
    ASSUME NEW ps, NEW n, IsWiki(ps, n), NEW page, IsPage(page, n)
    PROVE  Replaces(ps, Filed(ps, page), page, n)
<1>1. PICK qs : qs = Filed(ps, page)
  OBVIOUS
<1>2. /\ DOMAIN qs = DOMAIN ps \cup {page.id} /\ qs[page.id] = page
      /\ \A id \in DOMAIN ps : id # page.id => qs[id] = ps[id]
  BY <1>1 DEF Filed
<1>3. IsFiniteSet(DOMAIN qs)
  BY <1>2, FS_AddElement DEF IsWiki
<1>4. IsWiki(qs, n)
  BY <1>2, <1>3 DEF IsWiki, IsPage
<1> QED BY <1>1, <1>2, <1>4 DEF Replaces

LEMMA StartKeeps ==
    ASSUME NotesInv, StartPage
    PROVE  NotesInv'
<1>1. /\ up /\ at > 0 /\ ~half /\ half' = TRUE /\ pages' = Filed(pages, Emptied(memories[at]))
      /\ UNCHANGED <<memories, at, up, note, captures, kept, torn, cut>>
  BY DEF StartPage
<1>2. PICK m : m = memories[at]
  OBVIOUS
<1>3. /\ at \in DOMAIN memories /\ at \in Nat /\ IsMemory(m) /\ m.id \notin Unused(captures)
  BY <1>1, <1>2, AtWrites
<1>4. PICK page : page = Emptied(m)
  OBVIOUS
<1>5. IsMemory(page) /\ page.status = "torn" /\ page.id = m.id /\ Content(page) = {}
  BY <1>3, <1>4, Empty
<1>6. PICK qs : qs = Filed(pages, page) /\ qs = pages'
  BY <1>1, <1>2, <1>4
<1>7. /\ IsWiki(qs, captures) /\ DOMAIN qs = DOMAIN pages \cup {m.id} /\ qs[m.id] = page
      /\ \A id \in DOMAIN pages : id # m.id => qs[id] = pages[id]
  <2>1. IsWiki(pages, captures) /\ IsPage(page, captures)
    BY <1>3, <1>5 DEF NotesInv, IsPage
  <2>2. Replaces(pages, qs, page, captures)
    BY <1>6, <2>1, WikiFiled
  <2> QED BY <1>5, <2>2 DEF Replaces
<1>8. Agree(memories, qs)
  <2> SUFFICES ASSUME NEW i \in DOMAIN memories, memories[i].id \in DOMAIN qs,
                      qs[memories[i].id].status = "archived"
               PROVE  ~Active(memories[i])
    BY DEF Agree
  <2>1. CASE memories[i].id = m.id
    BY <1>5, <1>7, <2>1
  <2>2. CASE memories[i].id # m.id
    BY <1>7, <2>2 DEF NotesInv, Agree
  <2> QED BY <2>1, <2>2
<1>9. Known(memories, qs)
  <2>1. Known(memories, pages)
    BY <1>1 DEF NotesInv
  <2>2. Readable(qs) \subseteq Readable(pages)
    BY <1>5, <1>7 DEF Readable
  <2> QED BY <2>1, <2>2 DEF Known
<1>10. Pending(memories, qs, at, note)
  <2> SUFFICES ASSUME note # 0
               PROVE  /\ at > 0
                      /\ \E i \in DOMAIN memories :
                            /\ note \in Content(memories[i])
                            /\ i < at => memories[i].id \in DOMAIN qs /\ note \in Content(qs[memories[i].id])
    BY DEF Pending
  <2>1. PICK i \in DOMAIN memories :
           /\ note \in Content(memories[i])
           /\ i < at => memories[i].id \in DOMAIN pages /\ note \in Content(pages[memories[i].id])
    BY DEF NotesInv, Pending
  <2>2. i < at => memories[i].id # m.id
    <3>1. memories[i].id = m.id => i = at
      BY <1>2, <1>3 DEF NotesInv, IsArray
    <3> QED BY <1>3, <3>1
  <2> QED BY <1>1, <1>7, <2>1, <2>2
<1>11. Progress(memories, at, TRUE, up)
  BY <1>1 DEF NotesInv, Progress
<1>12. \A i \in DOMAIN memories : i = at \/ memories[i].id # m.id
  BY <1>2, <1>3 DEF NotesInv, IsArray
<1>13. Safe(kept \ (torn \cup cut), memories, qs, at, TRUE, up)
  <2> SUFFICES ASSUME NEW x \in kept \ (torn \cup cut), x \notin Content(m)
               PROVE  Held(x, memories, qs)
    BY <1>1, <1>2 DEF Safe
  <2>1. Held(x, memories, pages)
    BY <1>1 DEF NotesInv, Safe
  <2>2. PICK i \in DOMAIN memories : /\ memories[i].id \in DOMAIN pages /\ x \in Content(pages[memories[i].id])
                                     /\ x \in Content(memories[i])
    BY <2>1 DEF Held
  <2>3. memories[i].id # m.id
    BY <1>2, <1>12, <2>2
  <2>4. memories[i].id \in DOMAIN qs /\ qs[memories[i].id] = pages[memories[i].id]
    BY <1>7, <2>2, <2>3
  <2> QED BY <2>2, <2>4 DEF Held
<1> QED BY <1>1, <1>6, <1>7, <1>8, <1>9, <1>10, <1>11, <1>13 DEF NotesInv

LEMMA FillKeeps ==
    ASSUME NotesInv, FillPage
    PROVE  NotesInv'
<1>1. /\ up /\ half /\ half' = FALSE /\ pages' = Filed(pages, PageOf(memories[at]))
      /\ at' = (IF at < Len(memories) THEN at + 1 ELSE 0)
      /\ note' = (IF at < Len(memories) THEN note ELSE 0)
      /\ kept' = (IF at < Len(memories) THEN kept ELSE kept \cup ({note} \ {0}))
      /\ UNCHANGED <<memories, up, captures, torn, cut>>
  BY DEF FillPage
<1>2. PICK m : m = memories[at]
  OBVIOUS
<1>3. /\ at > 0 /\ at \in DOMAIN memories /\ at \in Nat /\ IsMemory(m) /\ m.id \notin Unused(captures)
      /\ m.status \in {"active", "archived"} /\ DOMAIN memories = 1..Len(memories) /\ Len(memories) \in Nat
  <2>1. at > 0
    BY <1>1 DEF NotesInv, Progress
  <2> QED BY <1>2, <2>1, AtWrites
<1>4. PICK page : page = PageOf(m)
  OBVIOUS
<1>5. IsMemory(page) /\ page.status = m.status /\ page.id = m.id /\ Content(page) = Content(m)
  BY <1>3, <1>4, Paged
<1>6. PICK qs : qs = Filed(pages, page) /\ qs = pages'
  BY <1>1, <1>2, <1>4
<1>7. /\ IsWiki(qs, captures) /\ DOMAIN qs = DOMAIN pages \cup {m.id} /\ qs[m.id] = page
      /\ \A id \in DOMAIN pages : id # m.id => qs[id] = pages[id]
  <2>1. IsWiki(pages, captures) /\ IsPage(page, captures)
    BY <1>3, <1>5 DEF NotesInv, IsPage
  <2>2. Replaces(pages, qs, page, captures)
    BY <1>6, <2>1, WikiFiled
  <2> QED BY <1>5, <2>2 DEF Replaces
<1>8. Agree(memories, qs)
  <2> SUFFICES ASSUME NEW i \in DOMAIN memories, memories[i].id \in DOMAIN qs,
                      qs[memories[i].id].status = "archived"
               PROVE  ~Active(memories[i])
    BY DEF Agree
  <2>1. CASE memories[i].id = m.id
    <3>1. memories[i] = m
      BY <1>2, <1>3, <2>1 DEF NotesInv, IsArray
    <3> QED BY <1>5, <1>7, <3>1 DEF Active
  <2>2. CASE memories[i].id # m.id
    BY <1>7, <2>2 DEF NotesInv, Agree
  <2> QED BY <2>1, <2>2
<1>9. Known(memories, qs)
  <2>1. Known(memories, pages)
    BY <1>1 DEF NotesInv
  <2>2. Readable(qs) \subseteq Readable(pages) \cup {m.id}
    BY <1>7 DEF Readable
  <2> QED BY <1>2, <1>3, <2>1, <2>2 DEF Known
<1>10. ASSUME NEW i \in DOMAIN memories, note \in Content(memories[i]),
              i < at => memories[i].id \in DOMAIN pages /\ note \in Content(pages[memories[i].id]), i <= at
       PROVE  memories[i].id \in DOMAIN qs /\ note \in Content(qs[memories[i].id])
  <2>1. CASE i = at
    BY <1>2, <1>5, <1>7, <1>10, <2>1
  <2>2. CASE i # at
    <3>1. i < at
      BY <1>3, <1>10, <2>2
    <3>2. memories[i].id # m.id
      BY <1>2, <1>3, <2>2 DEF NotesInv, IsArray
    <3> QED BY <1>7, <1>10, <3>1, <3>2
  <2> QED BY <2>1, <2>2
<1>11. note # 0 => \E i \in DOMAIN memories :
                      /\ note \in Content(memories[i])
                      /\ i < at => memories[i].id \in DOMAIN pages /\ note \in Content(pages[memories[i].id])
  BY DEF NotesInv, Pending
<1>12. Pending(memories, qs, at', note')
  <2> SUFFICES ASSUME note' # 0
               PROVE  /\ at' > 0
                      /\ \E i \in DOMAIN memories :
                            /\ note' \in Content(memories[i])
                            /\ i < at' => memories[i].id \in DOMAIN qs /\ note' \in Content(qs[memories[i].id])
    BY DEF Pending
  <2>1. at < Len(memories) /\ note' = note /\ at' = at + 1 /\ note # 0
    BY <1>1
  <2>2. PICK i \in DOMAIN memories :
           /\ note \in Content(memories[i])
           /\ i < at => memories[i].id \in DOMAIN pages /\ note \in Content(pages[memories[i].id])
    BY <1>11, <2>1
  <2>3. i \in Nat /\ (i < at + 1 => i <= at) /\ at + 1 > 0
    BY <1>3
  <2> QED BY <1>10, <2>1, <2>2, <2>3
<1>13. Progress(memories, at', FALSE, up)
  BY <1>1, <1>3 DEF NotesInv, Progress
<1>14. at \in DOMAIN memories /\ memories[at].id \in DOMAIN qs /\ Content(qs[memories[at].id]) = Content(memories[at])
  BY <1>2, <1>3, <1>5, <1>7
<1>15. ASSUME NEW x \in kept \ (torn \cup cut) PROVE Held(x, memories, qs)
  <2>1. CASE x \in Content(memories[at])
    BY <1>14, <2>1 DEF Held
  <2>2. CASE x \notin Content(memories[at])
    <3>1. Held(x, memories, pages)
      BY <1>1, <2>2 DEF NotesInv, Safe
    <3>2. PICK i \in DOMAIN memories : /\ memories[i].id \in DOMAIN pages /\ x \in Content(pages[memories[i].id])
                                       /\ x \in Content(memories[i])
      BY <3>1 DEF Held
    <3>3. memories[i].id # m.id
      BY <1>2, <1>3, <2>2, <3>2 DEF NotesInv, IsArray
    <3>4. memories[i].id \in DOMAIN qs /\ qs[memories[i].id] = pages[memories[i].id]
      BY <1>7, <3>2, <3>3
    <3> QED BY <3>2, <3>4 DEF Held
  <2> QED BY <2>1, <2>2
<1>16. ASSUME ~(at < Len(memories)), note # 0 PROVE Held(note, memories, qs)
  <2>1. PICK i \in DOMAIN memories :
           /\ note \in Content(memories[i])
           /\ i < at => memories[i].id \in DOMAIN pages /\ note \in Content(pages[memories[i].id])
    BY <1>11, <1>16
  <2>2. i <= at
    BY <1>3, <1>16
  <2>3. memories[i].id \in DOMAIN qs /\ note \in Content(qs[memories[i].id])
    BY <1>10, <2>1, <2>2
  <2> QED BY <2>1, <2>3 DEF Held
<1>17. Safe(kept' \ (torn \cup cut), memories, qs, at', FALSE, up)
  <2>1. \A x \in kept' \ (torn \cup cut) :
           x \in kept \ (torn \cup cut) \/ (x = note /\ note # 0 /\ ~(at < Len(memories)))
    BY <1>1
  <2>2. \A x \in kept' \ (torn \cup cut) : Held(x, memories, qs)
    BY <1>15, <1>16, <2>1
  <2> QED BY <1>1, <2>2 DEF Safe
<1> QED BY <1>1, <1>6, <1>7, <1>8, <1>9, <1>12, <1>13, <1>17 DEF NotesInv

LEMMA TimeKeeps ==
    ASSUME NotesInv, NEW i \in DOMAIN memories, TimePasses(i)
    PROVE  NotesInv'
<1>1. /\ Idle /\ memories' = [memories EXCEPT ![i].due = "past"]
      /\ UNCHANGED <<pages, at, half, up, note, captures, kept, torn, cut>>
  BY DEF TimePasses
<1>2. PICK m : m = [memories[i] EXCEPT !.due = "past"]
  OBVIOUS
<1>3. IsMemory(memories[i]) /\ IsArray(memories, captures) /\ Agree(memories, pages) /\ Known(memories, pages)
  BY <1>1, Rested DEF NotesInv, IsArray
<1>4. /\ IsMemory(m) /\ m.status = memories[i].status /\ m.id = memories[i].id /\ m.part = memories[i].part
      /\ Content(m) = Content(memories[i])
  BY <1>2, <1>3, Aged
<1>5. PICK n \in Nat : n = Len(memories) /\ DOMAIN memories = 1..n
  BY <1>3, ListFacts DEF IsArray
<1>6. PICK ms : ms = memories' /\ ms = [j \in 1..n |-> IF j = i THEN m ELSE memories[j]]
  BY <1>1, <1>2, <1>5
<1>7. IsList(ms) /\ Len(ms) = n /\ DOMAIN ms = 1..n
  <2>1. ms = [j \in 1..n |-> ms[j]]
    BY <1>6
  <2> QED BY <2>1, ListOf
<1>8. \A j \in 1..n : /\ IsMemory(ms[j]) /\ ms[j].status = memories[j].status /\ ms[j].id = memories[j].id
                      /\ ms[j].part = memories[j].part /\ Content(ms[j]) = Content(memories[j])
  BY <1>3, <1>4, <1>5, <1>6 DEF IsArray
<1>9. IsArray(ms, captures)
  BY <1>3, <1>5, <1>7, <1>8 DEF IsArray
<1>10. Agree(ms, pages) /\ Known(ms, pages)
  BY <1>3, <1>5, <1>7, <1>8 DEF Agree, Known, Active
<1>11. Progress(ms, at, half, up)
  BY <1>1, <1>5, <1>7, Rested DEF Progress
<1>12. Pending(ms, pages, at, note)
  BY <1>1, Rested DEF Pending
<1>13. Safe(kept \ (torn \cup cut), ms, pages, at, half, up)
  <2> SUFFICES ASSUME NEW x \in kept \ (torn \cup cut) PROVE Held(x, ms, pages)
    BY <1>1, Rested DEF Safe
  <2>1. Held(x, memories, pages)
    BY <1>1, Rested DEF Safe
  <2>2. PICK k \in DOMAIN memories : /\ memories[k].id \in DOMAIN pages /\ x \in Content(pages[memories[k].id])
                                     /\ x \in Content(memories[k])
    BY <2>1 DEF Held
  <2>3. k \in DOMAIN ms /\ ms[k].id = memories[k].id /\ x \in Content(ms[k])
    BY <1>5, <1>7, <1>8, <2>2
  <2> QED BY <2>2, <2>3 DEF Held
<1> QED BY <1>1, <1>6, <1>9, <1>10, <1>11, <1>12, <1>13 DEF NotesInv

LEMMA CrashKeepsNotes ==
    ASSUME NotesInv, Crash
    PROVE  NotesInv'
<1>1. /\ torn' = (IF half THEN torn \cup Content(memories[at]) ELSE torn)
      /\ up' = FALSE /\ at' = 0 /\ half' = FALSE /\ note' = 0 /\ memories' = <<>>
      /\ up /\ UNCHANGED <<pages, captures, kept, cut>>
  BY DEF Crash
<1>2. DOMAIN <<>> = {} /\ Len(<<>>) = 0 /\ IsList(<<>>)
  BY DEF IsList
<1>3. IsArray(<<>>, captures) /\ Agree(<<>>, pages) /\ Progress(<<>>, 0, FALSE, FALSE) /\ Pending(<<>>, pages, 0, 0)
  BY <1>2 DEF IsArray, Agree, Progress, Pending
<1>4. ASSUME NEW x \in kept \ (torn' \cup cut) PROVE \E id \in DOMAIN pages : x \in Content(pages[id])
  <2>1. x \in kept \ (torn \cup cut) /\ ~(half /\ x \in Content(memories[at]))
    BY <1>1, <1>4
  <2>2. Held(x, memories, pages)
    BY <1>1, <2>1 DEF NotesInv, Safe
  <2> QED BY <2>2 DEF Held
<1>5. Safe(kept \ (torn' \cup cut), <<>>, pages, 0, FALSE, FALSE)
  BY <1>4 DEF Safe
<1> QED BY <1>1, <1>3, <1>5 DEF NotesInv

(* A page is read up to the first heading in its content.                  *)
LEMMA ReloadKeeps ==
    ASSUME NotesInv, Reload
    PROVE  NotesInv'
<1>1. /\ ~up /\ up' = TRUE
      /\ UNCHANGED <<pages, at, half, note, captures, kept, torn>>
  BY DEF Reload
<1>2. Legible = Readable(pages)
  BY DEF Legible, Readable
<1>3. PICK order \in SetToSeqs(Readable(pages)) : memories' = [i \in DOMAIN order |-> [pages[order[i]] EXCEPT !.behind = {}]]
  BY <1>2 DEF Reload
<1>4. IsWiki(pages, captures) /\ at = 0 /\ half = FALSE /\ note = 0 /\ up = FALSE
  BY <1>1 DEF NotesInv, Progress, Pending
<1>5. IsFiniteSet(Readable(pages))
  <2>1. Readable(pages) \in SUBSET DOMAIN pages
    BY DEF Readable
  <2> QED BY <1>4, <2>1, FS_Subset DEF IsWiki
<1>6. PICK k \in Nat : DOMAIN order = 1..k
  BY <1>5, ReadInOrder
<1>7. /\ \A i \in DOMAIN order : order[i] \in Readable(pages)
      /\ \A i, j \in DOMAIN order : order[i] = order[j] => i = j
      /\ \A x \in Readable(pages) : \E i \in DOMAIN order : order[i] = x
  BY <1>5, ReadInOrder
<1>8. PICK ms : ms = memories' /\ ms = [i \in 1..k |-> [pages[order[i]] EXCEPT !.behind = {}]]
  BY <1>3, <1>6
<1>9. IsList(ms) /\ Len(ms) = k /\ DOMAIN ms = DOMAIN order
      /\ \A i \in DOMAIN order : ms[i] = [pages[order[i]] EXCEPT !.behind = {}]
  <2>1. ms = [i \in 1..k |-> ms[i]] /\ DOMAIN ms = 1..k
    BY <1>8
  <2>2. \A i \in 1..k : ms[i] = [pages[order[i]] EXCEPT !.behind = {}]
    BY <1>8
  <2> QED BY <1>6, <2>1, <2>2, ListOf
<1>10. ASSUME NEW i \in DOMAIN order
       PROVE  /\ order[i] \in DOMAIN pages /\ IsMemory(ms[i]) /\ ms[i].id = order[i]
              /\ ms[i].status \in {"active", "archived"} /\ ms[i].status = pages[order[i]].status
              /\ order[i] \notin Unused(captures) /\ Content(ms[i]) = pages[order[i]].notes
  <2>1. PICK m : m = pages[order[i]]
    OBVIOUS
  <2>2. order[i] \in Readable(pages) /\ ms[i] = [m EXCEPT !.behind = {}]
    BY <1>7, <1>9, <2>1
  <2>3. /\ order[i] \in DOMAIN pages /\ IsMemory(m) /\ m.id = order[i]
        /\ m.status \in {"active", "archived"} /\ order[i] \notin Unused(captures)
    BY <1>4, <2>1, <2>2 DEF IsWiki, Readable
  <2>4. IsMemory(ms[i]) /\ ms[i].status = m.status /\ ms[i].id = m.id /\ Content(ms[i]) = m.notes
    BY <2>2, <2>3, Shortened
  <2> QED BY <2>1, <2>3, <2>4
<1>11. IsArray(ms, captures)
  BY <1>7, <1>9, <1>10 DEF IsArray
<1>12. Agree(ms, pages)
  BY <1>9, <1>10 DEF Agree, Active
<1>13. Known(ms, pages)
  <2>1. ASSUME NEW x \in Readable(pages) PROVE x \in {ms[i].id : i \in DOMAIN ms}
    <3>1. PICK i \in DOMAIN order : order[i] = x
      BY <1>7
    <3>2. i \in DOMAIN ms /\ ms[i].id = x
      BY <1>9, <1>10, <3>1
    <3> QED BY <3>2
  <2> QED BY <2>1 DEF Known
<1>14. Progress(ms, 0, FALSE, TRUE) /\ Pending(ms, pages, 0, 0)
  BY <1>6, <1>9 DEF Progress, Pending
<1>15. Safe(kept \ (torn \cup cut'), ms, pages, 0, FALSE, TRUE)
  <2> SUFFICES ASSUME NEW x \in kept \ (torn \cup cut') PROVE Held(x, ms, pages)
    BY DEF Safe
  <2> DEFINE Cut == UNION {pages[id].behind : id \in Legible}
             B   == UNION {pages[id].notes : id \in Legible}
  <2>1. cut' = cut \cup (Cut \ B)
    BY DEF Reload
  <2> HIDE DEF Cut, B
  <2>2. x \in kept \ (torn \cup cut) /\ (x \in Cut => x \in B)
    BY <2>1
  <2>3. PICK id \in DOMAIN pages : x \in Content(pages[id])
    BY <1>4, <2>2 DEF NotesInv, Safe
  <2>4. id \in Readable(pages)
    BY <1>4, <2>3 DEF IsWiki, Readable
  <2>5. x \in B
    <3>1. CASE x \in pages[id].notes
      BY <1>2, <2>4, <3>1 DEF B
    <3>2. CASE x \in pages[id].behind
      <4>1. x \in Cut
        BY <1>2, <2>4, <3>2 DEF Cut
      <4> QED BY <2>2, <4>1
    <3> QED BY <2>3, <3>1, <3>2 DEF Content
  <2>6. PICK key \in Readable(pages) : x \in pages[key].notes
    BY <1>2, <2>5 DEF B
  <2>7. PICK i \in DOMAIN order : order[i] = key
    BY <1>7
  <2>8. ms[i].id = key /\ key \in DOMAIN pages /\ x \in Content(ms[i]) /\ x \in Content(pages[key])
    BY <1>10, <2>6, <2>7 DEF Content
  <2> QED BY <1>9, <2>8 DEF Held
<1> QED BY <1>1, <1>4, <1>8, <1>11, <1>12, <1>13, <1>14, <1>15 DEF NotesInv

LEMMA InitNotes == Init => NotesInv
<1> SUFFICES ASSUME Init PROVE NotesInv
  OBVIOUS
<1>1. /\ memories = <<>> /\ pages = <<>> /\ at = 0 /\ half = FALSE /\ up = TRUE
      /\ note = 0 /\ captures = 0 /\ kept = {} /\ torn = {} /\ cut = {}
  BY DEF Init
<1>2. DOMAIN <<>> = {} /\ Len(<<>>) = 0 /\ IsList(<<>>) /\ IsFiniteSet({})
  BY FS_EmptySet DEF IsList
<1>3. /\ IsArray(<<>>, 0) /\ IsWiki(<<>>, 0) /\ Progress(<<>>, 0, FALSE, TRUE) /\ Agree(<<>>, <<>>)
      /\ Known(<<>>, <<>>) /\ Pending(<<>>, <<>>, 0, 0)
  BY <1>2 DEF IsArray, IsWiki, Progress, Agree, Known, Readable, Pending
<1>4. Safe(kept \ (torn \cup cut), <<>>, <<>>, 0, FALSE, TRUE)
  BY <1>1 DEF Safe
<1> QED BY <1>1, <1>3, <1>4 DEF NotesInv

LEMMA NextNotes == ASSUME MemoryAssumption, NotesInv, [Next]_vars PROVE NotesInv'
<1>1. CASE UNCHANGED vars
  BY <1>1 DEF vars, NotesInv
<1> QED BY <1>1, OperationKeeps, MountKeeps, StartKeeps, FillKeeps, TimeKeeps, CrashKeepsNotes, ReloadKeeps
        DEF Next

(* Whatever is captured, consolidated, mounted and evicted, and wherever   *)
(* crashes cut saves short: a note whose capture has returned is found     *)
(* again, unless a crash tore the page it was on or a restart found it     *)
(* behind a heading; and no operation, pack or restart makes a memory      *)
(* active whose page says that it is archived.                             *)
THEOREM NotesStay == ASSUME MemoryAssumption PROVE Spec => [](NotesAreKept /\ ArchivedStays)
<1>1. NotesInv => NotesAreKept /\ ArchivedStays
  <2> SUFFICES ASSUME NotesInv PROVE NotesAreKept /\ ArchivedStays
    OBVIOUS
  <2>1. \A x \in kept \ (torn \cup cut) :
           (\E id \in DOMAIN pages : x \in Content(pages[id])) \/ (half /\ x \in Content(memories[at]))
    BY DEF NotesInv, Safe, Held
  <2> QED BY <2>1 DEF NotesInv, Agree, ArchivedStays, NotesAreKept
<1>2. NotesInv /\ [Next]_vars => NotesInv'
  BY NextNotes
<1> QED BY <1>1, <1>2, InitNotes, PTL DEF Spec

-----------------------------------------------------------------------------
(* AutoRemember: what a conversation leaves in durable memory.             *)

-----------------------------------------------------------------------------
(* What the daily log says, and the crash that is owed for a candidate it  *)
(* names already and that can be promoted again.                           *)
Logged(log) == {i \in DOMAIN log : log[i] # 0}
Named(log)   == {log[i] : i \in Logged(log)}
Owed ==
    IF /\ candidate # None /\ candidate.number \in Named(daily)
       /\ mark # candidate.signature /\ turn.pc # "mark"
    THEN 1 ELSE 0

RememberInv ==
    /\ staged \in Nat /\ stops \in Nat /\ daily \in Seq(Nat)
    /\ turn \in [pc : {"idle", "model", "daily", "mark", "clear"}, of : Nat]
    /\ \A i \in DOMAIN daily : daily[i] <= staged
    /\ candidate # None =>
          candidate \in [number : 1 .. staged, signature : Signatures, age : {"fresh", "ripe", "stale"}]
    /\ turn.pc # "idle" /\ turn.of # 0 => candidate # None /\ candidate.number = turn.of
    /\ turn.pc \in {"model", "daily"} /\ turn.of # 0 => mark # candidate.signature
    /\ turn.pc \in {"mark", "clear"} => turn.of # 0
    /\ turn.pc = "clear" => mark = candidate.signature
    /\ Cardinality(Logged(daily)) + Owed <= stops + Cardinality(Named(daily))

(* null is no candidate file's content.                                    *)
Absent == None \notin [number : Nat, signature : Signatures, age : {"fresh", "ripe", "stale"}]

LEMMA LogIsFinite ==
    ASSUME NEW log \in Seq(Nat)
    PROVE  /\ IsFiniteSet(Logged(log)) /\ Cardinality(Logged(log)) \in Nat
           /\ IsFiniteSet(Named(log)) /\ Cardinality(Named(log)) \in Nat
<1>1. IsFiniteSet(1 .. Len(log))
  BY FS_Interval
<1>2. Logged(log) \subseteq 1 .. Len(log)
  BY DEF Logged
<1>3. IsFiniteSet(Logged(log))
  BY <1>1, <1>2, FS_Subset
<1>4. IsFiniteSet(Named(log))
  <2> DEFINE text == [i \in Logged(log) |-> log[i]]
  <2>1. Named(log) = {text[i] : i \in Logged(log)}
    BY DEF Named
  <2>2. text \in [Logged(log) -> Named(log)] /\ \A n \in Named(log) : \E i \in Logged(log) : text[i] = n
    BY DEF Named
  <2>3. text \in Surjection(Logged(log), Named(log))
    BY <2>2 DEF Surjection
  <2> QED BY <1>3, <2>3, FS_Surjection
<1> QED BY <1>3, <1>4, FS_CardinalityType

LEMMA LogGrows ==
    ASSUME NEW log \in Seq(Nat), NEW n \in Nat
    PROVE  /\ n = 0 => Logged(Append(log, n)) = Logged(log) /\ Named(Append(log, n)) = Named(log)
           /\ n # 0 => /\ Cardinality(Logged(Append(log, n))) = Cardinality(Logged(log)) + 1
                       /\ n \in Named(log) => Named(Append(log, n)) = Named(log)
                       /\ n \notin Named(log) =>
                             Cardinality(Named(Append(log, n))) = Cardinality(Named(log)) + 1
<1>1. PICK l, k : l = Append(log, n) /\ k = Len(log) + 1
  OBVIOUS
<1>2. /\ DOMAIN l = 1 .. k /\ l[k] = n /\ \A i \in 1 .. Len(log) : l[i] = log[i]
      /\ DOMAIN log = 1 .. Len(log) /\ k \notin 1 .. Len(log) /\ 1 .. k = (1 .. Len(log)) \cup {k}
  BY <1>1
<1>3. n = 0 => Logged(l) = Logged(log)
  BY <1>2 DEF Logged
<1>4. n # 0 => Logged(l) = Logged(log) \cup {k} /\ k \notin Logged(log)
  BY <1>2 DEF Logged
<1>5. \A i \in Logged(log) : l[i] = log[i]
  BY <1>2 DEF Logged
<1>6. n = 0 => Named(l) = Named(log)
  BY <1>3, <1>5 DEF Named
<1>7. n # 0 => Named(l) = Named(log) \cup {n}
  BY <1>2, <1>4, <1>5 DEF Named
<1>8. IsFiniteSet(Logged(log)) /\ IsFiniteSet(Named(log))
  BY LogIsFinite
<1>9. n # 0 => Cardinality(Logged(l)) = Cardinality(Logged(log)) + 1
  BY <1>4, <1>8, FS_AddElement
<1>10. n # 0 /\ n \notin Named(log) => Cardinality(Named(l)) = Cardinality(Named(log)) + 1
  BY <1>7, <1>8, FS_AddElement
<1>11. n # 0 /\ n \in Named(log) => Named(l) = Named(log)
  BY <1>7
<1> QED BY <1>1, <1>3, <1>6, <1>9, <1>10, <1>11

LEMMA RememberBegins == A!Init => RememberInv
<1> SUFFICES ASSUME A!Init PROVE RememberInv
  OBVIOUS
<1>1. /\ turn = [pc |-> "idle", of |-> 0] /\ candidate = None /\ daily = <<>> /\ staged = 0 /\ stops = 0
  BY DEF A!Init, A!Idle
<1>2. Logged(daily) = {} /\ Named(daily) = {} /\ Owed = 0
  BY <1>1 DEF Logged, Named, Owed
<1>3. Cardinality(Logged(daily)) = 0 /\ Cardinality(Named(daily)) = 0
  BY <1>2, FS_EmptySet
<1>4. /\ turn \in [pc : {"idle", "model", "daily", "mark", "clear"}, of : Nat] /\ turn.pc = "idle"
      /\ daily \in Seq(Nat) /\ DOMAIN daily = {}
  BY <1>1
<1> QED BY <1>1, <1>2, <1>3, <1>4 DEF RememberInv

LEMMA ChatKeeps ==
    ASSUME RememberInv, NEW sig \in Signatures, NEW telling, A!Chat(sig, telling)
    PROVE  RememberInv'
<1>1. turn.pc = "idle" /\ mark' = mark /\ daily' = daily /\ stops' = stops
  BY DEF A!Chat
<1>2. Cardinality(Logged(daily)) \in Nat /\ Cardinality(Named(daily)) \in Nat
  BY LogIsFinite DEF RememberInv
<1>3. CASE candidate' = None /\ turn' = turn /\ staged' = staged
  <2>1. Owed' = 0
    BY <1>3 DEF Owed
  <2> QED BY <1>1, <1>2, <1>3, <2>1 DEF RememberInv, Owed
<1>4. CASE /\ A!Promotes(candidate) /\ turn' = [pc |-> "model", of |-> candidate.number]
           /\ candidate' = candidate /\ staged' = staged
  <2>1. candidate # None /\ mark # candidate.signature /\ candidate.number \in Nat
    BY <1>4 DEF A!Promotes, RememberInv
  <2>2. Owed' = Owed
    BY <1>1, <1>4 DEF Owed, Named, Logged
  <2> QED BY <1>1, <1>4, <2>1, <2>2 DEF RememberInv, Named, Logged
<1>5. CASE /\ staged' = staged + 1 /\ turn' = turn
           /\ candidate' = [number |-> staged + 1, signature |-> sig, age |-> "fresh"]
  <2>1. staged \in Nat /\ staged + 1 \notin Named(daily)
    <3>1. \A i \in DOMAIN daily : daily[i] \in Nat /\ daily[i] <= staged /\ staged \in Nat
      BY DEF RememberInv
    <3> QED BY <3>1 DEF Named, Logged, RememberInv
  <2>2. Owed' = 0
    BY <1>1, <1>5, <2>1 DEF Owed, Named, Logged
  <2>3. \A i \in DOMAIN daily : daily[i] <= staged'
    BY <1>5 DEF RememberInv
  <2> QED BY <1>1, <1>2, <1>5, <2>1, <2>2, <2>3 DEF RememberInv, Named, Logged, Owed
<1> QED BY <1>3, <1>4, <1>5 DEF A!Chat

LEMMA AppendDailyKeeps == RememberInv /\ A!AppendDaily => RememberInv'
<1> SUFFICES ASSUME RememberInv, A!AppendDaily PROVE RememberInv'
  OBVIOUS
<1>1. /\ turn.pc = "daily" /\ turn' = (IF turn.of = 0 THEN A!Idle ELSE [turn EXCEPT !.pc = "mark"])
      /\ candidate' = candidate /\ mark' = mark /\ staged' = staged /\ stops' = stops
      /\ daily' = Append(daily, turn.of)
  BY DEF A!AppendDaily
<1>2. PICK n : n = turn.of /\ n \in Nat
  BY DEF RememberInv
<1>3. /\ Cardinality(Logged(daily)) \in Nat /\ Cardinality(Named(daily)) \in Nat /\ daily \in Seq(Nat)
      /\ staged \in Nat /\ stops \in Nat
  BY LogIsFinite DEF RememberInv
<1>4. /\ daily' \in Seq(Nat) /\ \A i \in DOMAIN daily' : daily'[i] <= staged'
  <2>1. n <= staged
    <3>1. CASE n = 0
      BY <1>3, <3>1
    <3>2. CASE n # 0
      <4>1. candidate # None /\ candidate.number = n
        BY <1>1, <1>2, <3>2 DEF RememberInv
      <4> QED BY <1>3, <4>1 DEF RememberInv
    <3> QED BY <3>1, <3>2
  <2> QED BY <1>1, <1>2, <1>3, <2>1 DEF RememberInv
<1>5. CASE n = 0
  <2>1. turn' = [pc |-> "idle", of |-> 0]
    BY <1>1, <1>2, <1>5 DEF A!Idle
  <2>2. Logged(daily') = Logged(daily) /\ Named(daily') = Named(daily)
    BY <1>1, <1>2, <1>3, <1>5, LogGrows
  <2>3. Owed' = IF candidate # None /\ candidate.number \in Named(daily') /\ mark # candidate.signature
                THEN 1 ELSE 0
    BY <1>1, <2>1 DEF Owed, Named, Logged
  <2>4. Owed' = Owed
    BY <1>1, <2>2, <2>3 DEF Owed
  <2>5. Cardinality(Logged(daily')) + Owed' <= stops' + Cardinality(Named(daily'))
    BY <1>1, <2>2, <2>4 DEF RememberInv
  <2> QED BY <1>1, <1>3, <1>4, <2>1, <2>5 DEF RememberInv
<1>6. CASE n # 0
  <2>1. turn' = [pc |-> "mark", of |-> n] /\ candidate # None /\ candidate.number = n /\ mark # candidate.signature
    BY <1>1, <1>2, <1>6 DEF RememberInv
  <2>2. Owed' = 0
    BY <2>1 DEF Owed
  <2>3. Cardinality(Logged(daily')) = Cardinality(Logged(daily)) + 1
    BY <1>1, <1>2, <1>3, <1>6, LogGrows
  <2>4. CASE n \in Named(daily)
    <3>1. Owed = 1
      BY <1>1, <2>1, <2>4 DEF Owed
    <3>2. Named(daily') = Named(daily)
      BY <1>1, <1>2, <1>3, <1>6, <2>4, LogGrows
    <3>3. Cardinality(Logged(daily')) + Owed' <= stops' + Cardinality(Named(daily'))
      BY <1>1, <1>3, <2>2, <2>3, <3>1, <3>2 DEF RememberInv
    <3> QED BY <1>1, <1>2, <1>3, <1>4, <1>6, <2>1, <3>3 DEF RememberInv
  <2>5. CASE n \notin Named(daily)
    <3>1. Owed = 0
      BY <2>1, <2>5 DEF Owed
    <3>2. Cardinality(Named(daily')) = Cardinality(Named(daily)) + 1
      BY <1>1, <1>2, <1>3, <1>6, <2>5, LogGrows
    <3>3. Cardinality(Logged(daily')) + Owed' <= stops' + Cardinality(Named(daily'))
      BY <1>1, <1>3, <2>2, <2>3, <3>1, <3>2 DEF RememberInv
    <3> QED BY <1>1, <1>2, <1>3, <1>4, <1>6, <2>1, <3>3 DEF RememberInv
  <2> QED BY <2>4, <2>5
<1> QED BY <1>5, <1>6

(* A step that leaves the log as it is, the candidate's number too.        *)
LEMMA OthersKeepLog ==
    ASSUME Absent, RememberInv, daily' = daily, staged' = staged,
           A!Remember \/ A!ModelFails \/ A!WriteDocument \/ A!WriteState \/ A!ClearCandidate
              \/ A!Ripen \/ A!Cool \/ A!Crash
    PROVE  RememberInv'
<1>1. /\ Cardinality(Logged(daily)) \in Nat /\ Cardinality(Named(daily)) \in Nat
      /\ Logged(daily)' = Logged(daily) /\ Named(daily)' = Named(daily) /\ stops \in Nat /\ Owed \in {0, 1}
      /\ turn \in [pc : {"idle", "model", "daily", "mark", "clear"}, of : Nat]
  BY LogIsFinite DEF RememberInv, Logged, Named, Owed
<1>2. CASE A!Remember \/ A!ModelFails \/ A!WriteDocument \/ A!Cool
  <2>1. candidate' = candidate /\ mark' = mark /\ stops' = stops
    BY <1>2 DEF A!Remember, A!ModelFails, A!WriteDocument, A!Cool
  <2>2. /\ turn' \in [pc : {"idle", "model", "daily", "mark", "clear"}, of : Nat]
        /\ turn'.pc = "mark" <=> turn.pc = "mark"
        /\ turn'.pc \in {"mark", "clear"} => turn' = turn
        /\ turn'.pc # "idle" /\ turn'.of # 0 => turn.pc # "idle" /\ turn'.of = turn.of
        /\ turn'.pc \in {"model", "daily"} /\ turn'.of # 0 => turn.pc \in {"model", "daily"}
    <3>1. CASE A!Remember
      BY <3>1 DEF A!Remember
    <3>2. CASE A!ModelFails
      BY <3>2 DEF A!ModelFails, A!Idle
    <3>3. CASE A!WriteDocument
      <4>1. turn.pc = "model" /\ turn' = [pc |-> "daily", of |-> turn.of]
        BY <1>1, <3>3 DEF A!WriteDocument
      <4> QED BY <1>1, <4>1
    <3>4. CASE A!Cool
      BY <1>1, <3>4 DEF A!Cool
    <3> QED BY <1>2, <3>1, <3>2, <3>3, <3>4
  <2>3. Owed' = Owed
    BY <1>1, <2>1, <2>2 DEF Owed
  <2> QED BY <1>1, <2>1, <2>2, <2>3 DEF RememberInv
<1>3. CASE A!WriteState
  <2>1. /\ turn.pc = "mark" /\ turn' = [pc |-> "clear", of |-> turn.of] /\ mark' = candidate.signature
        /\ candidate' = candidate /\ stops' = stops
    BY <1>1, <1>3 DEF A!WriteState
  <2>2. Owed' = 0 /\ Owed = 0
    BY <2>1 DEF Owed
  <2> QED BY <1>1, <2>1, <2>2 DEF RememberInv
<1>4. CASE A!ClearCandidate
  <2>1. turn' = [pc |-> "idle", of |-> 0] /\ candidate' = None /\ mark' = mark /\ stops' = stops
    BY <1>4 DEF A!ClearCandidate, A!Idle
  <2>2. Owed' = 0
    BY <2>1 DEF Owed
  <2> QED BY <1>1, <2>1, <2>2 DEF RememberInv
<1>5. CASE A!Ripen
  <2>1. /\ turn' = turn /\ mark' = mark /\ stops' = stops /\ candidate # None
        /\ candidate' = [candidate EXCEPT !.age = IF @ = "fresh" THEN "ripe" ELSE "stale"]
    BY <1>5 DEF A!Ripen
  <2>2. PICK a \in {"ripe", "stale"} : candidate' = [candidate EXCEPT !.age = a]
    BY <2>1
  <2>3. candidate' = [number |-> candidate.number, signature |-> candidate.signature, age |-> a]
        /\ candidate.number \in 1 .. staged
    BY <2>1, <2>2 DEF RememberInv
  <2>4. /\ candidate'.number = candidate.number /\ candidate'.signature = candidate.signature
        /\ candidate' \in [number : 1 .. staged, signature : Signatures, age : {"fresh", "ripe", "stale"}]
    BY <2>1, <2>2, <2>3 DEF RememberInv
  <2>5. candidate' # None
    BY <1>1, <2>4 DEF Absent, RememberInv
  <2>6. Owed' = Owed
    BY <1>1, <2>1, <2>4, <2>5 DEF Owed
  <2> QED BY <1>1, <2>1, <2>4, <2>5, <2>6 DEF RememberInv
<1>6. CASE A!Crash
  <2>1. turn' = [pc |-> "idle", of |-> 0] /\ candidate' = candidate /\ mark' = mark /\ stops' = stops + 1
    BY <1>6 DEF A!Crash, A!Idle
  <2>2. Owed' \in {0, 1} /\ Owed' <= Owed + 1
    BY <1>1 DEF Owed
  <2>3. Cardinality(Logged(daily)) + Owed' <= stops' + Cardinality(Named(daily))
    BY <1>1, <2>1, <2>2 DEF RememberInv
  <2> QED BY <1>1, <2>1, <2>3 DEF RememberInv
<1> QED BY <1>2, <1>3, <1>4, <1>5, <1>6

LEMMA RememberStep == Absent /\ RememberInv /\ [A!Next]_(A!vars) => RememberInv'
<1> SUFFICES ASSUME Absent, RememberInv, [A!Next]_(A!vars) PROVE RememberInv'
  OBVIOUS
<1>1. ASSUME NEW sig \in Signatures, NEW telling \in BOOLEAN, A!Chat(sig, telling) PROVE RememberInv'
  BY <1>1, ChatKeeps
<1>2. CASE A!AppendDaily
  BY <1>2, AppendDailyKeeps
<1>3. CASE A!Remember \/ A!ModelFails \/ A!WriteDocument \/ A!WriteState \/ A!ClearCandidate
              \/ A!Ripen \/ A!Cool \/ A!Crash
  <2>1. daily' = daily /\ staged' = staged
    BY <1>3 DEF A!Remember, A!ModelFails, A!WriteDocument, A!WriteState, A!ClearCandidate, A!Ripen, A!Cool, A!Crash
  <2> QED BY <1>3, <2>1, OthersKeepLog
<1>4. CASE UNCHANGED A!vars
  BY <1>4 DEF A!vars, RememberInv, Owed, Logged, Named
<1> QED BY <1>1, <1>2, <1>3, <1>4 DEF A!Next

(* A candidate is remembered once: the daily log repeats one only as often *)
(* as the server died after the log and before the state was written,      *)
(* whatever the model answers and whenever candidates ripen or go stale.   *)
THEOREM OncePerCandidateAlways ==
    ASSUME A!RememberAssumption
    PROVE  A!Spec => []A!OncePerCandidate
<1>1. RememberInv => A!OncePerCandidate
  <2> SUFFICES ASSUME RememberInv PROVE A!OncePerCandidate
    OBVIOUS
  <2>1. /\ Cardinality(Logged(daily)) \in Nat /\ Cardinality(Named(daily)) \in Nat /\ stops \in Nat
        /\ Owed \in {0, 1} /\ Cardinality(Logged(daily)) + Owed <= stops + Cardinality(Named(daily))
    BY LogIsFinite DEF RememberInv, Owed
  <2>2. Cardinality(Logged(daily)) - Cardinality(Named(daily)) <= stops
    BY <2>1
  <2>3. \A X : A!Cardinality(X) = Cardinality(X)
    BY DEF A!Cardinality, Cardinality
  <2> QED BY <2>2, <2>3 DEF A!OncePerCandidate, Logged, Named
<1>2. A!Init => RememberInv
  BY RememberBegins
<1>3. RememberInv /\ [A!Next]_(A!vars) => RememberInv'
  BY RememberStep DEF A!RememberAssumption, Absent
<1> QED BY <1>1, <1>2, <1>3, PTL DEF A!Spec
-----------------------------------------------------------------------------
(* FrictionContainment: the friction ledger and its containment.           *)

States == [on : BOOLEAN, episodes : Nat, resolved : Nat]
Stages == [pc : {"new", "queued", "refused", "logged", "vetoing", "opening", "writing", "judged",
                 "saving", "done", "lost"},
           at : Nat \ {0}, state : States, saw : BOOLEAN, blind : BOOLEAN]
Kept   == ledger \cup removed \cup raced \cup joined
Listed == {e \in Frictions : entry[e].pc \in F!Judging \cup {"logged", "done"}}

(* Of a process at most one evaluation is under way.  As long as nobody    *)
(* else has decided since, it saves the containment that stands or its own *)
(* anomaly.  Behind it a round of vetoes leaves nothing in quarantine, and *)
(* once an anomaly is about to be saved its round is over.  Whatever the   *)
(* Janitor has listed itself is among the rows it has read.                *)
Agrees(e) ==
    entry[e].pc \in F!Judging /\ decider = By[e] /\ ~entry[e].blind =>
        entry[e].state.on = state.on \/ (entry[e].saw /\ entry[e].state.on)
Passes(w) ==
    entry[w].pc \in {"vetoing", "opening", "writing"} =>
        \A i \in DOMAIN bridge : i < entry[w].at => bridge[i] # "quarantined"
Vetoes ==
    \A i \in DOMAIN bridge : bridge[i] = "quarantined" => \E j \in 1 .. i : j \in halted
Seen ==
    \/ state.episodes > 0
    \/ \E w \in F!Writers : entry[w].pc \in {"judged", "saving"} /\ entry[w].state.episodes > 0

FrictionTypes ==
    /\ entry \in [F!Writers -> Stages] /\ state \in States
    /\ DOMAIN bridge \in SUBSET (Nat \ {0})
OneEach == \A v, w \in F!Writers :
    entry[v].pc \in F!Judging /\ entry[w].pc \in F!Judging /\ By[v] = By[w] => v = w
FrictionInv ==
    /\ FrictionTypes /\ OneEach
    /\ \A e \in Frictions : Agrees(e)
    /\ \A w \in F!Writers : Passes(w)
    /\ Seen => Vetoes
    /\ Listed \subseteq Kept
    /\ removal.pc = "read" =>
          \A e \in Listed : By[e] = Janitor => e \in removal.rows \cup removed \cup raced \cup joined

LEMMA StateChanges ==
    ASSUME NEW s \in States
    PROVE  /\ [s EXCEPT !.on = TRUE, !.episodes = @ + 1] \in States
           /\ [s EXCEPT !.on = TRUE, !.episodes = @ + 1].on = TRUE
           /\ [s EXCEPT !.on = FALSE, !.resolved = @ + 1] \in States
           /\ [s EXCEPT !.on = FALSE, !.resolved = @ + 1].episodes = s.episodes
<1>1. PICK n \in Nat, m \in Nat : n = s.episodes + 1 /\ m = s.resolved + 1
  BY DEF States
<1>2. [s EXCEPT !.on = TRUE, !.episodes = n] \in States /\ [s EXCEPT !.on = FALSE, !.resolved = m] \in States
  BY DEF States
<1>3. /\ [s EXCEPT !.on = TRUE, !.episodes = @ + 1] = [s EXCEPT !.on = TRUE, !.episodes = n]
      /\ [s EXCEPT !.on = FALSE, !.resolved = @ + 1] = [s EXCEPT !.on = FALSE, !.resolved = m]
  BY <1>1 DEF States
<1>4. /\ [s EXCEPT !.on = TRUE, !.episodes = @ + 1].on = TRUE
      /\ [s EXCEPT !.on = FALSE, !.resolved = @ + 1].episodes = s.episodes
  BY DEF States
<1> QED BY <1>2, <1>3, <1>4

(* What is read from the state file: what stands, or the defaults.         *)
LEMMA WhatIsFound ==
    ASSUME state \in States
    PROVE  /\ F!Found \in States
           /\ F!Found.episodes > 0 => state.episodes > 0
           /\ form = "whole" => F!Found = state
<1>1. F!Calm \in States /\ ~(F!Calm.episodes > 0)
  BY DEF F!Calm, States
<1> QED BY <1>1 DEF F!Found

LEMMA StageSet ==
    ASSUME NEW p \in {"new", "done", "lost", "judged"}
    PROVE  /\ F!Stage(p) \in Stages /\ F!Stage(p).pc = p /\ ~(F!Stage(p).state.episodes > 0)
           /\ \A s \in States : [F!Stage(p) EXCEPT !.state = s] \in Stages
<1>1. F!Calm \in States /\ ~(F!Calm.episodes > 0)
  BY DEF F!Calm, States
<1>2. F!Stage(p) \in Stages /\ F!Stage(p).pc = p /\ F!Stage(p).state = F!Calm
  BY <1>1 DEF F!Stage, Stages
<1>3. \A x \in Stages, s \in States : [x EXCEPT !.state = s] \in Stages
  BY DEF Stages
<1> QED BY <1>1, <1>2, <1>3

LEMMA FrictionStart ==
    ASSUME F!FrictionAssumption, F!Init PROVE FrictionInv
<1>1. F!Calm \in States /\ ~(F!Calm.episodes > 0)
  BY DEF F!Calm, States
<1>2. F!Stage("new") \in Stages /\ F!Stage("new").pc = "new"
  BY StageSet
<1>0. DOMAIN Bridges \in SUBSET (Nat \ {0})
  BY DEF F!FrictionAssumption
<1>3. FrictionTypes /\ \A w \in F!Writers : entry[w].pc = "new"
  BY <1>0, <1>1, <1>2 DEF F!Init, FrictionTypes
<1>4. \A w \in F!Writers : entry[w].pc \notin F!Judging \cup {"logged", "done"}
  BY <1>3 DEF F!Judging
<1>5. \A e \in Frictions : e \in F!Writers
  BY DEF F!Writers
<1>6. ~ Seen /\ Listed = {} /\ OneEach
  BY <1>1, <1>3, <1>4, <1>5 DEF F!Init, Seen, Listed, OneEach
<1>7. removal.pc # "read"
  BY DEF F!Init
<1>8. (\A e \in Frictions : Agrees(e)) /\ (\A w \in F!Writers : Passes(w))
  BY <1>3, <1>4, <1>5 DEF Agrees, Passes
<1> QED BY <1>3, <1>6, <1>7, <1>8 DEF FrictionInv

(* One writer moves: the others are where they were, and bridges only leave*)
(* quarantine.                                                             *)
LEMMA MoveKeeps ==
    ASSUME FrictionInv, NEW w \in F!Writers, NEW r \in Stages,
           entry' = [entry EXCEPT ![w] = r],
           UNCHANGED <<state, decider, removal, removed, raced>>,
           r.pc \in F!Judging => entry[w].pc \in F!Judging \/ F!Free(By[w]),
           w \in Frictions /\ r.pc \in F!Judging /\ decider = By[w] /\ ~r.blind =>
               r.state.on = state.on \/ (r.saw /\ r.state.on),
           DOMAIN bridge' = DOMAIN bridge, halted \subseteq halted',
           \A i \in DOMAIN bridge : bridge'[i] = "quarantined" => bridge[i] = "quarantined",
           r.pc \in {"vetoing", "opening", "writing"} =>
               \A i \in DOMAIN bridge : i < r.at => bridge[i] # "quarantined",
           r.pc \in {"judged", "saving"} /\ r.state.episodes > 0 => Vetoes',
           ledger \subseteq ledger', joined \subseteq joined',
           w \in Frictions /\ r.pc \in F!Judging \cup {"logged", "done"} =>
               \/ w \in Listed
               \/ w \in Kept' /\ (By[w] = Janitor => removal.pc # "read")
    PROVE  FrictionInv'
<1>1. /\ entry' \in [F!Writers -> Stages] /\ entry'[w] = r
      /\ \A v \in F!Writers \ {w} : entry'[v] = entry[v]
  BY DEF FrictionInv, FrictionTypes
<1>2. FrictionTypes'
  BY <1>1 DEF FrictionInv, FrictionTypes
<1>3. OneEach'
  <2> SUFFICES ASSUME NEW u \in F!Writers, NEW v \in F!Writers, entry'[u].pc \in F!Judging,
                      entry'[v].pc \in F!Judging, By[u] = By[v], u # v
               PROVE  FALSE
    BY DEF OneEach
  <2>1. \A x \in F!Writers \ {w} : By[x] = By[w] /\ r.pc \in F!Judging => entry[x].pc \notin F!Judging
    BY DEF FrictionInv, OneEach, F!Free
  <2> QED BY <1>1, <2>1 DEF FrictionInv, OneEach
<1>4. ASSUME NEW e \in Frictions PROVE Agrees(e)'
  <2>1. e \in F!Writers
    BY DEF F!Writers
  <2>2. CASE e = w
    BY <1>1, <2>2 DEF Agrees
  <2>3. CASE e # w
    BY <1>1, <2>1, <2>3 DEF Agrees, FrictionInv
  <2> QED BY <2>2, <2>3
<1>5. ASSUME NEW v \in F!Writers PROVE Passes(v)'
  <2>1. CASE v = w
    BY <1>1, <2>1 DEF Passes
  <2>2. CASE v # w
    BY <1>1, <2>2 DEF Passes, FrictionInv
  <2> QED BY <2>1, <2>2
<1>6. Vetoes => Vetoes'
  BY DEF Vetoes
<1>7. Seen' => Vetoes'
  <2>1. CASE r.pc \in {"judged", "saving"} /\ r.state.episodes > 0
    BY <2>1
  <2>2. CASE ~ (r.pc \in {"judged", "saving"} /\ r.state.episodes > 0)
    <3>1. Seen' => Seen
      BY <1>1, <2>2 DEF Seen
    <3> QED BY <1>6, <3>1 DEF FrictionInv
  <2> QED BY <2>1, <2>2
<1>8. Kept \subseteq Kept' /\ Listed' \subseteq Listed \cup {w}
  <2>1. \A e \in Frictions : e \in F!Writers
    BY DEF F!Writers
  <2> QED BY <1>1, <2>1 DEF Kept, Listed
<1>9. w \in Listed' => w \in Listed \/ (w \in Kept' /\ (By[w] = Janitor => removal.pc # "read"))
  BY <1>1 DEF Listed
<1>10. Listed' \subseteq Kept'
  BY <1>8, <1>9 DEF FrictionInv
<1>11. removal'.pc = "read" =>
          \A e \in Listed' : By[e] = Janitor => e \in removal'.rows \cup removed' \cup raced' \cup joined'
  BY <1>8, <1>9 DEF FrictionInv
<1> QED BY <1>2, <1>3, <1>4, <1>5, <1>7, <1>10, <1>11 DEF FrictionInv

(* A writer that only goes on to another stage.                            *)
Moving == {"queued", "refused", "logged", "opening", "writing", "vetoing", "judged", "saving", "lost"}

LEMMA StageMoves ==
    ASSUME FrictionTypes, NEW w \in F!Writers,
           NEW p \in Moving
    PROVE  /\ [entry[w] EXCEPT !.pc = p] \in Stages
           /\ [entry EXCEPT ![w].pc = p] = [entry EXCEPT ![w] = [entry[w] EXCEPT !.pc = p]]
           /\ [entry[w] EXCEPT !.pc = p].pc = p /\ [entry[w] EXCEPT !.pc = p].at = entry[w].at
           /\ [entry[w] EXCEPT !.pc = p].state = entry[w].state
           /\ [entry[w] EXCEPT !.pc = p].saw = entry[w].saw
           /\ [entry[w] EXCEPT !.pc = p].blind = entry[w].blind
<1>1. PICK r \in Stages : r = entry[w]
  BY DEF FrictionTypes
<1>0. p \in {"new", "queued", "refused", "logged", "vetoing", "opening", "writing", "judged",
             "saving", "done", "lost"}
  BY DEF Moving
<1>2. [r EXCEPT !.pc = p] \in Stages /\ [r EXCEPT !.pc = p].pc = p
      /\ [r EXCEPT !.pc = p].at = r.at /\ [r EXCEPT !.pc = p].state = r.state
      /\ [r EXCEPT !.pc = p].saw = r.saw /\ [r EXCEPT !.pc = p].blind = r.blind
  BY <1>0 DEF Stages
<1>3. [entry EXCEPT ![w].pc = p] = [entry EXCEPT ![w] = [entry[w] EXCEPT !.pc = p]]
  BY DEF FrictionTypes
<1> QED BY <1>1, <1>2, <1>3

LEMMA IsWriter ==
    ASSUME NEW e \in Frictions
    PROVE  /\ e \in F!Writers
           /\ "judged" \in F!Judging /\ "vetoing" \in F!Judging /\ "opening" \in F!Judging
           /\ "writing" \in F!Judging /\ "saving" \in F!Judging
           /\ \A p \in {"new", "queued", "refused", "logged", "done", "lost"} : p \notin F!Judging
BY DEF F!Writers, F!Judging

LEMMA CallKeeps ==
    ASSUME FrictionInv, NEW e \in Frictions, F!Call(e) PROVE FrictionInv'
<1>1. PICK p \in {"queued", "refused"} : entry' = [entry EXCEPT ![e].pc = p]
  BY DEF F!Call
<1>2. /\ UNCHANGED <<state, decider, removal, removed, raced, ledger, joined, bridge, halted>>
      /\ FrictionTypes /\ e \in F!Writers /\ p \notin F!Judging /\ p \notin {"logged", "done"}
      /\ p \notin {"judged", "saving", "vetoing", "opening", "writing"}
  BY IsWriter DEF F!Call, F!files, F!bookkeeping, FrictionInv
<1> DEFINE r == [entry[e] EXCEPT !.pc = p]
<1>4. p \in Moving
  BY DEF Moving
<1>3. r \in Stages /\ entry' = [entry EXCEPT ![e] = r] /\ r.pc = p
  BY <1>1, <1>2, <1>4, StageMoves
<1> HIDE DEF r
<1> QED BY <1>2, <1>3, MoveKeeps

LEMMA AppendKeeps ==
    ASSUME FrictionInv, NEW e \in Frictions, F!AppendLine(e) \/ F!AppendFails(e) PROVE FrictionInv'
<1>1. PICK p \in {"logged", "lost"} :
        /\ entry' = [entry EXCEPT ![e].pc = p] /\ (p = "logged" => F!AppendLine(e))
  BY DEF F!AppendLine, F!AppendFails
<1>2. /\ UNCHANGED <<state, decider, removal, removed, raced, bridge, halted>>
      /\ ledger \subseteq ledger' /\ joined \subseteq joined'
  BY DEF F!AppendLine, F!AppendFails, F!bookkeeping
<1>3. /\ FrictionTypes /\ e \in F!Writers /\ p \notin F!Judging
      /\ p \notin {"judged", "saving", "vetoing", "opening", "writing", "done"}
  BY IsWriter DEF FrictionInv
<1>4. p = "logged" => e \in Kept' /\ (By[e] = Janitor => removal.pc # "read")
  BY <1>1, <1>2 DEF F!AppendLine, F!MutexFree, Kept
<1> DEFINE r == [entry[e] EXCEPT !.pc = p]
<1>6. p \in Moving
  BY DEF Moving
<1>5. r \in Stages /\ entry' = [entry EXCEPT ![e] = r] /\ r.pc = p
  BY <1>1, <1>3, <1>6, StageMoves
<1> HIDE DEF r
<1> QED BY <1>2, <1>3, <1>4, <1>5, MoveKeeps

LEMMA JudgeKeeps ==
    ASSUME FrictionInv, NEW e \in Frictions, F!Judge(e) PROVE FrictionInv'
<1> DEFINE triggers == ~ F!Found.on /\ F!IsAnomaly(Weight[e], F!Baseline(e))
           saved == IF triggers THEN [F!Found EXCEPT !.on = TRUE, !.episodes = @ + 1] ELSE F!Found
           r == [pc |-> IF triggers THEN "vetoing" ELSE "judged", at |-> 1,
                 saw |-> triggers, blind |-> form # "whole", state |-> saved]
<1>1. /\ entry[e].pc = "logged" /\ F!Free(By[e]) /\ entry' = [entry EXCEPT ![e] = r]
      /\ UNCHANGED <<state, decider, removal, removed, raced, ledger, joined, bridge, halted>>
  BY DEF F!Judge, F!files, F!bookkeeping
<1>2. /\ F!Found \in States /\ (F!Found.episodes > 0 => state.episodes > 0)
      /\ form = "whole" => F!Found = state
  BY WhatIsFound DEF FrictionInv, FrictionTypes
<1>3. /\ saved \in States /\ (~ triggers => saved = F!Found) /\ (triggers => saved.on = TRUE)
  BY <1>2, StateChanges
<1>4. /\ r.saw = triggers /\ r.blind = (form # "whole") /\ r.state = saved /\ r.at = 1
      /\ (triggers => r.pc = "vetoing") /\ (~ triggers => r.pc = "judged")
      /\ triggers \in BOOLEAN
  OBVIOUS
<1> HIDE DEF saved
<1>5. r \in Stages
  BY <1>3, <1>4 DEF Stages
<1> HIDE DEF r, triggers
<1>6. e \in F!Writers /\ e \in Listed
  BY <1>1, IsWriter DEF Listed
<1>7. ~ r.blind => r.state.on = state.on \/ (r.saw /\ r.state.on)
  BY <1>2, <1>3, <1>4
<1>8. r.pc \in {"judged", "saving"} /\ r.state.episodes > 0 => Vetoes'
  <2> SUFFICES ASSUME r.pc \in {"judged", "saving"}, r.state.episodes > 0 PROVE Vetoes'
    OBVIOUS
  <2>1. ~ triggers
    BY <1>4
  <2>2. Seen
    BY <1>2, <1>3, <1>4, <2>1 DEF Seen
  <2> QED BY <1>1, <2>2 DEF FrictionInv, Vetoes
<1>9. \A i \in DOMAIN bridge : ~ (i < r.at)
  BY <1>4 DEF FrictionInv, FrictionTypes
<1> QED BY <1>1, <1>5, <1>6, <1>7, <1>8, <1>9, MoveKeeps

(* What an evaluation says of a writer does not depend on its stage.       *)
LEMMA StillAgrees ==
    ASSUME FrictionInv, NEW e \in Frictions, entry[e].pc \in F!Judging,
           decider = By[e], ~ entry[e].blind
    PROVE  entry[e].state.on = state.on \/ (entry[e].saw /\ entry[e].state.on)
BY DEF FrictionInv, Agrees

LEMMA ReadBridgeKeeps ==
    ASSUME FrictionInv, NEW e \in Frictions, F!ReadBridge(e) PROVE FrictionInv'
<1>1. /\ entry[e].pc = "vetoing"
      /\ UNCHANGED <<state, decider, removal, removed, raced, ledger, joined, bridge>>
      /\ halted \subseteq halted'
  BY DEF F!ReadBridge, F!bookkeeping
<1>2. FrictionTypes /\ e \in F!Writers /\ e \in Listed
  BY <1>1, IsWriter DEF FrictionInv, Listed
<1>3. \A i \in DOMAIN bridge : i < entry[e].at => bridge[i] # "quarantined"
  BY <1>1, <1>2 DEF FrictionInv, Passes
<1>4. entry[e] \in Stages /\ entry[e].at \in Nat \ {0}
  BY <1>2 DEF FrictionTypes, Stages
<1>5. CASE F!Quarantined(e) = {} /\ entry' = [entry EXCEPT ![e].pc = "judged"]
  <2> DEFINE r == [entry[e] EXCEPT !.pc = "judged"]
  <2>1. /\ r \in Stages /\ entry' = [entry EXCEPT ![e] = r] /\ r.pc = "judged"
        /\ r.state = entry[e].state /\ r.saw = entry[e].saw /\ r.blind = entry[e].blind
    BY <1>2, <1>5, StageMoves DEF Moving
  <2>2. Vetoes'
    <3> SUFFICES ASSUME NEW i \in DOMAIN bridge, bridge[i] = "quarantined" PROVE FALSE
      BY <1>1 DEF Vetoes
    <3>1. i \in Nat /\ ~ (i < entry[e].at)
      BY <1>2, <1>3 DEF FrictionTypes
    <3>2. i >= entry[e].at
      BY <1>4, <3>1
    <3> QED BY <1>5, <3>2 DEF F!Quarantined
  <2> HIDE DEF r
  <2> QED BY <1>1, <1>2, <2>1, <2>2, IsWriter, StillAgrees, MoveKeeps
<1>6. CASE \E i \in F!Quarantined(e) :
             /\ \A j \in F!Quarantined(e) : i <= j
             /\ bridge[i] = "quarantined"
             /\ entry' = [entry EXCEPT ![e].pc = "opening", ![e].at = i]
  <2>1. PICK i \in F!Quarantined(e) :
             /\ \A j \in F!Quarantined(e) : i <= j
             /\ entry' = [entry EXCEPT ![e].pc = "opening", ![e].at = i]
    BY <1>6
  <2>2. i \in DOMAIN bridge /\ i \in Nat \ {0}
    BY <1>2 DEF F!Quarantined, FrictionTypes
  <2>3. PICK x \in Stages : x = entry[e]
    BY <1>4
  <2> DEFINE r == [x EXCEPT !.pc = "opening", !.at = i]
  <2>4. /\ r \in Stages /\ r.pc = "opening" /\ r.at = i
        /\ r.state = entry[e].state /\ r.saw = entry[e].saw /\ r.blind = entry[e].blind
    BY <2>2, <2>3 DEF Stages
  <2>5. entry' = [entry EXCEPT ![e] = r]
    BY <1>2, <2>1, <2>3 DEF FrictionTypes
  <2> HIDE DEF r
  <2>6. ASSUME NEW j \in DOMAIN bridge, j < i, bridge[j] = "quarantined" PROVE FALSE
    <3>1. j \in Nat /\ ~ (j < entry[e].at)
      BY <1>2, <1>3, <2>6 DEF FrictionTypes
    <3>2. j >= entry[e].at
      BY <1>4, <3>1
    <3>3. j \in F!Quarantined(e)
      BY <2>6, <3>2 DEF F!Quarantined
    <3> QED BY <2>1, <2>2, <2>6, <3>1, <3>3
  <2> QED BY <1>1, <1>2, <2>4, <2>5, <2>6, IsWriter, StillAgrees, MoveKeeps
<1>7. CASE \E i \in F!Quarantined(e) :
             /\ \A j \in F!Quarantined(e) : i <= j
             /\ bridge[i] = "unreadable"
             /\ entry' = [entry EXCEPT ![e].pc = "judged"] /\ halted' = halted \cup {i}
  <2>1. PICK i \in F!Quarantined(e) :
             /\ \A j \in F!Quarantined(e) : i <= j
             /\ entry' = [entry EXCEPT ![e].pc = "judged"] /\ halted' = halted \cup {i}
    BY <1>7
  <2> DEFINE r == [entry[e] EXCEPT !.pc = "judged"]
  <2>2. /\ r \in Stages /\ entry' = [entry EXCEPT ![e] = r] /\ r.pc = "judged"
        /\ r.state = entry[e].state /\ r.saw = entry[e].saw /\ r.blind = entry[e].blind
    BY <1>2, <2>1, StageMoves DEF Moving
  <2>3. Vetoes'
    <3> SUFFICES ASSUME NEW k \in DOMAIN bridge, bridge[k] = "quarantined"
                 PROVE  \E j \in 1 .. k : j \in halted'
      BY <1>1 DEF Vetoes
    <3>1. k \in Nat /\ ~ (k < entry[e].at)
      BY <1>2, <1>3 DEF FrictionTypes
    <3>2. k >= entry[e].at
      BY <1>4, <3>1
    <3>3. k \in F!Quarantined(e)
      BY <3>2 DEF F!Quarantined
    <3>4. i \in Nat \ {0} /\ i <= k
      BY <1>2, <2>1, <3>3 DEF F!Quarantined, FrictionTypes
    <3>5. i \in 1 .. k /\ i \in halted'
      BY <2>1, <3>1, <3>4
    <3> QED BY <3>5
  <2> HIDE DEF r
  <2> QED BY <1>1, <1>2, <2>2, <2>3, IsWriter, StillAgrees, MoveKeeps
<1> QED BY <1>5, <1>6, <1>7 DEF F!ReadBridge

LEMMA WriteBridgeKeeps ==
    ASSUME FrictionInv, NEW e \in Frictions, F!OpenBridge(e) \/ F!WriteBridge(e) PROVE FrictionInv'
<1>1. PICK p \in {"writing", "vetoing"}, q \in {"unreadable", "vetoed"} :
        /\ entry' = [entry EXCEPT ![e].pc = p] /\ bridge' = [bridge EXCEPT ![entry[e].at] = q]
  BY DEF F!OpenBridge, F!WriteBridge
<1>2. /\ entry[e].pc \in {"opening", "writing"}
      /\ UNCHANGED <<state, decider, removal, removed, raced, ledger, joined, halted>>
  BY DEF F!OpenBridge, F!WriteBridge, F!bookkeeping
<1>3. FrictionTypes /\ e \in F!Writers /\ entry[e].pc \in F!Judging /\ e \in Listed
  BY <1>2, IsWriter DEF FrictionInv, Listed
<1>4. \A i \in DOMAIN bridge : i < entry[e].at => bridge[i] # "quarantined"
  BY <1>2, <1>3 DEF FrictionInv, Passes
<1>5. DOMAIN bridge' = DOMAIN bridge
      /\ \A i \in DOMAIN bridge : bridge'[i] = "quarantined" => bridge[i] = "quarantined"
  BY <1>1
<1> DEFINE r == [entry[e] EXCEPT !.pc = p]
<1>8. p \in Moving
  BY DEF Moving
<1>6. /\ r \in Stages /\ entry' = [entry EXCEPT ![e] = r] /\ r.pc = p /\ r.at = entry[e].at
      /\ r.state = entry[e].state /\ r.saw = entry[e].saw /\ r.blind = entry[e].blind
  BY <1>1, <1>3, <1>8, StageMoves
<1>7. p \notin {"judged", "saving"}
  OBVIOUS
<1> HIDE DEF r
<1> QED BY <1>2, <1>3, <1>4, <1>5, <1>6, <1>7, StillAgrees, MoveKeeps

LEMMA BridgeFailsKeeps ==
    ASSUME FrictionInv, NEW e \in Frictions, F!BridgeFails(e) PROVE FrictionInv'
<1>1. /\ entry[e].pc \in {"opening", "writing"} /\ entry' = [entry EXCEPT ![e].pc = "judged"]
      /\ halted' = halted \cup {entry[e].at}
      /\ UNCHANGED <<state, decider, removal, removed, raced, ledger, joined, bridge>>
  BY DEF F!BridgeFails, F!bookkeeping
<1>2. FrictionTypes /\ e \in F!Writers /\ entry[e].pc \in F!Judging /\ e \in Listed
  BY <1>1, IsWriter DEF FrictionInv, Listed
<1>3. \A i \in DOMAIN bridge : i < entry[e].at => bridge[i] # "quarantined"
  BY <1>1, <1>2 DEF FrictionInv, Passes
<1>4. entry[e] \in Stages /\ entry[e].at \in Nat \ {0}
  BY <1>2 DEF FrictionTypes, Stages
<1> DEFINE r == [entry[e] EXCEPT !.pc = "judged"]
<1>5. /\ r \in Stages /\ entry' = [entry EXCEPT ![e] = r] /\ r.pc = "judged"
      /\ r.state = entry[e].state /\ r.saw = entry[e].saw /\ r.blind = entry[e].blind
  BY <1>1, <1>2, StageMoves DEF Moving
<1>6. Vetoes'
  <2> SUFFICES ASSUME NEW k \in DOMAIN bridge, bridge[k] = "quarantined"
               PROVE  \E j \in 1 .. k : j \in halted'
    BY <1>1 DEF Vetoes
  <2>1. k \in Nat /\ ~ (k < entry[e].at)
    BY <1>2, <1>3 DEF FrictionTypes
  <2>2. entry[e].at \in 1 .. k
    BY <1>4, <2>1
  <2> QED BY <1>1, <2>2
<1>7. r.pc \in F!Judging /\ r.pc \notin {"vetoing", "opening", "writing"}
  BY <1>5, IsWriter
<1>8. DOMAIN bridge' = DOMAIN bridge /\ halted \subseteq halted' /\ ledger \subseteq ledger' /\ joined \subseteq joined'
      /\ \A i \in DOMAIN bridge : bridge'[i] = "quarantined" => bridge[i] = "quarantined"
  BY <1>1
<1>9. decider = By[e] /\ ~r.blind => r.state.on = state.on \/ (r.saw /\ r.state.on)
  BY <1>2, <1>5, StillAgrees
<1> HIDE DEF r
<1> QED BY <1>1, <1>2, <1>5, <1>6, <1>7, <1>8, <1>9, MoveKeeps

LEMMA ResolveKeeps ==
    ASSUME F!FrictionAssumption, FrictionInv, NEW w \in Resolutions, F!ResolveContainment(w)
    PROVE  FrictionInv'
<1> DEFINE saved == [F!Found EXCEPT !.on = FALSE, !.resolved = @ + 1]
           r == [F!Stage("judged") EXCEPT !.state = saved]
<1>1. /\ F!Free(Server) /\ entry' = [entry EXCEPT ![w] = r]
      /\ UNCHANGED <<state, decider, removal, removed, raced, ledger, joined, bridge, halted>>
  BY DEF F!ResolveContainment, F!files, F!bookkeeping
<1>2. w \in F!Writers /\ w \notin Frictions /\ By[w] = Server
  BY DEF F!FrictionAssumption, F!Writers
<1>3. F!Found \in States /\ (F!Found.episodes > 0 => state.episodes > 0)
  BY WhatIsFound DEF FrictionInv, FrictionTypes
<1>4. saved \in States /\ saved.episodes = F!Found.episodes
  BY <1>3, StateChanges
<1> HIDE DEF saved
<1>5. r \in Stages /\ r.pc = "judged" /\ r.state = saved
  BY <1>4, StageSet DEF F!Stage
<1> HIDE DEF r
<1>6. r.pc \in {"judged", "saving"} /\ r.state.episodes > 0 => Vetoes'
  BY <1>1, <1>3, <1>4, <1>5 DEF FrictionInv, Vetoes, Seen
<1>7. r.pc \notin {"vetoing", "opening", "writing"}
  BY <1>5
<1> QED BY <1>1, <1>2, <1>5, <1>6, <1>7, MoveKeeps

LEMMA CutKeeps ==
    ASSUME FrictionInv, NEW w \in F!Writers, F!CutState(w) PROVE FrictionInv'
<1>1. /\ entry[w].pc = "judged" /\ entry' = [entry EXCEPT ![w].pc = "saving"]
      /\ UNCHANGED <<state, decider, removal, removed, raced, ledger, joined, bridge, halted>>
  BY DEF F!CutState, F!bookkeeping
<1>2. FrictionTypes /\ entry[w].pc \in F!Judging /\ (w \in Frictions => w \in Listed)
  BY <1>1 DEF FrictionInv, Listed, F!Judging
<1> DEFINE r == [entry[w] EXCEPT !.pc = "saving"]
<1>3. /\ r \in Stages /\ entry' = [entry EXCEPT ![w] = r] /\ r.pc = "saving"
      /\ r.state = entry[w].state /\ r.saw = entry[w].saw /\ r.blind = entry[w].blind
  BY <1>1, <1>2, StageMoves DEF Moving
<1> HIDE DEF r
<1>4. r.pc \in {"judged", "saving"} /\ r.state.episodes > 0 => Vetoes'
  BY <1>1, <1>3 DEF FrictionInv, Vetoes, Seen
<1>5. r.pc \notin {"vetoing", "opening", "writing"}
  BY <1>3
<1> QED BY <1>1, <1>2, <1>3, <1>4, <1>5, StillAgrees, MoveKeeps

LEMMA SaveFailsKeeps ==
    ASSUME FrictionInv, NEW w \in F!Writers, F!SaveFails(w) PROVE FrictionInv'
<1> DEFINE r == F!Stage("done")
<1>1. /\ entry[w].pc \in {"judged", "saving"} /\ entry' = [entry EXCEPT ![w] = r]
      /\ UNCHANGED <<state, decider, removal, removed, raced, ledger, joined, bridge, halted>>
  BY DEF F!SaveFails, F!files, F!bookkeeping
<1>2. r \in Stages /\ r.pc = "done" /\ r.pc \notin F!Judging
  BY StageSet DEF F!Judging
<1>3. w \in Frictions => w \in Listed
  BY <1>1 DEF Listed, F!Judging
<1> HIDE DEF r
<1>4. r.pc \notin {"judged", "saving", "vetoing", "opening", "writing"}
  BY <1>2
<1> QED BY <1>1, <1>2, <1>3, <1>4, MoveKeeps

LEMMA SaveKeeps ==
    ASSUME FrictionInv, NEW w \in F!Writers, F!SaveState(w)
    PROVE  /\ FrictionInv'
           /\ \A v \in F!Writers : entry[v].pc = "saving" /\ entry'[v].pc = "done" => v = w
<1>1. /\ entry[w].pc = "saving" /\ entry' = [entry EXCEPT ![w] = F!Stage("done")]
      /\ state' = entry[w].state
      /\ decider' = IF state'.on # state.on THEN By[w] ELSE decider
      /\ UNCHANGED <<ledger, joined, bridge, halted, removal, removed, raced>>
  BY DEF F!SaveState
<1>2. F!Stage("done") \in Stages /\ F!Stage("done").pc = "done"
  BY StageSet
<1>3. /\ entry' \in [F!Writers -> Stages] /\ entry'[w].pc = "done"
      /\ \A v \in F!Writers \ {w} : entry'[v] = entry[v]
  BY <1>1, <1>2 DEF FrictionInv, FrictionTypes
<1>4. state' \in States
  <2>1. entry[w] \in Stages
    BY DEF FrictionInv, FrictionTypes
  <2> QED BY <1>1, <2>1 DEF Stages
<1>5. \A e \in Frictions : e \in F!Writers
  BY DEF F!Writers
<1>6. Listed' = Listed /\ Kept' = Kept
  BY <1>1, <1>3, <1>5 DEF Listed, Kept, F!Judging
<1>7. Seen' => Seen
  BY <1>1, <1>3 DEF Seen
<1>8. \A v \in F!Writers : entry'[v].pc \in F!Judging => v # w /\ entry[v].pc \in F!Judging /\ By[v] # By[w]
  BY <1>1, <1>3 DEF FrictionInv, OneEach, F!Judging
<1>9. OneEach'
  BY <1>3, <1>8 DEF FrictionInv, OneEach
<1>10. ASSUME NEW f \in Frictions PROVE Agrees(f)'
  <2> SUFFICES ASSUME entry'[f].pc \in F!Judging, decider' = By[f], ~ entry'[f].blind
               PROVE  entry'[f].state.on = state'.on \/ (entry'[f].saw /\ entry'[f].state.on)
    BY DEF Agrees
  <2>1. f # w /\ By[f] # By[w] /\ entry'[f] = entry[f]
    BY <1>3, <1>5, <1>8
  <2>2. state'.on = state.on /\ decider' = decider
    BY <1>1, <2>1
  <2> QED BY <2>1, <2>2 DEF FrictionInv, Agrees
<1>11. ASSUME NEW v \in F!Writers PROVE Passes(v)'
  <2>1. CASE v = w
    BY <1>3, <2>1 DEF Passes
  <2>2. CASE v # w
    BY <1>1, <1>3, <2>2 DEF Passes, FrictionInv
  <2> QED BY <2>1, <2>2
<1>12. Seen' => Vetoes'
  BY <1>1, <1>7 DEF FrictionInv, Vetoes
<1>13. \A v \in F!Writers : entry[v].pc = "saving" /\ entry'[v].pc = "done" => v = w
  BY <1>3
<1>14. FrictionTypes'
  BY <1>1, <1>3, <1>4 DEF FrictionInv, FrictionTypes
<1>15. removal'.pc = "read" =>
          \A f \in Listed' : By[f] = Janitor => f \in removal'.rows \cup removed' \cup raced' \cup joined'
  BY <1>1, <1>6 DEF FrictionInv
<1>16. Listed' \subseteq Kept'
  BY <1>6 DEF FrictionInv
<1> QED BY <1>9, <1>10, <1>11, <1>12, <1>13, <1>14, <1>15, <1>16 DEF FrictionInv

LEMMA ReadKeeps ==
    ASSUME FrictionInv, F!ReadRows PROVE FrictionInv'
<1>1. /\ removal' = [pc |-> "read", rows |-> ledger]
      /\ UNCHANGED <<entry, ledger, joined, state, bridge, halted, removed, raced, decider>>
  BY DEF F!ReadRows, F!files
<1>2. removal'.rows = ledger
  BY <1>1
<1>3. (\A f \in Frictions : Agrees(f)') /\ (\A w \in F!Writers : Passes(w)')
  BY <1>1 DEF Agrees, Passes, FrictionInv
<1>4. Listed' = Listed /\ Kept' = Kept /\ Seen' = Seen /\ Vetoes' = Vetoes /\ OneEach' = OneEach
  BY <1>1 DEF Listed, Kept, Seen, Vetoes, OneEach
<1>5. \A f \in Listed' : By[f] = Janitor => f \in removal'.rows \cup removed' \cup raced' \cup joined'
  BY <1>1, <1>2, <1>4 DEF FrictionInv, Kept
<1> QED BY <1>1, <1>3, <1>4, <1>5 DEF FrictionInv, FrictionTypes

LEMMA RenameKeeps ==
    ASSUME FrictionInv, F!RenameOver PROVE FrictionInv'
<1> DEFINE others == {x \in removal.rows : Key[x] # Forgotten}
<1>1. /\ removal.pc = "read" /\ removal' = [pc |-> "done", rows |-> {}]
      /\ ledger' = others /\ removed' = removed \cup (removal.rows \ others)
      /\ raced' = raced \cup {e \in ledger \ removal.rows : By[e] # Janitor}
      /\ UNCHANGED <<entry, joined, state, bridge, halted, decider>>
  BY DEF F!RenameOver
<1>2. removal'.pc # "read"
  BY <1>1
<1>3. (\A f \in Frictions : Agrees(f)') /\ (\A w \in F!Writers : Passes(w)')
  BY <1>1 DEF Agrees, Passes, FrictionInv
<1>4. Listed' = Listed /\ Seen' = Seen /\ Vetoes' = Vetoes /\ OneEach' = OneEach
  BY <1>1 DEF Listed, Seen, Vetoes, OneEach
<1>5. ASSUME NEW f \in Listed PROVE f \in Kept'
  <2>1. f \in Kept
    BY DEF FrictionInv
  <2>2. CASE f \in removal.rows \cup removed \cup raced \cup joined
    BY <1>1, <2>2 DEF Kept
  <2>3. CASE f \notin removal.rows \cup removed \cup raced \cup joined
    <3>1. f \in ledger /\ By[f] # Janitor
      BY <1>1, <2>1, <2>3 DEF FrictionInv, Kept
    <3> QED BY <1>1, <2>3, <3>1 DEF Kept
  <2> QED BY <2>2, <2>3
<1> QED BY <1>1, <1>2, <1>3, <1>4, <1>5 DEF FrictionInv, FrictionTypes

LEMMA CrashKeeps ==
    ASSUME FrictionInv, NEW p \in Processes, F!Crash(p)
    PROVE  /\ FrictionInv'
           /\ \A w \in F!Writers : entry[w].pc = "saving" => entry'[w].pc # "done"
<1> DEFINE hit(w) == By[w] = p /\ entry[w].pc \in F!Judging \cup {"queued", "logged"}
<1>1. /\ entry' = [w \in F!Writers |-> IF hit(w) THEN F!Stage("lost") ELSE entry[w]]
      /\ removal' = IF p = Janitor THEN [pc |-> "done", rows |-> {}] ELSE removal
      /\ UNCHANGED <<ledger, joined, state, bridge, halted, removed, raced, decider>>
  BY DEF F!Crash
<1>2. F!Stage("lost") \in Stages /\ F!Stage("lost").pc = "lost"
  BY StageSet
<1> HIDE DEF hit
<1>3. /\ entry' \in [F!Writers -> Stages]
      /\ \A w \in F!Writers : entry'[w] = entry[w] \/ entry'[w].pc = "lost"
  BY <1>1, <1>2 DEF FrictionInv, FrictionTypes
<1>4. \A e \in Frictions : e \in F!Writers
  BY DEF F!Writers
<1>5. Listed' \subseteq Listed /\ Kept' = Kept
  BY <1>1, <1>3, <1>4 DEF Listed, Kept, F!Judging
<1>6. Seen' => Seen
  BY <1>1, <1>3 DEF Seen
<1>7. \A w \in F!Writers :
        entry'[w].pc \in F!Judging \cup {"vetoing", "opening", "writing"} => entry'[w] = entry[w]
  BY <1>3 DEF F!Judging
<1>8. \A f \in Frictions : Agrees(f)'
  BY <1>1, <1>4, <1>7 DEF Agrees, FrictionInv
<1>9. \A w \in F!Writers : Passes(w)'
  BY <1>1, <1>7 DEF Passes, FrictionInv
<1>10. OneEach'
  BY <1>7 DEF FrictionInv, OneEach
<1>11. removal'.pc = "read" => removal' = removal
  BY <1>1
<1>12. removal'.pc = "read" =>
          \A f \in Listed' : By[f] = Janitor => f \in removal'.rows \cup removed' \cup raced' \cup joined'
  BY <1>1, <1>5, <1>11 DEF FrictionInv
<1>13. Seen' => Vetoes'
  BY <1>1, <1>6 DEF FrictionInv, Vetoes
<1>14. \A w \in F!Writers : entry[w].pc = "saving" => entry'[w].pc # "done"
  BY <1>3
<1>15. Listed' \subseteq Kept'
  BY <1>5 DEF FrictionInv
<1> QED BY <1>1, <1>3, <1>8, <1>9, <1>10, <1>12, <1>13, <1>14, <1>15 DEF FrictionInv, FrictionTypes

LEMMA FrictionIsStill ==
    ASSUME FrictionInv, UNCHANGED F!vars PROVE FrictionInv'
<1>1. UNCHANGED <<entry, ledger, joined, state, bridge, halted, removal, removed, raced, decider>>
  BY DEF F!vars, F!files, F!bookkeeping
<1>2. (\A f \in Frictions : Agrees(f)') /\ (\A w \in F!Writers : Passes(w)')
  BY <1>1 DEF Agrees, Passes, FrictionInv
<1>3. Listed' = Listed /\ Kept' = Kept /\ Seen' = Seen /\ Vetoes' = Vetoes /\ OneEach' = OneEach
  BY <1>1 DEF Listed, Kept, Seen, Vetoes, OneEach
<1> QED BY <1>1, <1>2, <1>3 DEF FrictionInv, FrictionTypes

LEMMA FrictionStep ==
    ASSUME F!FrictionAssumption, FrictionInv, [F!Next]_(F!vars) PROVE FrictionInv'
<1>1. ASSUME NEW e \in Frictions, F!Call(e) \/ F!AppendLine(e) \/ F!AppendFails(e) \/ F!Judge(e)
      PROVE  FrictionInv'
  BY <1>1, CallKeeps, AppendKeeps, JudgeKeeps
<1>2. ASSUME NEW e \in Frictions,
             F!ReadBridge(e) \/ F!OpenBridge(e) \/ F!WriteBridge(e) \/ F!BridgeFails(e)
      PROVE  FrictionInv'
  BY <1>2, ReadBridgeKeeps, WriteBridgeKeeps, BridgeFailsKeeps
<1>3. ASSUME NEW w \in Resolutions, F!ResolveContainment(w) PROVE FrictionInv'
  BY <1>3, ResolveKeeps
<1>4. ASSUME NEW w \in F!Writers, F!CutState(w) \/ F!SaveState(w) \/ F!SaveFails(w)
      PROVE  FrictionInv'
  BY <1>4, CutKeeps, SaveKeeps, SaveFailsKeeps
<1>5. ASSUME NEW p \in Processes, F!Crash(p) PROVE FrictionInv'
  BY <1>5, CrashKeeps
<1> QED BY <1>1, <1>2, <1>3, <1>4, <1>5, ReadKeeps, RenameKeeps, FrictionIsStill DEF F!Next

(* An entry that was logged stays in the friction ledger until its key is  *)
(* removed, whatever crashes: the rename of removeFrictionEntriesByKey     *)
(* overwrites only what another process appended since the rows were read, *)
(* and only what follows a line that was cut short cannot be read.         *)
THEOREM LedgerIsKeptAlways ==
    ASSUME F!FrictionAssumption PROVE F!Spec => []F!LedgerIsKept
<1>1. FrictionInv => F!LedgerIsKept
  BY DEF FrictionInv, Listed, Kept, F!LedgerIsKept
<1>2. F!Init => FrictionInv
  BY FrictionStart
<1>3. FrictionInv /\ [F!Next]_(F!vars) => FrictionInv'
  BY FrictionStep
<1> QED BY <1>1, <1>2, <1>3, PTL DEF F!Spec

(* evaluate vetoes the bridges before it saves the containment: once an    *)
(* episode was in the state file, all bridges are vetoed that come before  *)
(* one at which a round of vetoes ended, as it could not be read or written*)
THEOREM VetoComesFirstAlways ==
    ASSUME F!FrictionAssumption PROVE F!Spec => []F!VetoComesFirst
<1>1. FrictionInv => F!VetoComesFirst
  BY DEF FrictionInv, Seen, Vetoes, F!VetoComesFirst
<1>2. F!Init => FrictionInv
  BY FrictionStart
<1>3. FrictionInv /\ [F!Next]_(F!vars) => FrictionInv'
  BY FrictionStep
<1> QED BY <1>1, <1>2, <1>3, PTL DEF F!Spec

(* What an evaluation may do to the containment when it saves.             *)
Decides ==
    \A e \in Frictions :
        entry[e].pc = "saving" /\ entry'[e].pc = "done" /\ decider = By[e] /\ ~entry[e].blind =>
            \/ state'.on = state.on
            \/ state'.on /\ entry[e].saw

LEMMA DecidesStep ==
    ASSUME FrictionInv, [F!Next]_(F!vars) PROVE [Decides]_(F!vars)
<1> SUFFICES ASSUME F!Next, NEW e \in Frictions, entry[e].pc = "saving", entry'[e].pc = "done",
                    decider = By[e], ~ entry[e].blind
             PROVE  state'.on = state.on \/ (state'.on /\ entry[e].saw)
  BY DEF Decides
<1>0. e \in F!Writers /\ FrictionTypes /\ entry[e].pc \in F!Judging
  BY IsWriter DEF FrictionInv
<1>1. ASSUME NEW w \in F!Writers, F!SaveState(w)
      PROVE  state'.on = state.on \/ (state'.on /\ entry[e].saw)
  <2>1. e = w
    BY <1>0, <1>1, SaveKeeps
  <2>2. state' = entry[e].state
    BY <1>1, <2>1 DEF F!SaveState
  <2> QED BY <1>0, <2>2, StillAgrees
<1>2. ASSUME NEW w \in F!Writers, F!SaveFails(w) PROVE state'.on = state.on
  BY <1>2 DEF F!SaveFails, F!files
<1>3. ASSUME NEW w \in F!Writers, F!CutState(w) PROVE FALSE
  <2>1. entry[w].pc = "judged" /\ \A v \in F!Writers \ {w} : entry'[v] = entry[v]
    BY <1>3 DEF F!CutState, FrictionInv, FrictionTypes
  <2> QED BY <1>0, <2>1
<1>4. ASSUME NEW f \in Frictions,
             \/ F!Call(f) \/ F!AppendLine(f) \/ F!AppendFails(f) \/ F!Judge(f)
             \/ F!ReadBridge(f) \/ F!OpenBridge(f) \/ F!WriteBridge(f) \/ F!BridgeFails(f)
      PROVE  FALSE
  <2>1. entry[f].pc # "saving"
    BY <1>4 DEF F!Call, F!AppendLine, F!AppendFails, F!Judge, F!ReadBridge, F!OpenBridge,
                F!WriteBridge, F!BridgeFails
  <2>2. \A v \in F!Writers \ {f} : entry'[v] = entry[v]
    BY <1>0, <1>4 DEF F!Call, F!AppendLine, F!AppendFails, F!Judge, F!ReadBridge, F!OpenBridge,
                      F!WriteBridge, F!BridgeFails, FrictionTypes
  <2> QED BY <1>0, <2>1, <2>2
<1>5. ASSUME NEW w \in Resolutions, F!ResolveContainment(w) PROVE FALSE
  <2>1. entry[w].pc # "saving" /\ \A v \in F!Writers \ {w} : entry'[v] = entry[v]
    BY <1>0, <1>5 DEF F!ResolveContainment, FrictionTypes
  <2> QED BY <1>0, <2>1
<1>6. ASSUME F!ReadRows \/ F!RenameOver PROVE FALSE
  <2>1. UNCHANGED entry
    BY <1>6 DEF F!ReadRows, F!RenameOver
  <2> QED BY <2>1
<1>7. ASSUME NEW p \in Processes, F!Crash(p) PROVE FALSE
  BY <1>0, <1>7, CrashKeeps
<1> QED BY <1>1, <1>2, <1>3, <1>4, <1>5, <1>6, <1>7 DEF F!Next

(* The evaluation that saves undoes no decision its process has seen: the  *)
(* containment stays as resolveContainment or an evaluation left it, but   *)
(* for an anomaly of the entry itself, unless loadState found a file that  *)
(* another process had cut or mangled.                                     *)
THEOREM DecisionsLastAlways ==
    ASSUME F!FrictionAssumption PROVE F!Spec => F!DecisionsLast
<1>1. F!Init => FrictionInv
  BY FrictionStart
<1>2. FrictionInv /\ [F!Next]_(F!vars) => FrictionInv' /\ [Decides]_(F!vars)
  BY FrictionStep, DecidesStep
<1>3. F!Spec => [][Decides]_(F!vars)
  BY <1>1, <1>2, PTL DEF F!Spec
<1> QED BY <1>3 DEF Decides, F!DecisionsLast
-----------------------------------------------------------------------------
(* SelfImprovement: the edits of the repository's own files.               *)

Edit         == [path : Files, text : Nat]
Applications == [id : Nat, edit : Nat, copied : BOOLEAN]
Backups      == [Files -> Nat]

InFiles(t)     == \E f \in Files : file[f] = t
InBackups(t)   == \E id \in DOMAIN proposals : \E f \in Files : backup[id][f] = t
InProposals(t) == \E id \in DOMAIN proposals : \E j \in DOMAIN proposals[id] : proposals[id][j].text = t
Lies(t) == InFiles(t) \/ InBackups(t) \/ InProposals(t) \/ t \in recopied \cup dropped

ImproveTypes ==
    /\ texts \in Nat /\ file \in [Files -> Nat]
    /\ proposals \in Seq(Seq(Edit)) /\ backup \in Seq(Backups)
    /\ Len(backup) = Len(proposals)
    /\ \A id \in DOMAIN proposals : Len(proposals[id]) > 0
    /\ applying \in Applications

(* An application stands at an edit of a proposal, and once the copy is    *)
(* made the backup has what the file has, unless the operator has saved it *)
(* since.                                                                  *)
ImproveInv ==
    /\ ImproveTypes
    /\ applying # I!NoneApplied =>
          /\ applying.id \in DOMAIN proposals
          /\ applying.edit \in DOMAIN proposals[applying.id]
          /\ LET path == proposals[applying.id][applying.edit].path
             IN  applying.copied => \/ backup[applying.id][path] = file[path]
                                    \/ file[path] \in dropped
    /\ \A t \in 1 .. texts : Lies(t)

LEMMA ImproveStart ==
    ASSUME I!ImproveAssumption, I!Init PROVE ImproveInv
<1>1. PICK n \in 1 .. 9 : Files = 1 .. n
  BY DEF I!ImproveAssumption
<1>2. I!Cardinality(Files) = Cardinality(Files) /\ Cardinality(1 .. n) = n
  <2>1. n \in Int /\ 1 \in Int
    OBVIOUS
  <2>2. Cardinality(1 .. n) = IF 1 > n THEN 0 ELSE n - 1 + 1
    BY <2>1, FS_Interval
  <2>3. Cardinality(1 .. n) = n
    BY <2>2
  <2> QED BY <1>1, <2>3 DEF I!Cardinality, Cardinality
<1>3. texts = n /\ file = [f \in Files |-> f] /\ proposals = <<>> /\ backup = <<>> /\ applying = I!NoneApplied
  BY <1>1, <1>2 DEF I!Init
<1>4. ImproveTypes
  BY <1>1, <1>3 DEF ImproveTypes, I!NoneApplied, Applications
<1>5. ASSUME NEW t \in 1 .. texts PROVE Lies(t)
  <2>1. t \in Files /\ file[t] = t
    BY <1>1, <1>3, <1>5
  <2> QED BY <2>1 DEF Lies, InFiles
<1> QED BY <1>3, <1>4, <1>5 DEF ImproveInv

LEMMA SaveImproves ==
    ASSUME ImproveInv, NEW c \in Conversations, NEW paths \in I!Edits, I!SaveProposal(c, paths)
    PROVE  ImproveInv'
<1> DEFINE new == [i \in DOMAIN paths |-> [path |-> paths[i], text |-> texts + i]]
           empty == [f \in Files |-> I!Missing]
<1>1. /\ proposals' = Append(proposals, new) /\ backup' = Append(backup, empty)
      /\ texts' = texts + Len(paths) /\ UNCHANGED <<file, applying, recopied, dropped>>
      /\ applying = I!NoneApplied
  BY DEF I!SaveProposal, I!Quiet
<1>2. paths \in Seq(Files) /\ Len(paths) \in Nat \ {0} /\ DOMAIN paths = 1 .. Len(paths)
  <2>1. paths \in UNION {[1 .. m -> Files] : m \in 0 .. 2} /\ paths # <<>>
    BY DEF I!Edits, I!BoundedSeq, I!SeqOf
  <2>2. PICK m \in 0 .. 2 : paths \in [1 .. m -> Files]
    BY <2>1
  <2>3. paths \in Seq(Files) /\ Len(paths) = m
    BY <2>2
  <2>4. Len(paths) # 0
    BY <2>1, <2>3
  <2> QED BY <2>3, <2>4
<1>3. /\ texts \in Nat /\ proposals \in Seq(Seq(Edit)) /\ backup \in Seq(Backups)
      /\ Len(backup) = Len(proposals)
  BY DEF ImproveInv, ImproveTypes
<1>4. new \in Seq(Edit) /\ Len(new) = Len(paths) /\ \A i \in 1 .. Len(paths) : new[i].text = texts + i
  <2>1. new \in [1 .. Len(paths) -> Edit]
    BY <1>2, <1>3 DEF Edit
  <2>2. \A i \in 1 .. Len(paths) : new[i].text = texts + i
    BY <1>2
  <2> QED BY <1>2, <2>1, <2>2
<1>5. empty \in Backups
  BY DEF Backups, I!Missing
<1> HIDE DEF new, empty
<1>6. /\ proposals' \in Seq(Seq(Edit)) /\ backup' \in Seq(Backups) /\ Len(backup') = Len(proposals')
      /\ DOMAIN proposals' = DOMAIN proposals \cup {Len(proposals) + 1}
      /\ Len(proposals) + 1 \notin DOMAIN proposals
      /\ proposals'[Len(proposals) + 1] = new
      /\ \A id \in DOMAIN proposals : proposals'[id] = proposals[id] /\ backup'[id] = backup[id]
  BY <1>1, <1>3, <1>4, <1>5
<1>7. ASSUME NEW t \in 1 .. texts' PROVE Lies(t)'
  <2>1. CASE t \in 1 .. texts
    <3>1. Lies(t)
      BY <2>1 DEF ImproveInv
    <3>2. CASE InFiles(t) \/ t \in recopied \cup dropped
      BY <1>1, <3>2 DEF InFiles, Lies
    <3>3. CASE InBackups(t)
      <4>1. InBackups(t)'
        BY <1>6, <3>3 DEF InBackups
      <4> QED BY <4>1 DEF Lies
    <3>4. CASE InProposals(t)
      <4>1. InProposals(t)'
        BY <1>6, <3>4 DEF InProposals
      <4> QED BY <4>1 DEF Lies
    <3> QED BY <3>1, <3>2, <3>3, <3>4 DEF Lies
  <2>2. CASE t \notin 1 .. texts
    <3>1. t - texts \in 1 .. Len(paths) /\ texts + (t - texts) = t
      BY <1>1, <1>2, <1>3, <1>7, <2>2
    <3>2. t - texts \in DOMAIN new /\ new[t - texts].text = t
      BY <1>4, <3>1
    <3>3. InProposals(t)'
      BY <1>6, <3>2 DEF InProposals
    <3> QED BY <3>3 DEF Lies
  <2> QED BY <2>1, <2>2
<1>8. \A id \in DOMAIN proposals' : Len(proposals'[id]) > 0
  BY <1>2, <1>4, <1>6 DEF ImproveInv, ImproveTypes
<1>9. texts' \in Nat
  BY <1>1, <1>2, <1>3
<1>10. ImproveTypes'
  BY <1>1, <1>6, <1>8, <1>9 DEF ImproveInv, ImproveTypes
<1> QED BY <1>1, <1>7, <1>10 DEF ImproveInv, I!NoneApplied

LEMMA ApplyImproves ==
    ASSUME ImproveInv, NEW id \in DOMAIN proposals, I!Apply(id) PROVE ImproveInv'
<1>1. applying' = [id |-> id, edit |-> 1, copied |-> FALSE]
      /\ UNCHANGED <<file, proposals, backup, texts, recopied, dropped>>
  BY DEF I!Apply
<1>2. id \in Nat /\ proposals[id] \in Seq(Edit) /\ Len(proposals[id]) > 0
  BY DEF ImproveInv, ImproveTypes
<1>3. 1 \in DOMAIN proposals[id]
  BY <1>2
<1>4. applying' \in Applications /\ applying'.id = id /\ applying'.edit = 1 /\ applying'.copied = FALSE
  BY <1>1, <1>2 DEF Applications
<1>5. \A t : Lies(t)' = Lies(t)
  BY <1>1 DEF Lies, InFiles, InBackups, InProposals
<1> QED BY <1>1, <1>3, <1>4, <1>5 DEF ImproveInv, ImproveTypes

(* Where an application stands.                                            *)
LEMMA Standing ==
    ASSUME ImproveInv, ~ I!Quiet, NEW id, NEW n, id = applying.id, n = applying.edit
    PROVE  /\ id \in DOMAIN proposals /\ id \in DOMAIN backup /\ n \in DOMAIN proposals[id]
           /\ proposals[id] \in Seq(Edit) /\ proposals[id][n].path \in Files
           /\ proposals[id][n].text \in Nat /\ backup[id] \in Backups
           /\ n \in Nat /\ applying \in Applications
<1>1. id \in DOMAIN proposals /\ n \in DOMAIN proposals[id] /\ applying \in Applications
  BY DEF ImproveInv, ImproveTypes, I!Quiet
<1>2. /\ proposals \in Seq(Seq(Edit)) /\ backup \in Seq(Backups) /\ Len(backup) = Len(proposals)
  BY DEF ImproveInv, ImproveTypes
<1>3. proposals[id] \in Seq(Edit) /\ id \in DOMAIN backup /\ backup[id] \in Backups
  BY <1>1, <1>2
<1>4. proposals[id][n] \in Edit /\ n \in Nat
  BY <1>1, <1>3
<1> QED BY <1>1, <1>3, <1>4 DEF Edit

LEMMA CopyImproves ==
    ASSUME ImproveInv, I!CopyFile PROVE ImproveInv'
<1>1. PICK id, n, path : id = applying.id /\ n = applying.edit /\ path = proposals[id][n].path
  OBVIOUS
<1>2. /\ ~ I!Quiet /\ applying' = [applying EXCEPT !.copied = TRUE]
      /\ backup' = [backup EXCEPT ![id][path] = file[path]]
      /\ recopied' = recopied \cup ({backup[id][path]} \ {I!Missing, file[path]})
      /\ UNCHANGED <<file, proposals, texts, dropped>>
  BY <1>1 DEF I!CopyFile
<1>3. /\ id \in DOMAIN proposals /\ id \in DOMAIN backup /\ n \in DOMAIN proposals[id]
      /\ path \in Files /\ backup[id] \in Backups /\ applying \in Applications
  BY <1>1, <1>2, Standing
<1>4. file[path] \in Nat /\ backup \in Seq(Backups)
  BY <1>3 DEF ImproveInv, ImproveTypes
<1>5. /\ backup' \in Seq(Backups) /\ Len(backup') = Len(backup) /\ backup'[id][path] = file[path]
      /\ \A i \in DOMAIN backup, f \in Files : i # id \/ f # path => backup'[i][f] = backup[i][f]
  <2>1. PICK b \in Backups : b = backup[id]
    BY <1>3
  <2>2. backup' = [backup EXCEPT ![id] = [b EXCEPT ![path] = file[path]]]
    BY <1>2, <1>3, <1>4, <2>1
  <2>3. [b EXCEPT ![path] = file[path]] \in Backups
    BY <1>3, <1>4 DEF Backups
  <2>4. /\ [b EXCEPT ![path] = file[path]][path] = file[path]
        /\ \A f \in Files : f # path => [b EXCEPT ![path] = file[path]][f] = b[f]
    BY <1>3 DEF Backups
  <2> QED BY <1>3, <1>4, <2>1, <2>2, <2>3, <2>4
<1>6. applying' \in Applications /\ applying'.id = id /\ applying'.edit = n
  BY <1>1, <1>2, <1>3 DEF Applications
<1>7. ASSUME NEW t \in 1 .. texts PROVE Lies(t)'
  <2>1. Lies(t) /\ t # I!Missing
    BY <1>7 DEF ImproveInv, ImproveTypes, I!Missing
  <2>2. CASE InFiles(t) \/ InProposals(t) \/ t \in recopied \cup dropped
    BY <1>2, <2>2 DEF InFiles, InProposals, Lies
  <2>3. CASE InBackups(t)
    <3>1. PICK i \in DOMAIN proposals, f \in Files : backup[i][f] = t
      BY <2>3 DEF InBackups
    <3>2. CASE i = id /\ f = path
      <4>1. CASE t = file[path]
        BY <1>2, <1>3, <4>1 DEF Lies, InFiles
      <4>2. CASE t # file[path]
        BY <1>2, <2>1, <3>1, <3>2, <4>2 DEF Lies
      <4> QED BY <4>1, <4>2
    <3>3. CASE ~ (i = id /\ f = path)
      <4>1. i \in DOMAIN backup
        BY <3>1 DEF ImproveInv, ImproveTypes
      <4>2. backup'[i][f] = t
        BY <1>5, <3>1, <3>3, <4>1
      <4>3. InBackups(t)'
        BY <1>2, <4>2 DEF InBackups
      <4> QED BY <4>3 DEF Lies
    <3> QED BY <3>2, <3>3
  <2> QED BY <2>1, <2>2, <2>3 DEF Lies
<1>8. ImproveTypes'
  BY <1>2, <1>5, <1>6 DEF ImproveInv, ImproveTypes
<1> QED BY <1>1, <1>2, <1>3, <1>5, <1>6, <1>7, <1>8 DEF ImproveInv

LEMMA ReplaceImproves ==
    ASSUME ImproveInv, I!ReplaceFile PROVE ImproveInv'
<1>1. PICK id, n, edit : id = applying.id /\ n = applying.edit /\ edit = proposals[id][n]
  OBVIOUS
<1>2. /\ ~ I!Quiet /\ applying.copied /\ file' = [file EXCEPT ![edit.path] = edit.text]
      /\ applying' = IF n = Len(proposals[id]) THEN I!NoneApplied
                     ELSE [applying EXCEPT !.edit = @ + 1, !.copied = FALSE]
      /\ UNCHANGED <<proposals, backup, texts, recopied, dropped>>
  BY <1>1 DEF I!ReplaceFile
<1>3. /\ id \in DOMAIN proposals /\ n \in DOMAIN proposals[id] /\ proposals[id] \in Seq(Edit)
      /\ edit.path \in Files /\ edit.text \in Nat /\ applying \in Applications /\ n \in Nat
  BY <1>1, <1>2, Standing
<1>4. file' \in [Files -> Nat] /\ \A f \in Files : f # edit.path => file'[f] = file[f]
  BY <1>2, <1>3 DEF ImproveInv, ImproveTypes
<1>5. backup[id][edit.path] = file[edit.path] \/ file[edit.path] \in dropped
  BY <1>1, <1>2 DEF ImproveInv, I!Quiet
<1>6. ASSUME NEW t \in 1 .. texts PROVE Lies(t)'
  <2>1. Lies(t)
    BY <1>6 DEF ImproveInv
  <2>2. CASE InFiles(t)
    <3>1. PICK f \in Files : file[f] = t
      BY <2>2 DEF InFiles
    <3>2. CASE f = edit.path
      BY <1>2, <1>3, <1>5, <3>1, <3>2 DEF Lies, InBackups
    <3>3. CASE f # edit.path
      BY <1>4, <3>1, <3>3 DEF Lies, InFiles
    <3> QED BY <3>2, <3>3
  <2>3. CASE InBackups(t) \/ InProposals(t) \/ t \in recopied \cup dropped
    BY <1>2, <2>3 DEF InBackups, InProposals, Lies
  <2> QED BY <2>1, <2>2, <2>3 DEF Lies
<1>7. \/ applying' = I!NoneApplied
      \/ applying'.id = id /\ applying'.edit = n + 1 /\ ~ applying'.copied /\ n # Len(proposals[id])
  BY <1>1, <1>2, <1>3 DEF Applications
<1>8. applying' \in Applications
  <2>1. I!NoneApplied \in Applications
    BY DEF I!NoneApplied, Applications
  <2>2. PICK m \in Nat : m = applying.edit + 1
    BY <1>1, <1>3
  <2>3. [applying EXCEPT !.edit = m, !.copied = FALSE] \in Applications
    BY <1>3 DEF Applications
  <2>4. [applying EXCEPT !.edit = @ + 1, !.copied = FALSE] = [applying EXCEPT !.edit = m, !.copied = FALSE]
    BY <2>2, <1>3 DEF Applications
  <2> QED BY <1>2, <2>1, <2>3, <2>4
<1>9. ImproveTypes'
  BY <1>2, <1>4, <1>8 DEF ImproveInv, ImproveTypes
<1>10. CASE applying' = I!NoneApplied
  BY <1>2, <1>6, <1>9, <1>10 DEF ImproveInv, I!NoneApplied
<1>11. CASE applying' # I!NoneApplied
  <2>1. n + 1 \in DOMAIN proposals[id]
    BY <1>3, <1>7, <1>11
  <2> QED BY <1>2, <1>3, <1>6, <1>7, <1>9, <1>11, <2>1 DEF ImproveInv
<1> QED BY <1>10, <1>11

LEMMA HandImproves ==
    ASSUME ImproveInv, NEW f \in Files, I!EditByHand(f) PROVE ImproveInv'
<1>1. /\ texts' = texts + 1 /\ file' = [file EXCEPT ![f] = texts + 1]
      /\ dropped' = dropped \cup {file[f]} \cup (IF I!Overwrites(f) THEN {texts + 1} ELSE {})
      /\ UNCHANGED <<proposals, backup, applying, recopied>>
  BY DEF I!EditByHand
<1>2. texts' \in Nat /\ file' \in [Files -> Nat] /\ file'[f] = texts + 1
      /\ \A g \in Files : g # f => file'[g] = file[g]
  BY <1>1 DEF ImproveInv, ImproveTypes
<1>3. ASSUME NEW t \in 1 .. texts' PROVE Lies(t)'
  <2>1. CASE t \in 1 .. texts
    <3>1. Lies(t)
      BY <2>1 DEF ImproveInv
    <3>2. CASE InFiles(t)
      <4>1. PICK g \in Files : file[g] = t
        BY <3>2 DEF InFiles
      <4>2. CASE g = f
        BY <1>1, <4>1, <4>2 DEF Lies
      <4>3. CASE g # f
        BY <1>2, <4>1, <4>3 DEF Lies, InFiles
      <4> QED BY <4>2, <4>3
    <3>3. CASE InBackups(t) \/ InProposals(t) \/ t \in recopied \cup dropped
      BY <1>1, <3>3 DEF InBackups, InProposals, Lies
    <3> QED BY <3>1, <3>2, <3>3 DEF Lies
  <2>2. CASE t \notin 1 .. texts
    <3>1. t = texts + 1
      BY <1>1, <1>3, <2>2 DEF ImproveInv, ImproveTypes
    <3> QED BY <1>2, <3>1 DEF Lies, InFiles
  <2> QED BY <2>1, <2>2
<1>4. ImproveTypes'
  BY <1>1, <1>2 DEF ImproveInv, ImproveTypes
<1>5. CASE applying = I!NoneApplied
  BY <1>1, <1>3, <1>4, <1>5 DEF ImproveInv, I!NoneApplied
<1>6. CASE applying # I!NoneApplied
  <2>1. PICK id, n, path : id = applying.id /\ n = applying.edit /\ path = proposals[id][n].path
    OBVIOUS
  <2>2. /\ id \in DOMAIN proposals /\ n \in DOMAIN proposals[id]
        /\ applying.copied => backup[id][path] = file[path] \/ file[path] \in dropped
    BY <1>6, <2>1 DEF ImproveInv
  <2>3. applying.copied => backup[id][path] = file'[path] \/ file'[path] \in dropped'
    <3>1. CASE path = f /\ applying.copied
      <4>1. I!Overwrites(f)
        BY <1>6, <2>1, <3>1 DEF I!Overwrites, I!Quiet
      <4> QED BY <1>1, <1>2, <3>1, <4>1
    <3>2. CASE path # f
      <4>1. path \in Files
        BY <1>6, <2>1, Standing DEF I!Quiet
      <4> QED BY <1>1, <1>2, <2>2, <3>2, <4>1
    <3> QED BY <3>1, <3>2
  <2> QED BY <1>1, <1>3, <1>4, <2>1, <2>2, <2>3 DEF ImproveInv
<1> QED BY <1>5, <1>6

LEMMA ImproveStep ==
    ASSUME ImproveInv, [I!Next]_(I!vars) PROVE ImproveInv'
<1>1. ASSUME /\ UNCHANGED <<file, proposals, backup, texts, recopied, dropped>>
             /\ applying' = applying \/ applying' = I!NoneApplied
      PROVE  ImproveInv'
  <2>1. \A t : Lies(t)' = Lies(t)
    BY <1>1 DEF Lies, InFiles, InBackups, InProposals
  <2>2. I!NoneApplied \in Applications
    BY DEF I!NoneApplied, Applications
  <2>3. ImproveTypes'
    BY <1>1, <2>2 DEF ImproveInv, ImproveTypes
  <2>4. CASE applying' = applying
    BY <1>1, <2>1, <2>3, <2>4 DEF ImproveInv, I!NoneApplied
  <2>5. CASE applying' = I!NoneApplied
    BY <1>1, <2>1, <2>3, <2>5 DEF ImproveInv, I!NoneApplied
  <2> QED BY <1>1, <2>4, <2>5
<1>2. CASE (\E c \in Conversations : I!Ask(c) \/ I!NoProposal(c)) \/ I!Crash \/ UNCHANGED I!vars
  <2>1. /\ UNCHANGED <<file, proposals, backup, texts, recopied, dropped>>
        /\ applying' = applying \/ applying' = I!NoneApplied
    BY <1>2 DEF I!Ask, I!NoProposal, I!Crash, I!vars
  <2> QED BY <1>1, <2>1
<1> QED BY <1>2, SaveImproves, ApplyImproves, CopyImproves, ReplaceImproves, HandImproves DEF I!Next

(* /apply loses no text of a file it edits, for any files, proposals and   *)
(* crashes: what a file held is in a file, a backup or a proposal still,   *)
(* but for what the operator replaced by hand or saved between the copy of *)
(* a file and its replacement, and for the copies that a later copy under  *)
(* the same proposal replaced.                                             *)
THEOREM TextsAreKeptAlways ==
    ASSUME I!ImproveAssumption PROVE I!Spec => []I!TextsAreKept
<1>1. ImproveInv => I!TextsAreKept
  BY DEF ImproveInv, Lies, InFiles, InBackups, InProposals, I!TextsAreKept
<1>2. I!Init => ImproveInv
  BY ImproveStart
<1>3. ImproveInv /\ [I!Next]_(I!vars) => ImproveInv'
  BY ImproveStep
<1> QED BY <1>1, <1>2, <1>3, PTL DEF I!Spec
-----------------------------------------------------------------------------
(* QueryCache: how old an answer may be.                                   *)

Docs       == Q!Documents
Ages       == 0 .. Q!Horizon
Indexes    == [shows : Corpora \cup {Q!NoIndex.shows}, age : Ages]
Rows       == [answer : SUBSET Docs, age : Ages]
Signed == {c[z] : c \in Corpora, z \in Zones}
Requests   == [at : {"idle", "signed", "missed", "expired", "hit", "retrieved"},
               zone : Zones \cup {Q!Idle.zone}, signature : SUBSET Docs, spent : 0 .. Slack,
               answer : SUBSET Docs]

QueryTypes ==
    /\ corpus \in Corpora /\ index \in [Servers -> Indexes] /\ request \in [Servers -> Requests]
    /\ DOMAIN rows \subseteq Q!Keys /\ \A k \in DOMAIN rows : rows[k] \in Rows
    /\ shown \in [Zones -> [Docs -> Ages]] /\ oldest \in Ages

(* What the disk shows is shown now; an index shows nothing that has been  *)
(* off the disk for longer than its age.                                   *)
DiskIsNow == \A z \in Zones : \A d \in corpus[z] : shown[z][d] = 0
IndexIsAsOld(s) ==
    /\ index[s].shows \in Corpora \/ index[s].age = Q!Horizon
    /\ \A z \in Zones : \A d \in index[s].shows[z] : shown[z][d] <= index[s].age

(* Of what an entry answers, only what its signature does not hold can     *)
(* have changed after the signature was taken; the request that made it    *)
(* was at work then.                                                       *)
RowIsAsOld(k) ==
    \A d \in rows[k].answer \ k[2] : Slack >= 1 /\ shown[k[1]][d] <= Slack - 1 + rows[k].age

(* A request under way: its signature is as old as an index may be, and    *)
(* what else it answers as old as the request, or as the entry it hit.     *)
AtWork(s) ==
    LET r == request[s] IN
    /\ r.zone \in Zones /\ r.signature \in Signed
    /\ \A d \in r.signature : shown[r.zone][d] <= IndexTtl - 1 + r.spent
    /\ r.at \in {"signed", "missed", "expired"} =>
          index[s].shows[r.zone] = r.signature /\ index[s].age <= IndexTtl - 1 + r.spent
    /\ r.at = "retrieved" => \A d \in r.answer \ r.signature : shown[r.zone][d] <= r.spent - 1
    /\ r.at = "hit" => \A d \in r.answer \ r.signature :
                          Slack >= 1 /\ shown[r.zone][d] <= Slack + CacheTtl - 2 + r.spent

Limit == Slack + Q!Max({IndexTtl - 1, CacheTtl + Slack - 2})

CacheInv ==
    /\ QueryTypes /\ DiskIsNow
    /\ \A s \in Servers : IndexIsAsOld(s)
    /\ \A k \in DOMAIN rows : RowIsAsOld(k)
    /\ \A s \in Servers : request[s].at # "idle" => AtWork(s)
    /\ oldest <= Limit

LEMMA CacheNumbers ==
    ASSUME Q!CacheAssumption
    PROVE  /\ IndexTtl \in Nat \ {0} /\ CacheTtl \in Nat \ {0} /\ Slack \in Nat
           /\ Q!Horizon \in Nat /\ IndexTtl <= Q!Horizon
           /\ Limit \in Int /\ Slack + IndexTtl - 1 <= Limit /\ Slack + CacheTtl + Slack - 2 <= Limit
<1>1. IndexTtl \in Nat \ {0} /\ CacheTtl \in Nat \ {0} /\ Slack \in Nat
  BY DEF Q!CacheAssumption
<1>2. PICK a \in Int, b \in Int : a = IndexTtl - 1 /\ b = CacheTtl + Slack - 2
  BY <1>1
<1>3. \E m \in {a, b} : \A y \in {a, b} : m >= y
  BY <1>2
<1>4. Q!Max({a, b}) \in {a, b} /\ Q!Max({a, b}) >= a /\ Q!Max({a, b}) >= b
  BY <1>3 DEF Q!Max
<1> QED BY <1>1, <1>2, <1>4 DEF Limit, Q!Horizon

(* The largest of some ages.                                               *)
LEMMA LargestAge ==
    ASSUME NEW h \in Nat, NEW S \in SUBSET (0 .. h), S # {}
    PROVE  Q!Max(S) \in S /\ \A y \in S : Q!Max(S) >= y
<1> DEFINE below == {h - y : y \in S}
<1>1. \A y \in S : y \in 0 .. h /\ h - y \in Nat
  <2> SUFFICES ASSUME NEW y \in S PROVE y \in 0 .. h /\ h - y \in Nat
    OBVIOUS
  <2>1. y \in 0 .. h
    OBVIOUS
  <2> QED BY <2>1
<1>2. below \subseteq Nat /\ below # {}
  BY <1>1
<1>3. PICK R : /\ IsWellFoundedOn(R, Nat)
               /\ \A x, y \in Nat : <<y, x>> \in R <=> y < x
  <2>1. \A x, y \in Nat : <<y, x>> \in OpToRel(<, Nat) <=> y < x
    BY DEF OpToRel
  <2> QED BY <2>1, NatLessThanWellFounded, Zenon
<1> HIDE DEF below
<1>4. PICK m \in below : \A y \in below : ~ (<<y, m>> \in R)
  BY <1>2, <1>3, WFMin
<1>5. \A y \in below : ~ (y < m)
  BY <1>2, <1>3, <1>4
<1>6. PICK x \in S : m = h - x
  BY <1>4 DEF below
<1>7. ASSUME NEW y \in S PROVE x >= y
  <2>1. h - y \in below
    BY DEF below
  <2>2. ~ (h - y < h - x)
    BY <1>5, <1>6, <2>1
  <2>3. x \in 0 .. h /\ y \in 0 .. h
    BY <1>1
  <2> QED BY <2>2, <2>3
<1> QED BY <1>7 DEF Q!Max

LEMMA Growing ==
    ASSUME NEW h \in Nat, h = Q!Horizon
    PROVE  \A a \in 0 .. h, b \in 0 .. h :
             /\ Q!Older(a) \in 0 .. h /\ Q!Older(a) <= a + 1
             /\ a <= b => Q!Older(a) <= Q!Older(b)
             /\ b < h => Q!Older(b) = b + 1
             /\ b = h => Q!Older(b) = h
  BY DEF Q!Older

LEMMA CacheStart ==
    ASSUME Q!CacheAssumption, Q!Init PROVE CacheInv
<1>1. /\ corpus \in Corpora /\ rows = <<>> /\ oldest = 0
      /\ index = [s \in Servers |-> Q!NoIndex] /\ request = [s \in Servers |-> Q!Idle]
      /\ shown = [z \in Zones |-> [d \in Docs |-> IF d \in corpus[z] THEN 0 ELSE Q!Horizon]]
  BY DEF Q!Init, Docs
<1>2. Q!Horizon \in Nat /\ 0 \in Ages /\ Q!Horizon \in Ages
  BY CacheNumbers DEF Ages
<1>3. Q!NoIndex \in Indexes /\ Q!NoIndex.age = Q!Horizon /\ \A z \in Zones : Q!NoIndex.shows[z] = {}
  BY <1>2 DEF Q!NoIndex, Indexes
<1>4. Q!Idle \in Requests /\ Q!Idle.at = "idle"
  <2>1. Slack \in Nat /\ Q!Idle.zone \in Zones \cup {Q!Idle.zone}
    BY CacheNumbers
  <2>2. 0 \in 0 .. Slack
    BY <2>1
  <2> QED BY <2>1, <2>2 DEF Q!Idle, Requests
<1>5. shown \in [Zones -> [Docs -> Ages]]
  BY <1>1, <1>2
<1>6. DOMAIN rows = {}
  BY <1>1
<1>7. QueryTypes
  BY <1>1, <1>2, <1>3, <1>4, <1>5, <1>6 DEF QueryTypes
<1>8. DiskIsNow
  <2> SUFFICES ASSUME NEW z \in Zones, NEW d \in corpus[z] PROVE shown[z][d] = 0
    BY DEF DiskIsNow
  <2>1. d \in Docs
    BY <1>1 DEF Docs, Q!Documents
  <2> QED BY <1>1, <2>1
<1>9. \A s \in Servers : IndexIsAsOld(s)
  BY <1>1, <1>3 DEF IndexIsAsOld
<1>10. oldest <= Limit
  BY <1>1, CacheNumbers
<1> QED BY <1>1, <1>4, <1>6, <1>7, <1>8, <1>9, <1>10 DEF CacheInv

LEMMA CorpusInDocs ==
    ASSUME NEW c \in Corpora, NEW z \in Zones PROVE c[z] \subseteq Docs /\ c[z] \in Signed
  BY DEF Docs, Q!Documents, Signed

(* getIndex leaves an index that is not yet of age.                        *)
LEMMA IndexUsed ==
    ASSUME Q!CacheAssumption, CacheInv, NEW s \in Servers, Q!UsesIndex(s), UNCHANGED <<corpus, shown>>
    PROVE  /\ index' \in [Servers -> Indexes] /\ \A x \in Servers : IndexIsAsOld(x)'
           /\ \A x \in Servers \ {s} : index'[x] = index[x]
           /\ index'[s] = Q!IndexNow(s) /\ Q!IndexNow(s).shows \in Corpora
           /\ Q!IndexNow(s).age \in 0 .. IndexTtl - 1
           /\ \A z \in Zones : /\ Q!IndexNow(s).shows[z] \subseteq Docs
                               /\ Q!IndexNow(s).shows[z] \in Signed
                               /\ \A d \in Q!IndexNow(s).shows[z] : shown[z][d] <= IndexTtl - 1
           /\ index[s].age < IndexTtl => Q!IndexNow(s) = index[s]
           /\ ~ (index[s].age < IndexTtl) => \A z \in Zones : Q!IndexNow(s).shows[z] = corpus[z]
<1> DEFINE new == [shows |-> corpus, age |-> 0]
<1>1. /\ IndexTtl \in Nat \ {0} /\ Q!Horizon \in Nat /\ IndexTtl <= Q!Horizon
  BY CacheNumbers
<1>2. /\ corpus \in Corpora /\ index \in [Servers -> Indexes] /\ index[s] \in Indexes
      /\ shown \in [Zones -> [Docs -> Ages]] /\ DiskIsNow /\ \A x \in Servers : IndexIsAsOld(x)
  BY DEF CacheInv, QueryTypes
<1>3. new \in Indexes /\ new.shows = corpus /\ new.age = 0
  BY <1>1, <1>2 DEF Indexes, Ages
<1>4. index' = [index EXCEPT ![s] = Q!IndexNow(s)]
      /\ Q!IndexNow(s) = IF index[s].age < IndexTtl THEN index[s] ELSE new
  BY DEF Q!UsesIndex, Q!IndexNow
<1> HIDE DEF new
<1>5. CASE index[s].age < IndexTtl
  <2>1. Q!IndexNow(s) = index[s] /\ index' = index
    BY <1>2, <1>4, <1>5
  <2>2. index[s].shows \in Corpora /\ index[s].age \in Ages
    BY <1>1, <1>2, <1>5 DEF IndexIsAsOld, Indexes
  <2>3. index[s].age \in 0 .. IndexTtl - 1
    BY <1>1, <1>5, <2>2 DEF Ages
  <2>4. ASSUME NEW z \in Zones PROVE
               /\ index[s].shows[z] \subseteq Docs /\ index[s].shows[z] \in Signed
               /\ \A d \in index[s].shows[z] : shown[z][d] <= IndexTtl - 1
    <3>1. index[s].shows[z] \subseteq Docs /\ index[s].shows[z] \in Signed
      BY <2>2, CorpusInDocs
    <3>2. \A d \in index[s].shows[z] : shown[z][d] <= index[s].age /\ shown[z][d] \in Ages
      BY <1>2, <3>1 DEF IndexIsAsOld
    <3>3. \A d \in index[s].shows[z] : shown[z][d] <= IndexTtl - 1
      BY <1>1, <2>3, <3>2 DEF Ages
    <3> QED BY <3>1, <3>3
  <2>5. \A x \in Servers : IndexIsAsOld(x)'
    BY <1>2, <2>1 DEF IndexIsAsOld
  <2> QED BY <1>2, <1>5, <2>1, <2>2, <2>3, <2>4, <2>5
<1>6. CASE ~ (index[s].age < IndexTtl)
  <2>1. Q!IndexNow(s) = new
    BY <1>4, <1>6
  <2>2. index' \in [Servers -> Indexes] /\ index'[s] = new /\ \A x \in Servers \ {s} : index'[x] = index[x]
    BY <1>2, <1>3, <1>4, <2>1
  <2>3. ASSUME NEW z \in Zones
        PROVE  corpus[z] \subseteq Docs /\ corpus[z] \in Signed /\ \A d \in corpus[z] : shown[z][d] = 0
    BY <1>2, CorpusInDocs DEF DiskIsNow
  <2>4. ASSUME NEW x \in Servers PROVE IndexIsAsOld(x)'
    <3>1. CASE x = s
      <4>1. \A z \in Zones : \A d \in corpus[z] : shown'[z][d] <= 0
        BY <2>3
      <4> QED BY <1>2, <1>3, <2>2, <3>1, <4>1 DEF IndexIsAsOld
    <3>2. CASE x # s
      BY <1>2, <2>2, <3>2 DEF IndexIsAsOld
    <3> QED BY <3>1, <3>2
  <2>5. 0 \in 0 .. IndexTtl - 1 /\ 0 <= IndexTtl - 1
    BY <1>1
  <2> QED BY <1>2, <1>3, <1>6, <2>1, <2>2, <2>3, <2>4, <2>5
<1> QED BY <1>5, <1>6

(* A step of one request.                                                  *)
LEMMA OneRequest ==
    ASSUME CacheInv, NEW s \in Servers, NEW r \in Requests, request' = [request EXCEPT ![s] = r],
           \A x \in Servers \ {s} : index'[x] = index[x], UNCHANGED <<corpus, shown>>,
           r.at # "idle" => AtWork(s)'
    PROVE  /\ request' \in [Servers -> Requests] /\ request'[s] = r
           /\ \A x \in Servers : request'[x].at # "idle" => AtWork(x)'
<1>1. request' \in [Servers -> Requests] /\ request'[s] = r /\ \A x \in Servers \ {s} : request'[x] = request[x]
  BY DEF CacheInv, QueryTypes
<1>2. ASSUME NEW x \in Servers \ {s}, request'[x].at # "idle" PROVE AtWork(x)'
  <2>1. AtWork(x)
    BY <1>1, <1>2 DEF CacheInv
  <2> QED BY <1>1, <2>1 DEF AtWork
<1> QED BY <1>1, <1>2

LEMMA SignKeeps ==
    ASSUME Q!CacheAssumption, CacheInv, NEW s \in Servers, NEW z \in Zones, Q!Sign(s, z)
    PROVE  CacheInv'
<1> DEFINE signature == Q!IndexNow(s).shows[z]
           r == [Q!Idle EXCEPT !.at = "signed", !.zone = z, !.signature = signature]
<1>1. /\ Q!UsesIndex(s) /\ request' = [request EXCEPT ![s] = r]
      /\ UNCHANGED <<corpus, rows, shown, oldest>>
  BY DEF Q!Sign, Q!Goes, Q!ShownTo
<1>2. /\ index' \in [Servers -> Indexes] /\ \A x \in Servers : IndexIsAsOld(x)'
      /\ \A x \in Servers \ {s} : index'[x] = index[x]
      /\ index'[s] = Q!IndexNow(s) /\ Q!IndexNow(s).age \in 0 .. IndexTtl - 1
      /\ signature \subseteq Docs /\ signature \in Signed
      /\ \A d \in signature : shown[z][d] <= IndexTtl - 1
  BY <1>1, IndexUsed
<1>3. index'[s].shows[z] = signature /\ index'[s].age \in 0 .. IndexTtl - 1
  BY <1>2
<1> HIDE DEF signature
<1>4. r \in Requests /\ r.at = "signed" /\ r.zone = z /\ r.signature = signature /\ r.spent = 0
  <2>1. Slack \in Nat /\ 0 \in 0 .. Slack
    BY CacheNumbers
  <2> QED BY <1>2, <2>1 DEF Q!Idle, Requests
<1> HIDE DEF r
<1>5. request'[s] = r
  BY <1>1 DEF CacheInv, QueryTypes
<1>6. IndexTtl \in Nat \ {0}
  BY CacheNumbers
<1>7. AtWork(s)'
  <2>1. index'[s].age <= IndexTtl - 1 + 0 /\ IndexTtl - 1 + 0 = IndexTtl - 1
    BY <1>3, <1>6
  <2> QED BY <1>1, <1>2, <1>3, <1>4, <1>5, <2>1 DEF AtWork
<1>8. /\ request' \in [Servers -> Requests]
      /\ \A x \in Servers : request'[x].at # "idle" => AtWork(x)'
  BY <1>1, <1>2, <1>4, <1>7, OneRequest
<1>9. QueryTypes' /\ DiskIsNow' /\ oldest' <= Limit /\ \A k \in DOMAIN rows' : RowIsAsOld(k)'
  BY <1>1, <1>2, <1>8 DEF CacheInv, QueryTypes, DiskIsNow, RowIsAsOld
<1> QED BY <1>2, <1>8, <1>9 DEF CacheInv

LEMMA LookupKeeps ==
    ASSUME Q!CacheAssumption, CacheInv, NEW s \in Servers, Q!Lookup(s)
    PROVE  CacheInv'
<1>1. PICK q \in Requests : q = request[s]
  BY DEF CacheInv, QueryTypes
<1>2. /\ q.at = "signed" /\ UNCHANGED <<corpus, index, rows, shown, oldest>>
  BY <1>1 DEF Q!Lookup, Q!Reach
<1>3. AtWork(s)
  BY <1>1, <1>2 DEF CacheInv
<1>4. CASE \E p \in {"missed", "expired"} : request' = [request EXCEPT ![s] = [q EXCEPT !.at = p]]
  <2>1. PICK p \in {"missed", "expired"} : request' = [request EXCEPT ![s] = [q EXCEPT !.at = p]]
    BY <1>4
  <2>2. PICK r \in Requests : r = [q EXCEPT !.at = p]
    BY DEF Requests
  <2>3. r.at = p /\ r.zone = q.zone /\ r.signature = q.signature /\ r.spent = q.spent
    BY <2>2 DEF Requests
  <2>4. request' = [request EXCEPT ![s] = r] /\ request'[s] = r
    BY <2>1, <2>2 DEF CacheInv, QueryTypes
  <2>5. AtWork(s)'
    BY <1>1, <1>2, <1>3, <2>3, <2>4 DEF AtWork
  <2>6. /\ request' \in [Servers -> Requests]
        /\ \A x \in Servers : request'[x].at # "idle" => AtWork(x)'
    BY <1>2, <2>4, <2>5, OneRequest
  <2> QED BY <1>2, <2>6 DEF CacheInv, QueryTypes, DiskIsNow, IndexIsAsOld, RowIsAsOld
<1>5. CASE /\ Q!CacheKey(s) \in DOMAIN rows /\ ~ Q!Expired(rows[Q!CacheKey(s)])
           /\ request' = [request EXCEPT ![s] = [q EXCEPT !.at = "hit", !.answer = rows[Q!CacheKey(s)].answer]]
  <2>1. PICK k \in DOMAIN rows : k = Q!CacheKey(s)
    BY <1>5
  <2>2. k = <<q.zone, q.signature>> /\ RowIsAsOld(k) /\ rows[k] \in Rows /\ ~ (rows[k].age >= CacheTtl)
    BY <1>1, <1>5, <2>1 DEF Q!CacheKey, Q!Expired, CacheInv, QueryTypes
  <2>3. PICK answer \in SUBSET Docs, age \in Ages : answer = rows[k].answer /\ age = rows[k].age
    BY <2>2 DEF Rows
  <2>4. PICK r \in Requests : r = [q EXCEPT !.at = "hit", !.answer = answer]
    BY DEF Requests
  <2>5. r.at = "hit" /\ r.zone = q.zone /\ r.signature = q.signature /\ r.spent = q.spent /\ r.answer = answer
    BY <2>4 DEF Requests
  <2>6. request' = [request EXCEPT ![s] = r] /\ request'[s] = r
    BY <1>5, <2>1, <2>3, <2>4 DEF CacheInv, QueryTypes
  <2>7. Slack \in Nat /\ CacheTtl \in Nat /\ Q!Horizon \in Nat /\ q.spent \in 0 .. Slack
    BY CacheNumbers DEF Requests
  <2>8. q.zone \in Zones
    BY <1>1, <1>3 DEF AtWork
  <2>9. ASSUME NEW d \in answer \ q.signature
        PROVE  Slack >= 1 /\ shown[q.zone][d] <= Slack + CacheTtl - 2 + q.spent
    <3>1. shown[q.zone][d] \in Ages
      BY <2>3, <2>8 DEF CacheInv, QueryTypes
    <3>2. Slack >= 1 /\ shown[q.zone][d] <= Slack - 1 + age
      BY <2>2, <2>3 DEF RowIsAsOld
    <3>3. age <= CacheTtl - 1
      BY <2>2, <2>3, <2>7 DEF Ages
    <3> QED BY <2>3, <2>7, <3>1, <3>2, <3>3 DEF Ages
  <2>10. AtWork(s)'
    BY <1>1, <1>2, <1>3, <2>5, <2>6, <2>9 DEF AtWork
  <2>11. /\ request' \in [Servers -> Requests]
         /\ \A x \in Servers : request'[x].at # "idle" => AtWork(x)'
    BY <1>2, <2>6, <2>10, OneRequest
  <2> QED BY <1>2, <2>11 DEF CacheInv, QueryTypes, DiskIsNow, IndexIsAsOld, RowIsAsOld
<1> QED BY <1>1, <1>4, <1>5 DEF Q!Lookup, Q!Goes

(* A request is over: what it answered is none too old, and nothing else   *)
(* changes but, perhaps, the rows.                                         *)
LEMMA AnswersKeep ==
    ASSUME Q!CacheAssumption, CacheInv, NEW s \in Servers, NEW answer \in SUBSET Docs,
           Q!Answers(s, answer), request[s].zone \in Zones,
           \A d \in answer : shown[request[s].zone][d] <= Limit
    PROVE  oldest' \in Ages /\ oldest' <= Limit
<1>1. PICK z \in Zones : z = request[s].zone
  OBVIOUS
<1> DEFINE S == {shown[z][d] : d \in answer} \cup {oldest}
<1>2. oldest' = Q!Max(S)
  BY <1>1 DEF Q!Answers
<1>3. oldest \in Ages /\ oldest <= Limit /\ \A d \in answer : shown[z][d] \in Ages /\ shown[z][d] <= Limit
  BY <1>1 DEF CacheInv, QueryTypes
<1>4. S \in SUBSET Ages /\ S # {} /\ \A y \in S : y <= Limit
  BY <1>3
<1> HIDE DEF S
<1>5. Q!Max(S) \in S
  BY <1>4, CacheNumbers, LargestAge DEF Ages
<1> QED BY <1>2, <1>4, <1>5

LEMMA Ended ==
    ASSUME Q!CacheAssumption, CacheInv, NEW s \in Servers, Q!Goes(s, Q!Idle),
           UNCHANGED <<corpus, shown>>, \A x \in Servers \ {s} : index'[x] = index[x]
    PROVE  /\ request' \in [Servers -> Requests]
           /\ \A x \in Servers : request'[x].at # "idle" => AtWork(x)'
<1>1. Q!Idle \in Requests /\ Q!Idle.at = "idle"
  <2>1. Slack \in Nat /\ Q!Idle.zone \in Zones \cup {Q!Idle.zone}
    BY CacheNumbers
  <2>2. 0 \in 0 .. Slack
    BY <2>1
  <2> QED BY <2>1, <2>2 DEF Q!Idle, Requests
<1>2. PICK r \in Requests : r = Q!Idle /\ request' = [request EXCEPT ![s] = r] /\ r.at = "idle"
  BY <1>1 DEF Q!Goes
<1> QED BY <1>2, OneRequest

LEMMA TouchKeeps ==
    ASSUME Q!CacheAssumption, CacheInv, NEW s \in Servers, Q!Touch(s)
    PROVE  CacheInv'
<1>1. PICK q \in Requests : q = request[s]
  BY DEF CacheInv, QueryTypes
<1>2. /\ q.at = "hit" /\ Q!Answers(s, q.answer) /\ Q!Goes(s, Q!Idle)
      /\ UNCHANGED <<corpus, index, rows, shown>>
  BY <1>1 DEF Q!Touch, Q!Reach
<1>3. AtWork(s)
  BY <1>1, <1>2 DEF CacheInv
<1>4. Slack \in Nat /\ CacheTtl \in Nat /\ IndexTtl \in Nat /\ q.spent \in 0 .. Slack /\ q.answer \in SUBSET Docs
      /\ Q!Horizon \in Nat /\ Limit \in Int
      /\ Slack + IndexTtl - 1 <= Limit /\ Slack + CacheTtl + Slack - 2 <= Limit
  BY CacheNumbers DEF Requests
<1>5. q.zone \in Zones
  BY <1>1, <1>3 DEF AtWork
<1>6. ASSUME NEW d \in q.answer PROVE shown[q.zone][d] <= Limit
  <2>1. PICK n \in Ages : n = shown[q.zone][d]
    BY <1>4, <1>5 DEF CacheInv, QueryTypes
  <2>2. n <= IndexTtl - 1 + q.spent \/ n <= Slack + CacheTtl - 2 + q.spent
    BY <1>1, <1>2, <1>3, <2>1 DEF AtWork
  <2> QED BY <1>4, <2>1, <2>2 DEF Ages
<1>7. oldest' \in Ages /\ oldest' <= Limit
  BY <1>1, <1>2, <1>4, <1>5, <1>6, AnswersKeep
<1>8. /\ request' \in [Servers -> Requests]
      /\ \A x \in Servers : request'[x].at # "idle" => AtWork(x)'
  BY <1>2, Ended
<1> QED BY <1>2, <1>7, <1>8 DEF CacheInv, QueryTypes, DiskIsNow, IndexIsAsOld, RowIsAsOld

(* Rows that are only taken away.                                          *)
LEMMA FewerRows ==
    ASSUME CacheInv, NEW ks, rows' = Q!Without(ks), UNCHANGED shown
    PROVE  /\ DOMAIN rows' \subseteq Q!Keys /\ \A k \in DOMAIN rows' : rows'[k] \in Rows
           /\ \A k \in DOMAIN rows' : RowIsAsOld(k)'
<1>1. DOMAIN rows' = DOMAIN rows \ ks /\ \A k \in DOMAIN rows \ ks : rows'[k] = rows[k]
  BY DEF Q!Without
<1> QED BY <1>1 DEF CacheInv, QueryTypes, RowIsAsOld

LEMMA PurgeKeeps ==
    ASSUME Q!CacheAssumption, CacheInv, NEW s \in Servers, Q!Purge(s)
    PROVE  CacheInv'
<1>1. PICK q \in Requests : q = request[s]
  BY DEF CacheInv, QueryTypes
<1>2. /\ q.at = "expired" /\ rows' = Q!Without({Q!CacheKey(s)})
      /\ request' = [request EXCEPT ![s] = [q EXCEPT !.at = "missed"]]
      /\ UNCHANGED <<corpus, index, shown, oldest>>
  BY <1>1 DEF Q!Purge, Q!Reach, Q!Goes
<1>3. AtWork(s)
  BY <1>1, <1>2 DEF CacheInv
<1>4. PICK r \in Requests : r = [q EXCEPT !.at = "missed"]
  BY DEF Requests
<1>5. r.at = "missed" /\ r.zone = q.zone /\ r.signature = q.signature /\ r.spent = q.spent
  BY <1>4 DEF Requests
<1>6. request' = [request EXCEPT ![s] = r] /\ request'[s] = r
  BY <1>2, <1>4 DEF CacheInv, QueryTypes
<1>7. AtWork(s)'
  BY <1>1, <1>2, <1>3, <1>5, <1>6 DEF AtWork
<1>8. /\ request' \in [Servers -> Requests]
      /\ \A x \in Servers : request'[x].at # "idle" => AtWork(x)'
  BY <1>2, <1>6, <1>7, OneRequest
<1>9. /\ DOMAIN rows' \subseteq Q!Keys /\ \A k \in DOMAIN rows' : rows'[k] \in Rows
      /\ \A k \in DOMAIN rows' : RowIsAsOld(k)'
  BY <1>2, FewerRows
<1> QED BY <1>2, <1>8, <1>9 DEF CacheInv, QueryTypes, DiskIsNow, IndexIsAsOld

LEMMA RetrieveKeeps ==
    ASSUME Q!CacheAssumption, CacheInv, NEW s \in Servers, Q!Retrieve(s)
    PROVE  CacheInv'
<1>1. PICK q \in Requests : q = request[s]
  BY DEF CacheInv, QueryTypes
<1> DEFINE answer == Q!IndexNow(s).shows[q.zone]
<1>2. /\ q.at = "missed" /\ Q!UsesIndex(s)
      /\ request' = [request EXCEPT ![s] = [q EXCEPT !.at = "retrieved", !.answer = answer]]
      /\ UNCHANGED <<corpus, rows, shown, oldest>>
  BY <1>1 DEF Q!Retrieve, Q!Reach, Q!Goes, Q!ShownTo
<1>3. AtWork(s)
  BY <1>1, <1>2 DEF CacheInv
<1>4. /\ q.zone \in Zones /\ index[s].shows[q.zone] = q.signature /\ index[s].age <= IndexTtl - 1 + q.spent
  BY <1>1, <1>2, <1>3 DEF AtWork
<1>5. /\ index' \in [Servers -> Indexes] /\ \A x \in Servers : IndexIsAsOld(x)'
      /\ \A x \in Servers \ {s} : index'[x] = index[x]
      /\ answer \subseteq Docs
      /\ index[s].age < IndexTtl => Q!IndexNow(s) = index[s]
      /\ ~ (index[s].age < IndexTtl) => answer = corpus[q.zone]
  BY <1>2, <1>4, IndexUsed
<1>6. index[s].age < IndexTtl => answer = q.signature
  BY <1>4, <1>5
<1> HIDE DEF answer
<1>7. /\ IndexTtl \in Nat /\ q.spent \in Nat /\ index[s].age \in Nat
  <2>1. index[s] \in Indexes
    BY DEF CacheInv, QueryTypes
  <2> QED BY <2>1, CacheNumbers DEF Indexes, Ages, Requests
<1>8. ASSUME NEW d \in answer \ q.signature PROVE shown[q.zone][d] <= q.spent - 1
  <2>1. ~ (index[s].age < IndexTtl) /\ d \in corpus[q.zone]
    BY <1>5, <1>6, <1>8
  <2>2. shown[q.zone][d] = 0
    BY <1>4, <2>1 DEF CacheInv, DiskIsNow
  <2>3. q.spent >= 1
    BY <1>4, <1>7, <2>1
  <2> QED BY <1>7, <2>2, <2>3
<1>9. PICK r \in Requests : r = [q EXCEPT !.at = "retrieved", !.answer = answer]
  BY <1>5 DEF Requests
<1>10. r.at = "retrieved" /\ r.zone = q.zone /\ r.signature = q.signature /\ r.spent = q.spent /\ r.answer = answer
  BY <1>9 DEF Requests
<1>11. request' = [request EXCEPT ![s] = r] /\ request'[s] = r
  BY <1>2, <1>9 DEF CacheInv, QueryTypes
<1>12. AtWork(s)'
  BY <1>1, <1>2, <1>3, <1>8, <1>10, <1>11 DEF AtWork
<1>13. /\ request' \in [Servers -> Requests]
       /\ \A x \in Servers : request'[x].at # "idle" => AtWork(x)'
  BY <1>2, <1>5, <1>11, <1>12, OneRequest
<1> QED BY <1>2, <1>5, <1>13 DEF CacheInv, QueryTypes, DiskIsNow, RowIsAsOld

LEMMA StoreKeeps ==
    ASSUME Q!CacheAssumption, CacheInv, NEW s \in Servers, Q!Store(s)
    PROVE  CacheInv'
<1>1. PICK q \in Requests : q = request[s]
  BY DEF CacheInv, QueryTypes
<1> DEFINE key == <<q.zone, q.signature>>
           row == [answer |-> q.answer, age |-> 0]
<1>2. /\ q.at = "retrieved" /\ Q!Answers(s, q.answer) /\ Q!Goes(s, Q!Idle)
      /\ rows' = [k \in DOMAIN rows \cup {key} |-> IF k # key THEN rows[k] ELSE row]
      /\ UNCHANGED <<corpus, index, shown>>
  BY <1>1 DEF Q!Store, Q!Reach, Q!CacheKey
<1>3. AtWork(s)
  BY <1>1, <1>2 DEF CacheInv
<1>4. Slack \in Nat /\ IndexTtl \in Nat /\ q.spent \in 0 .. Slack /\ q.answer \in SUBSET Docs
      /\ Q!Horizon \in Nat /\ Limit \in Int /\ CacheTtl \in Nat \ {0}
      /\ Slack + IndexTtl - 1 <= Limit /\ Slack + CacheTtl + Slack - 2 <= Limit
  BY CacheNumbers DEF Requests
<1>5. q.zone \in Zones /\ q.signature \in Signed
  BY <1>1, <1>3 DEF AtWork
<1>6. ASSUME NEW d \in q.answer \ q.signature
      PROVE  Slack >= 1 /\ shown[q.zone][d] <= Slack - 1 + 0 /\ shown[q.zone][d] <= q.spent - 1
  <2>1. PICK n \in Ages : n = shown[q.zone][d]
    BY <1>4, <1>5 DEF CacheInv, QueryTypes
  <2>2. n <= q.spent - 1
    BY <1>1, <1>2, <1>3, <2>1 DEF AtWork
  <2> QED BY <1>4, <2>1, <2>2 DEF Ages
<1>7. ASSUME NEW d \in q.answer PROVE shown[q.zone][d] <= Limit
  <2>1. PICK n \in Ages : n = shown[q.zone][d]
    BY <1>4, <1>5 DEF CacheInv, QueryTypes
  <2>2. n <= IndexTtl - 1 + q.spent \/ n <= q.spent - 1
    BY <1>1, <1>3, <1>6, <2>1 DEF AtWork
  <2> QED BY <1>4, <2>1, <2>2 DEF Ages
<1>8. oldest' \in Ages /\ oldest' <= Limit
  BY <1>1, <1>2, <1>4, <1>5, <1>7, AnswersKeep
<1>9. /\ request' \in [Servers -> Requests]
      /\ \A x \in Servers : request'[x].at # "idle" => AtWork(x)'
  BY <1>2, Ended
<1>10. key \in Q!Keys /\ row \in Rows /\ key[1] = q.zone /\ key[2] = q.signature
       /\ row.answer = q.answer /\ row.age = 0
  BY <1>4, <1>5 DEF Q!Keys, Signed, Rows, Ages
<1> HIDE DEF key, row
<1>11. /\ DOMAIN rows' = DOMAIN rows \cup {key} /\ rows'[key] = row
       /\ \A k \in DOMAIN rows : k # key => rows'[k] = rows[k]
  BY <1>2
<1>12. DOMAIN rows' \subseteq Q!Keys /\ \A k \in DOMAIN rows' : rows'[k] \in Rows
  BY <1>10, <1>11 DEF CacheInv, QueryTypes
<1>13. ASSUME NEW k \in DOMAIN rows' PROVE RowIsAsOld(k)'
  <2>1. CASE k = key
    BY <1>2, <1>6, <1>10, <1>11, <2>1 DEF RowIsAsOld
  <2>2. CASE k # key
    BY <1>2, <1>11, <2>2 DEF CacheInv, RowIsAsOld
  <2> QED BY <2>1, <2>2
<1>14. QueryTypes'
  BY <1>2, <1>8, <1>9, <1>12 DEF CacheInv, QueryTypes
<1> QED BY <1>2, <1>8, <1>9, <1>13, <1>14 DEF CacheInv, DiskIsNow, IndexIsAsOld

LEMMA PruneKeeps ==
    ASSUME Q!CacheAssumption, CacheInv, Q!CheckNow
    PROVE  CacheInv'
<1>1. /\ \E ks : rows' = Q!Without(ks)
      /\ UNCHANGED <<corpus, index, request, shown, oldest>>
  BY DEF Q!CheckNow, Q!Prune
<1>2. /\ DOMAIN rows' \subseteq Q!Keys /\ \A k \in DOMAIN rows' : rows'[k] \in Rows
      /\ \A k \in DOMAIN rows' : RowIsAsOld(k)'
  BY <1>1, FewerRows
<1> QED BY <1>1, <1>2 DEF CacheInv, QueryTypes, DiskIsNow, IndexIsAsOld, AtWork

LEMMA RestartKeeps ==
    ASSUME Q!CacheAssumption, CacheInv, NEW s \in Servers, Q!Restart(s)
    PROVE  CacheInv'
<1>1. /\ index' = [index EXCEPT ![s] = Q!NoIndex] /\ Q!Goes(s, Q!Idle)
      /\ UNCHANGED <<corpus, rows, shown, oldest>>
  BY DEF Q!Restart
<1>2. Q!NoIndex \in Indexes /\ Q!NoIndex.age = Q!Horizon /\ \A z \in Zones : Q!NoIndex.shows[z] = {}
  BY CacheNumbers DEF Q!NoIndex, Indexes, Ages
<1>3. /\ index' \in [Servers -> Indexes] /\ index'[s] = Q!NoIndex
      /\ \A x \in Servers \ {s} : index'[x] = index[x]
  BY <1>1, <1>2 DEF CacheInv, QueryTypes
<1>4. ASSUME NEW x \in Servers PROVE IndexIsAsOld(x)'
  <2>1. CASE x = s
    BY <1>2, <1>3, <2>1 DEF IndexIsAsOld
  <2>2. CASE x # s
    BY <1>1, <1>3, <2>2 DEF CacheInv, IndexIsAsOld
  <2> QED BY <2>1, <2>2
<1>5. /\ request' \in [Servers -> Requests]
      /\ \A x \in Servers : request'[x].at # "idle" => AtWork(x)'
  BY <1>1, <1>3, Ended
<1> QED BY <1>1, <1>3, <1>4, <1>5 DEF CacheInv, QueryTypes, DiskIsNow, RowIsAsOld

(* What an edit of the disk shows again is shown now.                      *)
LEMMA EditKeeps ==
    ASSUME Q!CacheAssumption, CacheInv, Q!Edit
    PROVE  CacheInv'
<1>1. /\ corpus' \in Corpora
      /\ shown' = [z \in Zones |-> [d \in Docs |-> IF d \in corpus'[z] THEN 0 ELSE shown[z][d]]]
      /\ UNCHANGED <<index, rows, request, oldest>>
  BY DEF Q!Edit, Docs
<1>2. 0 \in Ages /\ Q!Horizon \in Nat
  BY CacheNumbers DEF Ages
<1>3. shown' \in [Zones -> [Docs -> Ages]]
  BY <1>1, <1>2 DEF CacheInv, QueryTypes
<1>4. ASSUME NEW z \in Zones, NEW d \in Docs
      PROVE  /\ shown'[z][d] = IF d \in corpus'[z] THEN 0 ELSE shown[z][d]
             /\ \A n \in Int : shown[z][d] <= n => shown'[z][d] <= n
  <2>1. shown'[z][d] = IF d \in corpus'[z] THEN 0 ELSE shown[z][d]
    BY <1>1
  <2>2. PICK m \in Ages : m = shown[z][d]
    BY DEF CacheInv, QueryTypes
  <2>3. m \in Nat
    BY <1>2, <2>2 DEF Ages
  <2>4. shown'[z][d] = 0 \/ shown'[z][d] = m
    BY <2>1, <2>2
  <2> QED BY <2>1, <2>2, <2>3, <2>4
<1>5. /\ Slack \in Nat /\ CacheTtl \in Nat /\ IndexTtl \in Nat
  BY CacheNumbers
<1>6. DiskIsNow'
  <2> SUFFICES ASSUME NEW z \in Zones, NEW d \in corpus'[z] PROVE shown'[z][d] = 0
    BY DEF DiskIsNow
  <2>1. d \in Docs
    BY <1>1, CorpusInDocs
  <2> QED BY <1>4, <2>1
<1>7. ASSUME NEW s \in Servers PROVE IndexIsAsOld(s)'
  <2>1. IndexIsAsOld(s) /\ index[s] \in Indexes
    BY DEF CacheInv, QueryTypes
  <2>2. index[s].age \in Int
    BY <1>2, <2>1 DEF Indexes, Ages
  <2>3. ASSUME NEW z \in Zones, NEW d \in index[s].shows[z] PROVE shown'[z][d] <= index[s].age
    <3>1. d \in Docs
      BY <2>1, <2>3, CorpusInDocs DEF Indexes, Q!NoIndex
    <3> QED BY <1>4, <2>1, <2>2, <3>1 DEF IndexIsAsOld
  <2> QED BY <1>1, <2>1, <2>3 DEF IndexIsAsOld
<1>8. ASSUME NEW k \in DOMAIN rows PROVE RowIsAsOld(k)'
  <2>1. RowIsAsOld(k) /\ rows[k] \in Rows /\ k \in Q!Keys
    BY DEF CacheInv, QueryTypes
  <2>2. PICK n \in Int : n = Slack - 1 + rows[k].age
    BY <1>2, <1>5, <2>1 DEF Rows, Ages
  <2>3. k[1] \in Zones /\ rows[k].answer \subseteq Docs
    BY <2>1 DEF Q!Keys, Rows
  <2> QED BY <1>1, <1>4, <2>1, <2>2, <2>3 DEF RowIsAsOld
<1>9. ASSUME NEW s \in Servers, request[s].at # "idle" PROVE AtWork(s)'
  <2>1. PICK r \in Requests : r = request[s]
    BY DEF CacheInv, QueryTypes
  <2>2. AtWork(s)
    BY <1>9 DEF CacheInv
  <2>3. PICK n \in Nat : n = r.spent
    BY <1>5 DEF Requests
  <2>4. r.zone \in Zones /\ r.signature \subseteq Docs /\ r.answer \subseteq Docs
    BY <2>1, <2>2 DEF Requests, AtWork
  <2>5. \A d \in r.signature : shown'[r.zone][d] <= IndexTtl - 1 + n
    <3>1. \A d \in r.signature : shown[r.zone][d] <= IndexTtl - 1 + n
      BY <2>1, <2>2, <2>3 DEF AtWork
    <3>2. IndexTtl - 1 + n \in Int
      BY <1>5
    <3> QED BY <1>4, <2>4, <3>1, <3>2
  <2>6. r.at = "retrieved" => \A d \in r.answer \ r.signature : shown'[r.zone][d] <= n - 1
    <3>1. r.at = "retrieved" => \A d \in r.answer \ r.signature : shown[r.zone][d] <= n - 1
      BY <2>1, <2>2, <2>3 DEF AtWork
    <3>2. n - 1 \in Int
      OBVIOUS
    <3> QED BY <1>4, <2>4, <3>1, <3>2
  <2>7. r.at = "hit" => \A d \in r.answer \ r.signature :
                          Slack >= 1 /\ shown'[r.zone][d] <= Slack + CacheTtl - 2 + n
    <3>1. r.at = "hit" => \A d \in r.answer \ r.signature :
                          Slack >= 1 /\ shown[r.zone][d] <= Slack + CacheTtl - 2 + n
      BY <2>1, <2>2, <2>3 DEF AtWork
    <3>2. Slack + CacheTtl - 2 + n \in Int
      BY <1>5
    <3> QED BY <1>4, <2>4, <3>1, <3>2
  <2> QED BY <1>1, <2>1, <2>2, <2>3, <2>5, <2>6, <2>7 DEF AtWork
<1>10. QueryTypes'
  BY <1>1, <1>3 DEF CacheInv, QueryTypes
<1> QED BY <1>1, <1>6, <1>7, <1>8, <1>9, <1>10 DEF CacheInv

(* Everything ages alike.                                                  *)
LEMMA TickKeeps ==
    ASSUME Q!CacheAssumption, CacheInv, Q!Tick
    PROVE  CacheInv'
<1>1. /\ \A s \in Servers : request[s].at # "idle" => request[s].spent < Slack
      /\ index' = [s \in Servers |-> [index[s] EXCEPT !.age = Q!Older(@)]]
      /\ rows' = [k \in DOMAIN rows |-> [rows[k] EXCEPT !.age = Q!Older(@)]]
      /\ request' = [s \in Servers |->
            IF request[s].at = "idle" THEN Q!Idle ELSE [request[s] EXCEPT !.spent = @ + 1]]
      /\ shown' = [z \in Zones |-> [d \in Docs |-> IF d \in corpus[z] THEN 0 ELSE Q!Older(shown[z][d])]]
      /\ UNCHANGED <<corpus, oldest>>
  BY DEF Q!Tick, Q!Reach, Docs
<1>2. PICK h \in Nat : h = Q!Horizon
  BY CacheNumbers
<1>3. Ages = 0 .. h /\ 0 \in Ages
  BY <1>2 DEF Ages
<1>4. \A a \in 0 .. h, b \in 0 .. h :
        /\ Q!Older(a) \in 0 .. h /\ Q!Older(a) <= a + 1
        /\ a <= b => Q!Older(a) <= Q!Older(b)
        /\ b < h => Q!Older(b) = b + 1
        /\ b = h => Q!Older(b) = h
  BY <1>2, Growing
<1>5. Slack \in Nat /\ CacheTtl \in Nat /\ IndexTtl \in Nat
  BY CacheNumbers
<1>6. ASSUME NEW z \in Zones, NEW d \in Docs
      PROVE  /\ shown[z][d] \in 0 .. h /\ shown'[z][d] \in 0 .. h
             /\ shown'[z][d] <= shown[z][d] + 1
             /\ \A b \in 0 .. h : shown[z][d] <= b => shown'[z][d] <= Q!Older(b)
             /\ d \in corpus[z] => shown'[z][d] = 0
  <2>1. PICK a \in 0 .. h : a = shown[z][d]
    BY <1>3 DEF CacheInv, QueryTypes
  <2>2. shown'[z][d] = IF d \in corpus[z] THEN 0 ELSE Q!Older(a)
    BY <1>1, <2>1
  <2>3. shown'[z][d] = 0 \/ shown'[z][d] = Q!Older(a)
    BY <2>2
  <2> QED BY <1>4, <2>1, <2>2, <2>3
<1>7. shown' \in [Zones -> [Docs -> Ages]]
  <2>1. \A z \in Zones, d \in Docs :
          (IF d \in corpus[z] THEN 0 ELSE Q!Older(shown[z][d])) \in Ages
    BY <1>3, <1>4, <1>6
  <2> QED BY <1>1, <2>1
<1>8. DiskIsNow'
  <2> SUFFICES ASSUME NEW z \in Zones, NEW d \in corpus[z] PROVE shown'[z][d] = 0
    BY <1>1 DEF DiskIsNow
  <2>1. d \in Docs
    BY CorpusInDocs DEF CacheInv, QueryTypes
  <2> QED BY <1>6, <2>1
<1>9. ASSUME NEW s \in Servers
      PROVE  /\ index'[s] \in Indexes /\ index'[s].shows = index[s].shows
             /\ index[s].age \in 0 .. h /\ index'[s].age = Q!Older(index[s].age)
  <2>1. PICK ix \in Indexes : ix = index[s]
    BY DEF CacheInv, QueryTypes
  <2>2. index'[s] = [ix EXCEPT !.age = Q!Older(ix.age)]
    BY <1>1, <2>1
  <2>3. ix.age \in 0 .. h /\ Q!Older(ix.age) \in Ages
    BY <1>3, <1>4, <2>1 DEF Indexes
  <2> QED BY <2>1, <2>2, <2>3 DEF Indexes
<1>10. ASSUME NEW s \in Servers PROVE IndexIsAsOld(s)'
  <2>1. IndexIsAsOld(s) /\ index[s] \in Indexes
    BY DEF CacheInv, QueryTypes
  <2>2. ASSUME NEW z \in Zones, NEW d \in index[s].shows[z] PROVE shown'[z][d] <= Q!Older(index[s].age)
    <3>1. d \in Docs
      BY <2>1, <2>2, CorpusInDocs DEF Indexes, Q!NoIndex
    <3> QED BY <1>6, <1>9, <2>1, <3>1 DEF IndexIsAsOld
  <2>3. index[s].age = Q!Horizon => index'[s].age = Q!Horizon
    BY <1>2, <1>4, <1>9
  <2> QED BY <1>9, <2>1, <2>2, <2>3 DEF IndexIsAsOld
<1>11. ASSUME NEW k \in DOMAIN rows
       PROVE  /\ rows'[k] \in Rows /\ rows'[k].answer = rows[k].answer
              /\ rows[k].age \in 0 .. h /\ rows'[k].age = Q!Older(rows[k].age)
  <2>1. PICK row \in Rows : row = rows[k]
    BY DEF CacheInv, QueryTypes
  <2>2. rows'[k] = [row EXCEPT !.age = Q!Older(row.age)]
    BY <1>1, <2>1
  <2>3. row.age \in 0 .. h /\ Q!Older(row.age) \in Ages
    BY <1>3, <1>4, <2>1 DEF Rows
  <2> QED BY <2>1, <2>2, <2>3 DEF Rows
<1>12. DOMAIN rows' = DOMAIN rows
  BY <1>1
<1>13. ASSUME NEW k \in DOMAIN rows PROVE RowIsAsOld(k)'
  <2> SUFFICES ASSUME NEW d \in rows[k].answer \ k[2]
               PROVE  Slack >= 1 /\ shown'[k[1]][d] <= Slack - 1 + Q!Older(rows[k].age)
    BY <1>11 DEF RowIsAsOld
  <2>1. k[1] \in Zones /\ d \in Docs
    BY DEF CacheInv, QueryTypes, Q!Keys, Rows
  <2>2. PICK a \in 0 .. h, b \in 0 .. h, c \in 0 .. h :
          a = rows[k].age /\ b = shown[k[1]][d] /\ c = shown'[k[1]][d]
    BY <1>6, <1>11, <2>1
  <2>3. Slack >= 1 /\ b <= Slack - 1 + a
    BY <2>2 DEF CacheInv, RowIsAsOld
  <2>4. c <= b + 1
    BY <1>6, <2>1, <2>2
  <2>5. Q!Older(a) = a + 1 \/ Q!Older(a) = h
    BY <1>4
  <2>6. c <= Slack - 1 + Q!Older(a)
    BY <1>5, <2>3, <2>4, <2>5
  <2> QED BY <2>2, <2>3, <2>6
<1>14. ASSUME NEW s \in Servers
       PROVE  /\ request'[s] \in Requests
              /\ request'[s].at # "idle" =>
                    /\ request[s].at = request'[s].at /\ request'[s].zone = request[s].zone
                    /\ request'[s].signature = request[s].signature
                    /\ request'[s].answer = request[s].answer
                    /\ request'[s].spent = request[s].spent + 1
  <2>1. PICK r \in Requests : r = request[s]
    BY DEF CacheInv, QueryTypes
  <2>2. CASE r.at = "idle"
    <3>1. request'[s] = Q!Idle
      BY <1>1, <2>1, <2>2
    <3>2. 0 \in 0 .. Slack /\ Q!Idle.zone \in Zones \cup {Q!Idle.zone}
      BY <1>5
    <3>3. Q!Idle \in Requests /\ Q!Idle.at = "idle"
      BY <3>2 DEF Q!Idle, Requests
    <3> QED BY <3>1, <3>3
  <2>3. CASE r.at # "idle"
    <3>1. PICK n \in 0 .. Slack : n = r.spent + 1
      <4>1. r.spent < Slack /\ r.spent \in 0 .. Slack
        BY <1>1, <2>1, <2>3 DEF Requests
      <4> QED BY <1>5, <4>1
    <3>2. request'[s] = [r EXCEPT !.spent = n]
      BY <1>1, <2>1, <2>3, <3>1
    <3> QED BY <2>1, <3>1, <3>2 DEF Requests
  <2> QED BY <2>2, <2>3
<1>15. ASSUME NEW s \in Servers, request'[s].at # "idle" PROVE AtWork(s)'
  <2>1. PICK r \in Requests : r = request[s]
    BY DEF CacheInv, QueryTypes
  <2>2. /\ r.at = request'[s].at /\ request'[s].zone = r.zone /\ request'[s].signature = r.signature
        /\ request'[s].answer = r.answer /\ request'[s].spent = r.spent + 1
    BY <1>14, <1>15, <2>1
  <2>3. AtWork(s)
    BY <1>15, <2>1, <2>2 DEF CacheInv
  <2>4. r.spent \in Nat
    BY <1>5 DEF Requests
  <2>5. r.zone \in Zones /\ r.signature \subseteq Docs /\ r.answer \subseteq Docs
    BY <2>1, <2>3 DEF Requests, AtWork
  <2>6. ASSUME NEW d \in r.signature PROVE shown'[r.zone][d] <= IndexTtl - 1 + (r.spent + 1)
    <3>1. PICK a \in 0 .. h, b \in 0 .. h : a = shown[r.zone][d] /\ b = shown'[r.zone][d] /\ b <= a + 1
      BY <1>6, <2>5
    <3>2. a <= IndexTtl - 1 + r.spent
      BY <2>1, <2>3, <3>1 DEF AtWork
    <3> QED BY <1>5, <2>4, <3>1, <3>2
  <2>7. ASSUME r.at \in {"signed", "missed", "expired"}
        PROVE  index'[s].shows[r.zone] = r.signature /\ index'[s].age <= IndexTtl - 1 + (r.spent + 1)
    <3>1. index[s].shows[r.zone] = r.signature /\ index[s].age <= IndexTtl - 1 + r.spent
      BY <2>1, <2>3, <2>7 DEF AtWork
    <3>2. PICK a \in 0 .. h, b \in 0 .. h : a = index[s].age /\ b = index'[s].age /\ b <= a + 1
      BY <1>4, <1>9
    <3> QED BY <1>5, <1>9, <2>4, <3>1, <3>2
  <2>8. ASSUME r.at = "retrieved", NEW d \in r.answer \ r.signature
        PROVE  shown'[r.zone][d] <= (r.spent + 1) - 1
    <3>1. PICK a \in 0 .. h, b \in 0 .. h : a = shown[r.zone][d] /\ b = shown'[r.zone][d] /\ b <= a + 1
      BY <1>6, <2>5
    <3>2. a <= r.spent - 1
      BY <2>1, <2>3, <2>8, <3>1 DEF AtWork
    <3> QED BY <2>4, <3>1, <3>2
  <2>9. ASSUME r.at = "hit", NEW d \in r.answer \ r.signature
        PROVE  Slack >= 1 /\ shown'[r.zone][d] <= Slack + CacheTtl - 2 + (r.spent + 1)
    <3>1. PICK a \in 0 .. h, b \in 0 .. h : a = shown[r.zone][d] /\ b = shown'[r.zone][d] /\ b <= a + 1
      BY <1>6, <2>5
    <3>2. Slack >= 1 /\ a <= Slack + CacheTtl - 2 + r.spent
      BY <2>1, <2>3, <2>9, <3>1 DEF AtWork
    <3> QED BY <1>5, <2>4, <3>1, <3>2
  <2>10. r.zone \in Zones /\ r.signature \in Signed
    BY <2>1, <2>3 DEF AtWork
  <2> QED BY <2>2, <2>6, <2>7, <2>8, <2>9, <2>10 DEF AtWork
<1>16. QueryTypes'
  <2>1. index' \in [Servers -> Indexes] /\ request' \in [Servers -> Requests]
    BY <1>1, <1>9, <1>14
  <2> QED BY <1>1, <1>7, <1>11, <1>12, <2>1 DEF CacheInv, QueryTypes
<1> QED BY <1>1, <1>8, <1>10, <1>12, <1>13, <1>15, <1>16 DEF CacheInv

LEMMA CacheStep ==
    ASSUME Q!CacheAssumption, CacheInv, [Q!Next]_(Q!caching) PROVE CacheInv'
<1>1. CASE UNCHANGED Q!caching
  BY <1>1 DEF Q!caching, CacheInv, QueryTypes, DiskIsNow, IndexIsAsOld, RowIsAsOld, AtWork
<1> QED BY <1>1, SignKeeps, LookupKeeps, PurgeKeeps, TouchKeeps, RetrieveKeeps, StoreKeeps, PruneKeeps,
           RestartKeeps, EditKeeps, TickKeeps DEF Q!Next

LEMMA CacheMeans ==
    ASSUME Q!CacheAssumption, CacheInv PROVE Q!AnswersAreFresh /\ Q!TypeOK
<1>1. Q!AnswersAreFresh
  BY DEF CacheInv, Limit, Q!AnswersAreFresh
<1>2. \A s \in Servers : index[s] \in Indexes /\ request[s] \in Requests
  BY DEF CacheInv, QueryTypes
<1>3. \A s \in Servers : index[s].age \in 0 .. Q!Horizon /\ request[s].spent \in 0 .. Slack
  BY <1>2 DEF Indexes, Requests, Ages
<1>4. \A s \in Servers : request[s].at \in {"idle", "signed", "missed", "expired", "hit", "retrieved"}
  BY <1>2 DEF Requests
<1>5. \A k \in DOMAIN rows : rows[k].answer \subseteq Q!Documents
  BY DEF CacheInv, QueryTypes, Rows, Docs
<1>6. corpus \in Corpora /\ DOMAIN rows \subseteq Q!Keys
  BY DEF CacheInv, QueryTypes
<1> QED BY <1>1, <1>3, <1>4, <1>5, <1>6 DEF Q!TypeOK

(* However many servers share the cache, and whatever the disk does, no    *)
(* answer of /api/dashboard-query holds a document that its zone has not   *)
(* been shown for longer than an index may be old, or an entry whose answer*)
(* was made after the disk had changed under its signature; and the cache  *)
(* holds only entries under a zone and a signature of that zone.           *)
THEOREM AnswersAreFreshAlways ==
    ASSUME Q!CacheAssumption PROVE Q!Spec => [](Q!AnswersAreFresh /\ Q!TypeOK)
<1>1. Q!Init => CacheInv
  BY CacheStart
<1>2. CacheInv /\ [Q!Next]_(Q!caching) => CacheInv'
  BY CacheStep
<1>3. CacheInv => Q!AnswersAreFresh /\ Q!TypeOK
  BY CacheMeans
<1> QED BY <1>1, <1>2, <1>3, PTL DEF Q!Spec

-----------------------------------------------------------------------------
(* TrajectoryLedger: the walks it admits                                   *)

Marks  == {"ok", "error", "turn"}
Counts == [row : Nat, worst : Nat, errors : Nat, oks : Nat]

(* f counts the walk, as far as k.                                         *)
Counting(f, walk, k) ==
    /\ f \in [0 .. k -> Counts] /\ f[0] = T!Uncounted
    /\ \A n \in 1 .. k : f[n] = T!Counted(f[n - 1], walk[n])

LEMMA CountedIs ==
    ASSUME NEW s \in Counts, NEW step \in Marks, NEW c, c = T!Counted(s, step)
    PROVE  /\ c \in Counts
           /\ step = "error" => /\ c.row = s.row + 1 /\ c.oks = s.oks /\ c.errors = s.errors + 1
                                /\ c.worst >= s.worst /\ c.worst >= c.row
           /\ step = "ok"    => c.row = 0 /\ c.oks = s.oks + 1 /\ c.worst = s.worst /\ c.errors = s.errors
           /\ step = "turn"  => c = s
<1>1. CASE step = "error"
  <2>1. PICK w \in Nat : w = IF s.row + 1 > s.worst THEN s.row + 1 ELSE s.worst
    BY DEF Counts
  <2>2. T!Counted(s, "error") = [s EXCEPT !.row = s.row + 1, !.errors = s.errors + 1, !.worst = w]
    BY <2>1 DEF T!Counted
  <2>3. c = [row |-> s.row + 1, worst |-> w, errors |-> s.errors + 1, oks |-> s.oks]
    BY <1>1, <2>2 DEF Counts
  <2> QED BY <1>1, <2>1, <2>3 DEF Counts
<1>2. CASE step = "ok"
  <2>1. T!Counted(s, "ok") = [s EXCEPT !.row = 0, !.oks = s.oks + 1]
    BY DEF T!Counted
  <2>2. c = [row |-> 0, worst |-> s.worst, errors |-> s.errors, oks |-> s.oks + 1]
    BY <1>2, <2>1 DEF Counts
  <2> QED BY <1>2, <2>2 DEF Counts
<1>3. CASE step = "turn"
  <2>1. T!Counted(s, "turn") = s
    BY DEF T!Counted
  <2> QED BY <1>3, <2>1
<1> QED BY <1>1, <1>2, <1>3 DEF Marks

LEMMA WalkIsCounted ==
    ASSUME NEW walk \in Seq(Marks)
    PROVE  \E f : Counting(f, walk, Len(walk))
<1> DEFINE bad == {k \in 0 .. Len(walk) : ~\E f : Counting(f, walk, k)}
<1>1. SUFFICES ASSUME bad # {} PROVE FALSE
  <2>1. Len(walk) \in 0 .. Len(walk)
    OBVIOUS
  <2> QED BY <2>1
<1>2. PICK m \in bad : \A k \in bad : m <= k
  <2>1. bad \subseteq Nat
    OBVIOUS
  <2> HIDE DEF bad
  <2> QED BY <1>1, <2>1, Smallest
<1>3. T!Uncounted \in Counts
  BY DEF T!Uncounted, Counts
<1>4. CASE m = 0
  <2>1. Counting([n \in 0 .. 0 |-> T!Uncounted], walk, 0)
    BY <1>3 DEF Counting
  <2> QED BY <1>4, <2>1
<1>5. CASE m # 0
  <2>1. m - 1 \in 0 .. Len(walk) /\ m - 1 \notin bad
    BY <1>2, <1>5
  <2>2. PICK f : Counting(f, walk, m - 1)
    BY <2>1
  <2>3. walk[m] \in Marks /\ f[m - 1] \in Counts
    BY <1>5, <2>2 DEF Counting
  <2>4. PICK c : c = T!Counted(f[m - 1], walk[m])
    OBVIOUS
  <2>5. c \in Counts
    BY <2>3, <2>4, CountedIs
  <2> DEFINE g == [n \in 0 .. m |-> IF n = m THEN c ELSE f[n]]
  <2>6. /\ g \in [0 .. m -> Counts] /\ g[0] = T!Uncounted
        /\ \A n \in 1 .. m - 1 : g[n] = f[n] /\ g[n - 1] = f[n - 1]
        /\ g[m] = c /\ g[m - 1] = f[m - 1]
    BY <1>5, <2>2, <2>5 DEF Counting
  <2> HIDE DEF g
  <2>7. Counting(g, walk, m)
    BY <1>5, <2>2, <2>4, <2>6 DEF Counting
  <2> QED BY <2>7
<1> QED BY <1>4, <1>5

LEMMA CountOfWalk ==
    ASSUME NEW walk \in Seq(Marks)
    PROVE  \E f : Counting(f, walk, Len(walk)) /\ T!Count(walk) = f[Len(walk)]
<1>1. PICK g : g = T!CountUpTo(walk)
  OBVIOUS
<1>2. g = [n \in 0 .. Len(walk) |-> IF n = 0 THEN T!Uncounted ELSE T!Counted(g[n - 1], walk[n])]
  <2>1. T!CountUpTo(walk) = CHOOSE h : h = [n \in 0 .. Len(walk) |-> IF n = 0 THEN T!Uncounted
                                                                 ELSE T!Counted(h[n - 1], walk[n])]
    BY DEF T!CountUpTo
  <2>2. PICK f : Counting(f, walk, Len(walk))
    BY WalkIsCounted
  <2>3. f = [n \in 0 .. Len(walk) |-> IF n = 0 THEN T!Uncounted ELSE T!Counted(f[n - 1], walk[n])]
    BY <2>2 DEF Counting
  <2> QED BY <1>1, <2>1, <2>3
<1> DEFINE bad == {k \in 0 .. Len(walk) : g[k] \notin Counts}
<1>3. /\ g[0] = T!Uncounted /\ DOMAIN g = 0 .. Len(walk)
      /\ \A n \in 1 .. Len(walk) : g[n] = T!Counted(g[n - 1], walk[n])
  BY <1>2
<1>4. ASSUME bad # {} PROVE FALSE
  <2>1. PICK m \in bad : \A k \in bad : m <= k
    <3>1. bad \subseteq Nat
      OBVIOUS
    <3> HIDE DEF bad
    <3> QED BY <1>4, <3>1, Smallest
  <2>2. m # 0
    BY <1>3 DEF T!Uncounted, Counts
  <2>3. g[m - 1] \in Counts /\ walk[m] \in Marks
    BY <2>1, <2>2
  <2> QED BY <1>3, <2>1, <2>2, <2>3, CountedIs
<1>5. Counting(g, walk, Len(walk))
  BY <1>2, <1>3, <1>4 DEF Counting
<1> QED BY <1>1, <1>5 DEF T!Count

Errors(walk, i, j) == {n \in i .. j : walk[n] = "error"}
NoOk(walk, i, j)   == \A n \in i .. j : walk[n] # "ok"

(* What the count c of the first n marks of a walk tells of its errors.    *)
Tells(c, walk, n) ==
    /\ \A i \in 1 .. n, j \in 1 .. n : NoOk(walk, i, j) => Cardinality(Errors(walk, i, j)) <= c.worst
    /\ \A i \in 1 .. n + 1 : NoOk(walk, i, n) => Cardinality(Errors(walk, i, n)) <= c.row
    /\ c.row <= c.worst
    /\ c.oks > 0 => \E i \in 1 .. n : walk[i] = "ok"

LEMMA ErrorsGrow ==
    ASSUME NEW walk, NEW i \in Nat, NEW n \in Nat, i <= n + 1
    PROVE  /\ IsFiniteSet(Errors(walk, i, n)) /\ Cardinality(Errors(walk, i, n)) \in Nat
           /\ walk[n + 1] = "error" =>
                 Cardinality(Errors(walk, i, n + 1)) = Cardinality(Errors(walk, i, n)) + 1
           /\ walk[n + 1] # "error" => Errors(walk, i, n + 1) = Errors(walk, i, n)
<1>1. IsFiniteSet(i .. n)
  BY FS_Interval
<1>2. IsFiniteSet(Errors(walk, i, n))
  BY <1>1, FS_Subset DEF Errors
<1>3. Cardinality(Errors(walk, i, n)) \in Nat
  BY <1>2, FS_CardinalityType
<1>4. ASSUME walk[n + 1] = "error"
      PROVE  Errors(walk, i, n + 1) = Errors(walk, i, n) \cup {n + 1} /\ n + 1 \notin Errors(walk, i, n)
  BY <1>4 DEF Errors
<1>5. ASSUME walk[n + 1] # "error" PROVE Errors(walk, i, n + 1) = Errors(walk, i, n)
  BY <1>5 DEF Errors
<1> QED BY <1>2, <1>3, <1>4, <1>5, FS_AddElement

LEMMA TellsMore ==
    ASSUME NEW walk, NEW n \in Nat, walk[n + 1] \in Marks,
           NEW s \in Counts, NEW c, c = T!Counted(s, walk[n + 1]), Tells(s, walk, n)
    PROVE  Tells(c, walk, n + 1)
<1>1. /\ c \in Counts
      /\ walk[n + 1] = "error" => c.row = s.row + 1 /\ c.oks = s.oks /\ c.worst >= s.worst /\ c.worst >= c.row
      /\ walk[n + 1] = "ok"    => c.row = 0 /\ c.oks = s.oks + 1 /\ c.worst = s.worst
      /\ walk[n + 1] = "turn"  => c = s
  BY CountedIs
<1>2. c.worst >= s.worst /\ c.row <= c.worst /\ s.row \in Nat /\ c.row \in Nat /\ s.worst \in Nat /\ c.worst \in Nat
      /\ s.oks \in Nat /\ c.oks \in Nat
  BY <1>1 DEF Counts, Marks, Tells
<1>3. ASSUME NEW i \in 1 .. n + 2, NoOk(walk, i, n + 1) PROVE Cardinality(Errors(walk, i, n + 1)) <= c.row
  <2>1. CASE i = n + 2
    <3>1. Errors(walk, i, n + 1) = {}
      BY <2>1 DEF Errors
    <3> QED BY <1>2, <3>1, FS_EmptySet
  <2>2. CASE i # n + 2
    <3>1. i \in 1 .. n + 1 /\ n + 1 \in i .. n + 1 /\ NoOk(walk, i, n)
      BY <1>3, <2>2 DEF NoOk
    <3>2. walk[n + 1] # "ok"
      BY <1>3, <3>1 DEF NoOk
    <3>3. Cardinality(Errors(walk, i, n)) <= s.row
      BY <3>1 DEF Tells
    <3>4. /\ Cardinality(Errors(walk, i, n)) \in Nat
          /\ walk[n + 1] = "error" =>
                Cardinality(Errors(walk, i, n + 1)) = Cardinality(Errors(walk, i, n)) + 1
          /\ walk[n + 1] # "error" => Errors(walk, i, n + 1) = Errors(walk, i, n)
      BY <3>1, ErrorsGrow
    <3> QED BY <1>1, <1>2, <3>2, <3>3, <3>4 DEF Marks
  <2> QED BY <2>1, <2>2
<1>4. ASSUME NEW i \in 1 .. n + 1, NEW j \in 1 .. n + 1, NoOk(walk, i, j)
      PROVE  Cardinality(Errors(walk, i, j)) <= c.worst
  <2>1. CASE i > j
    <3>1. Errors(walk, i, j) = {}
      BY <2>1 DEF Errors
    <3> QED BY <1>2, <3>1, FS_EmptySet
  <2>2. CASE j = n + 1
    <3>1. Cardinality(Errors(walk, i, j)) <= c.row
      BY <1>3, <1>4, <2>2
    <3>2. Cardinality(Errors(walk, i, j)) \in Nat
      BY <2>2, ErrorsGrow
    <3> QED BY <1>2, <3>1, <3>2
  <2>3. CASE i <= j /\ j # n + 1
    <3>1. i \in 1 .. n /\ j \in 1 .. n
      BY <2>3
    <3>2. Cardinality(Errors(walk, i, j)) <= s.worst
      BY <1>4, <3>1 DEF Tells
    <3>3. Cardinality(Errors(walk, i, j)) \in Nat
      BY <2>3, ErrorsGrow
    <3> QED BY <1>2, <3>2, <3>3
  <2> QED BY <2>1, <2>2, <2>3
<1>5. c.oks > 0 => \E i \in 1 .. n + 1 : walk[i] = "ok"
  <2>1. CASE walk[n + 1] = "ok"
    BY <2>1
  <2>2. CASE walk[n + 1] # "ok"
    <3>1. c.oks = s.oks
      BY <1>1, <2>2 DEF Marks
    <3> QED BY <3>1 DEF Tells
  <2> QED BY <2>1, <2>2
<1> QED BY <1>2, <1>3, <1>4, <1>5 DEF Tells

(* A walk that passes has a success, and nowhere more errors than may      *)
(* follow one another.                                                     *)
LEMMA PassedWalk ==
    ASSUME NEW t, t.steps \in Seq(Marks), T!LedgerAssumption, T!Passes(t)
    PROVE  /\ \E i \in 1 .. Len(t.steps) : t.steps[i] = "ok"
           /\ \A i, j \in 1 .. Len(t.steps) :
                 NoOk(t.steps, i, j) => Cardinality(Errors(t.steps, i, j)) <= MaxErrors
<1>1. PICK walk \in Seq(Marks) : walk = t.steps
  OBVIOUS
<1>2. PICK f : Counting(f, walk, Len(walk)) /\ T!Count(walk) = f[Len(walk)]
  BY CountOfWalk
<1> DEFINE bad == {k \in 0 .. Len(walk) : ~Tells(f[k], walk, k)}
<1>3. ASSUME bad # {} PROVE FALSE
  <2>1. PICK m \in bad : \A k \in bad : m <= k
    <3>1. bad \subseteq Nat
      OBVIOUS
    <3> HIDE DEF bad
    <3> QED BY <1>3, <3>1, Smallest
  <2>2. Tells(f[0], walk, 0)
    <3>1. \A i \in 1 .. 0 + 1 : Errors(walk, i, 0) = {}
      BY DEF Errors
    <3>2. f[0].row = 0 /\ f[0].worst = 0 /\ f[0].oks = 0
      BY <1>2 DEF Counting, T!Uncounted
    <3>3. \A i \in 1 .. 0 + 1 : Cardinality(Errors(walk, i, 0)) <= f[0].row
      <4>1. \A i \in 1 .. 0 + 1 : Cardinality(Errors(walk, i, 0)) = 0
        BY <3>1, FS_EmptySet
      <4> QED BY <3>2, <4>1
    <3> QED BY <3>2, <3>3 DEF Tells
  <2>3. m # 0
    BY <2>1, <2>2
  <2>4. m - 1 \in 0 .. Len(walk) /\ Tells(f[m - 1], walk, m - 1)
    BY <2>1, <2>3
  <2>5. f[m - 1] \in Counts /\ f[m] = T!Counted(f[m - 1], walk[m]) /\ walk[m] \in Marks
    BY <1>2, <2>1, <2>3 DEF Counting
  <2>6. PICK k \in Nat : k = m - 1
    BY <2>4
  <2>7. k + 1 = m
    BY <2>1, <2>6
  <2>8. Tells(f[m], walk, k + 1)
    BY <2>4, <2>5, <2>6, <2>7, TellsMore
  <2> QED BY <2>1, <2>7, <2>8
<1>4. PICK c : c = f[Len(walk)]
  OBVIOUS
<1>5. c \in Counts /\ Tells(c, walk, Len(walk))
  <2>1. Len(walk) \in 0 .. Len(walk)
    OBVIOUS
  <2> QED BY <1>2, <1>3, <1>4, <2>1 DEF Counting
<1>6. c.worst <= MaxErrors /\ c.errors + c.oks > 0 /\ ~(c.errors > 0 /\ c.oks = 0)
  BY <1>1, <1>2, <1>4 DEF T!Passes
<1>7. c.oks > 0 /\ c.worst \in Nat /\ MaxErrors \in Nat
  BY <1>5, <1>6 DEF Counts, T!LedgerAssumption
<1>8. ASSUME NEW i \in 1 .. Len(walk), NEW j \in 1 .. Len(walk), NoOk(walk, i, j)
      PROVE  Cardinality(Errors(walk, i, j)) <= MaxErrors
  <2>1. Cardinality(Errors(walk, i, j)) <= c.worst
    BY <1>5, <1>8 DEF Tells
  <2>2. Cardinality(Errors(walk, i, j)) \in Nat
    <3>1. IsFiniteSet(i .. j) /\ Errors(walk, i, j) \in SUBSET (i .. j)
      BY FS_Interval DEF Errors
    <3>2. IsFiniteSet(Errors(walk, i, j))
      BY <3>1, FS_Subset
    <3> QED BY <3>2, FS_CardinalityType
  <2> QED BY <1>6, <1>7, <2>1, <2>2
<1> QED BY <1>1, <1>5, <1>7, <1>8 DEF Tells

TextsOfRows == {"short", "cut", "blank", "uncut"}
LedgerRows  == [id : Nat \ {0}, text : TextsOfRows, digest : TextsOfRows, at : Nat, revision : Nat,
                evidence : Trajectories]

IsLine(l, last) == l = T!Junk \/ (l \in LedgerRows /\ l.id <= last /\ l.digest = l.text /\ T!Passes(l.evidence))

(* The file ls, of rows numbered up to last: no number stands on two lines,*)
(* and what was reported or shown in a snapshot stands there or was glued. *)
HasRow(ls, id, lost) == id \in lost \/ \E n \in DOMAIN ls : ls[n] # T!Junk /\ ls[n].id = id
Stands(ls, row, lost) == row.id \in lost \/ \E n \in DOMAIN ls : ls[n] = row

IsFile(ls, last) ==
    /\ ls \in Seq(LedgerRows \cup {T!Junk})
    /\ \A n \in DOMAIN ls : IsLine(ls[n], last)
    /\ \A m, n \in DOMAIN ls : m # n => ls[m] = T!Junk \/ ls[n] = T!Junk \/ ls[m].id # ls[n].id

LedgerInv ==
    /\ appended \in Nat /\ revision \in Nat /\ clock \in Nat /\ open \in BOOLEAN
    /\ IsFile(lines, appended) /\ (open => lines # <<>>)
    /\ \A id \in reported : HasRow(lines, id, glued)
    /\ snapshots \in Seq([asOf : Nat, items : SUBSET LedgerRows])
    /\ \A k \in DOMAIN snapshots : \A row \in snapshots[k].items :
          row.at <= snapshots[k].asOf /\ Stands(lines, row, glued)
    /\ T!SnapshotsGrow

LEMMA Members ==
    ASSUME NEW S, NEW s \in Seq(S) PROVE \A k \in DOMAIN s : s[k] \in S
<1> QED OBVIOUS

LEMMA RowsAreNotJunk == \A r \in LedgerRows : r # T!Junk
<1> SUFFICES ASSUME NEW r \in LedgerRows, r = T!Junk PROVE FALSE
  OBVIOUS
<1>1. r.id # 0
  BY DEF LedgerRows
<1>2. T!Junk.id = 0
  BY DEF T!Junk
<1> QED BY <1>1, <1>2

LEMMA LedgerStart == T!Init => LedgerInv
<1> SUFFICES ASSUME T!Init PROVE LedgerInv
  OBVIOUS
<1>1. /\ lines = <<>> /\ open = FALSE /\ revision = 0 /\ clock = 0 /\ snapshots = <<>>
      /\ appended = 0 /\ reported = {} /\ glued = {}
  BY DEF T!Init
<1>2. T!SnapshotsGrow
  BY <1>1 DEF T!SnapshotsGrow
<1>3. IsFile(lines, appended)
  <2>1. <<>> \in Seq(LedgerRows \cup {T!Junk}) /\ DOMAIN <<>> = {}
    OBVIOUS
  <2> QED BY <1>1, <2>1 DEF IsFile
<1>4. <<>> \in Seq([asOf : Nat, items : SUBSET LedgerRows]) /\ DOMAIN <<>> = {}
  OBVIOUS
<1> QED BY <1>1, <1>2, <1>3, <1>4 DEF LedgerInv

(* One more line, after a whole one or on a torn one.                      *)
LEMMA LineIsAdded ==
    ASSUME LedgerInv, NEW line, IsLine(line, appended + 1), line # T!Junk => line.id = appended + 1,
           NEW ls, ls = T!Extended(line),
           NEW lost, glued \cup T!Lost \subseteq lost
    PROVE  /\ IsFile(ls, appended + 1) /\ ls # <<>>
           /\ \A id : HasRow(lines, id, glued) => HasRow(ls, id, lost)
           /\ \A row \in LedgerRows : Stands(lines, row, glued) => Stands(ls, row, lost)
           /\ ~open /\ line # T!Junk => HasRow(ls, line.id, lost)
<1>1. /\ lines \in Seq(LedgerRows \cup {T!Junk}) /\ appended \in Nat /\ open \in BOOLEAN /\ (open => lines # <<>>)
      /\ \A n \in DOMAIN lines : IsLine(lines[n], appended)
      /\ \A m, n \in DOMAIN lines : m # n => lines[m] = T!Junk \/ lines[n] = T!Junk \/ lines[m].id # lines[n].id
  BY DEF LedgerInv, IsFile
<1>2. \A n \in DOMAIN lines : IsLine(lines[n], appended + 1) /\ (lines[n] # T!Junk => lines[n].id # appended + 1)
  BY <1>1 DEF IsLine, LedgerRows
<1>3. line \in LedgerRows \cup {T!Junk}
  BY DEF IsLine
<1>4. IsLine(T!Junk, appended + 1)
  BY DEF IsLine
<1>5. CASE ~open
  <2>1. ls = Append(lines, line)
    BY <1>5 DEF T!Extended
  <2>2. /\ ls \in Seq(LedgerRows \cup {T!Junk}) /\ Len(ls) = Len(lines) + 1 /\ DOMAIN ls = 1 .. Len(lines) + 1
        /\ DOMAIN lines = 1 .. Len(lines)
        /\ ls[Len(lines) + 1] = line /\ \A n \in DOMAIN lines : ls[n] = lines[n]
    BY <1>1, <1>3, <2>1
  <2>3. IsFile(ls, appended + 1)
    BY <1>1, <1>2, <2>2 DEF IsFile
  <2>4. Len(lines) + 1 \in DOMAIN ls /\ DOMAIN lines \subseteq DOMAIN ls /\ ls # <<>>
    BY <2>2
  <2> QED BY <1>5, <2>2, <2>3, <2>4 DEF HasRow, Stands
<1>6. CASE open
  <2>0. PICK k \in Nat : k = Len(lines)
    BY <1>1
  <2>1. ls = Append(SubSeq(lines, 1, k - 1), T!Junk)
    BY <1>6, <2>0 DEF T!Extended, T!Front
  <2>2. k \in Nat \ {0} /\ DOMAIN lines = 1 .. k
    BY <1>1, <1>6, <2>0
  <2>3. PICK front \in Seq(LedgerRows \cup {T!Junk}) :
           front = SubSeq(lines, 1, k - 1) /\ Len(front) = k - 1 /\ \A n \in 1 .. k - 1 : front[n] = lines[n]
    <3>1. lines \in Seq(LedgerRows \cup {T!Junk}) /\ k \in Nat \ {0} /\ k = Len(lines)
      BY <1>1, <2>0, <2>2
    <3>2. PICK S : S = LedgerRows \cup {T!Junk}
      OBVIOUS
    <3>3. lines \in Seq(S)
      BY <3>1, <3>2
    <3>4. \E front \in Seq(S) :
             front = SubSeq(lines, 1, k - 1) /\ Len(front) = k - 1 /\ \A n \in 1 .. k - 1 : front[n] = lines[n]
      <4>1. SubSeq(lines, 1, k - 1) \in Seq(S) /\ Len(SubSeq(lines, 1, k - 1)) = k - 1
        BY <3>1, <3>3
      <4>2. \A n \in 1 .. k - 1 : SubSeq(lines, 1, k - 1)[n] = lines[n]
        BY <3>1, <3>3
      <4> QED BY <4>1, <4>2
    <3> QED BY <3>2, <3>4
  <2>4. /\ ls \in Seq(LedgerRows \cup {T!Junk}) /\ DOMAIN ls = 1 .. k
        /\ ls[k] = T!Junk /\ \A n \in 1 .. k - 1 : ls[n] = lines[n]
    BY <2>1, <2>2, <2>3
  <2>5. IsFile(ls, appended + 1)
    <3>1. \A n \in 1 .. k : n = k \/ n \in 1 .. k - 1
      BY <2>2
    <3>2. \A n \in DOMAIN ls : IsLine(ls[n], appended + 1)
      BY <1>2, <1>4, <2>2, <2>4, <3>1
    <3>3. \A m, n \in DOMAIN ls : m # n => ls[m] = T!Junk \/ ls[n] = T!Junk \/ ls[m].id # ls[n].id
      BY <1>1, <2>2, <2>4, <3>1
    <3> QED BY <2>4, <3>2, <3>3 DEF IsFile
  <2>6. lines[k] # T!Junk => lines[k].id \in lost
    BY <1>6, <2>0 DEF T!Lost, T!Last
  <2>7. glued \subseteq lost
    OBVIOUS
  <2>8. ASSUME NEW id, HasRow(lines, id, glued) PROVE HasRow(ls, id, lost)
    <3>1. CASE id \in glued
      BY <2>7, <3>1 DEF HasRow
    <3>2. CASE id \notin glued
      <4>1. PICK n \in DOMAIN lines : lines[n] # T!Junk /\ lines[n].id = id
        BY <2>8, <3>2 DEF HasRow
      <4>2. n = k \/ n \in 1 .. k - 1
        BY <2>2
      <4>3. CASE n = k
        BY <2>6, <4>1, <4>3 DEF HasRow
      <4>4. CASE n \in 1 .. k - 1
        <5>1. n \in DOMAIN ls /\ ls[n] = lines[n]
          BY <2>2, <2>4, <4>4
        <5> QED BY <4>1, <5>1 DEF HasRow
      <4> QED BY <4>2, <4>3, <4>4
    <3> QED BY <3>1, <3>2
  <2>9. ASSUME NEW row \in LedgerRows, Stands(lines, row, glued) PROVE Stands(ls, row, lost)
    <3>1. CASE row.id \in glued
      BY <2>7, <3>1 DEF Stands
    <3>2. CASE row.id \notin glued
      <4>1. PICK n \in DOMAIN lines : lines[n] = row
        BY <2>9, <3>2 DEF Stands
      <4>2. n = k \/ n \in 1 .. k - 1
        BY <2>2
      <4>3. CASE n = k
        BY <2>6, <4>1, <4>3, RowsAreNotJunk DEF Stands
      <4>4. CASE n \in 1 .. k - 1
        <5>1. n \in DOMAIN ls /\ ls[n] = lines[n]
          BY <2>2, <2>4, <4>4
        <5> QED BY <4>1, <5>1 DEF Stands
      <4> QED BY <4>2, <4>3, <4>4
    <3> QED BY <3>1, <3>2
  <2>10. ls # <<>>
    BY <2>2, <2>4
  <2> QED BY <1>6, <2>5, <2>8, <2>9, <2>10
<1> QED BY <1>1, <1>5, <1>6

(* A row that is written.                                                  *)
LEMMA RowIsLine ==
    ASSUME T!LedgerAssumption, LedgerInv, NEW t \in Trajectories, NEW moment \in 0 .. clock, T!Passes(t),
           NEW row, row = T!Row(appended + 1, t, moment)
    PROVE  IsLine(row, appended + 1) /\ row # T!Junk /\ row.id = appended + 1
<1>1. t.text \in {"short", "long", "spaced", "derived"} /\ appended \in Nat /\ revision \in Nat /\ moment \in Nat
  BY DEF T!LedgerAssumption, LedgerInv
<1>2. T!Normal(t.text) \in TextsOfRows
  <2>1. /\ T!Normal("short") = "short" /\ T!Normal("long") = "cut" /\ T!Normal("spaced") = "blank"
        /\ T!Normal("derived") = "uncut"
    BY DEF T!Normal
  <2> QED BY <1>1, <2>1 DEF TextsOfRows
<1>3. PICK x \in TextsOfRows : x = T!Normal(t.text)
  BY <1>2
<1>4. row = [id |-> appended + 1, text |-> x, digest |-> x, at |-> moment, revision |-> revision, evidence |-> t]
  BY <1>3 DEF T!Row
<1>5. row \in LedgerRows /\ row.id = appended + 1 /\ row.digest = row.text /\ row.evidence = t
  BY <1>1, <1>4 DEF LedgerRows
<1> QED BY <1>1, <1>5, RowsAreNotJunk DEF IsLine

(* What may change in the file while the snapshots stay.                   *)
LEMMA SnapshotsLast ==
    ASSUME LedgerInv, snapshots' = snapshots, glued \subseteq glued',
           \A row \in LedgerRows : Stands(lines, row, glued) => Stands(lines', row, glued')
    PROVE  /\ \A k \in DOMAIN snapshots' : \A row \in snapshots'[k].items :
                 row.at <= snapshots'[k].asOf /\ Stands(lines', row, glued')
           /\ T!SnapshotsGrow'
<1>1. \A k \in DOMAIN snapshots : snapshots[k].items \subseteq LedgerRows
  <2>1. snapshots \in Seq([asOf : Nat, items : SUBSET LedgerRows])
    BY DEF LedgerInv
  <2>2. \A k \in DOMAIN snapshots : snapshots[k] \in [asOf : Nat, items : SUBSET LedgerRows]
    BY <2>1, Members
  <2> QED BY <2>2
<1>2. \A k \in DOMAIN snapshots : \A row \in snapshots[k].items :
         row.at <= snapshots[k].asOf /\ Stands(lines, row, glued)
  BY DEF LedgerInv
<1>3. T!SnapshotsGrow'
  <2>1. T!SnapshotsGrow
    BY DEF LedgerInv
  <2> QED BY <2>1 DEF T!SnapshotsGrow
<1> QED BY <1>1, <1>2, <1>3

LEMMA AppendKeepsLedger ==
    ASSUME T!LedgerAssumption, LedgerInv, T!AppendTrajectory PROVE LedgerInv'
<1>1. PICK t \in Trajectories, moment \in 0 .. clock :
         /\ T!Passes(t) /\ lines' = T!Extended(T!Row(appended + 1, t, moment)) /\ open' = FALSE
         /\ glued' = glued \cup T!Lost \cup (IF open THEN {appended + 1} ELSE {})
  BY DEF T!AppendTrajectory
<1>2. /\ appended' = appended + 1 /\ reported' = reported \cup {appended + 1} /\ revision' = revision
      /\ clock' = clock /\ snapshots' = snapshots
  BY DEF T!AppendTrajectory
<1>3. PICK row : row = T!Row(appended + 1, t, moment)
  OBVIOUS
<1>4. IsLine(row, appended + 1) /\ row # T!Junk /\ row.id = appended + 1
  BY <1>1, <1>3, RowIsLine
<1>5. glued \cup T!Lost \subseteq glued' /\ (open => appended + 1 \in glued')
  BY <1>1
<1>6. /\ IsFile(lines', appended + 1)
      /\ \A id : HasRow(lines, id, glued) => HasRow(lines', id, glued')
      /\ \A r \in LedgerRows : Stands(lines, r, glued) => Stands(lines', r, glued')
      /\ ~open => HasRow(lines', row.id, glued')
  BY <1>1, <1>3, <1>4, <1>5, LineIsAdded
<1>7. HasRow(lines', appended + 1, glued')
  BY <1>4, <1>5, <1>6 DEF HasRow
<1>8. /\ \A k \in DOMAIN snapshots' : \A r \in snapshots'[k].items :
            r.at <= snapshots'[k].asOf /\ Stands(lines', r, glued')
      /\ T!SnapshotsGrow'
  BY <1>2, <1>5, <1>6, SnapshotsLast
<1>9. /\ appended' \in Nat /\ revision' \in Nat /\ clock' \in Nat /\ open' = FALSE
      /\ snapshots' \in Seq([asOf : Nat, items : SUBSET LedgerRows])
      /\ \A id \in reported : HasRow(lines, id, glued)
  BY <1>1, <1>2 DEF LedgerInv
<1>10. \A id \in reported' : HasRow(lines', id, glued')
  BY <1>2, <1>6, <1>7, <1>9
<1> QED BY <1>2, <1>6, <1>8, <1>9, <1>10 DEF LedgerInv

LEMMA TearKeepsLedger ==
    ASSUME T!LedgerAssumption, LedgerInv, T!TearAppend PROVE LedgerInv'
<1>1. PICK t \in Trajectories, moment \in 0 .. clock, whole \in BOOLEAN :
         /\ T!Passes(t) /\ lines' = T!Extended(IF whole THEN T!Row(appended + 1, t, moment) ELSE T!Junk)
         /\ glued' = glued \cup T!Lost \cup (IF open \/ ~whole THEN {appended + 1} ELSE {})
  BY DEF T!TearAppend
<1>2. /\ appended' = appended + 1 /\ reported' = reported /\ revision' = revision /\ open' = TRUE
      /\ clock' = clock /\ snapshots' = snapshots
  BY DEF T!TearAppend
<1>3. PICK line : line = IF whole THEN T!Row(appended + 1, t, moment) ELSE T!Junk
  OBVIOUS
<1>4. IsLine(line, appended + 1) /\ (line # T!Junk => line.id = appended + 1)
  <2>1. CASE whole
    BY <1>1, <1>3, <2>1, RowIsLine
  <2>2. CASE ~whole
    BY <1>3, <2>2 DEF IsLine
  <2> QED BY <2>1, <2>2
<1>5. glued \cup T!Lost \subseteq glued'
  BY <1>1
<1>6. /\ IsFile(lines', appended + 1) /\ lines' # <<>>
      /\ \A id : HasRow(lines, id, glued) => HasRow(lines', id, glued')
      /\ \A r \in LedgerRows : Stands(lines, r, glued) => Stands(lines', r, glued')
  BY <1>1, <1>3, <1>4, <1>5, LineIsAdded
<1>8. /\ \A k \in DOMAIN snapshots' : \A r \in snapshots'[k].items :
            r.at <= snapshots'[k].asOf /\ Stands(lines', r, glued')
      /\ T!SnapshotsGrow'
  BY <1>2, <1>5, <1>6, SnapshotsLast
<1>9. /\ appended' \in Nat /\ revision' \in Nat /\ clock' \in Nat /\ open' = TRUE
      /\ snapshots' \in Seq([asOf : Nat, items : SUBSET LedgerRows])
      /\ \A id \in reported : HasRow(lines, id, glued)
  BY <1>1, <1>2 DEF LedgerInv
<1> QED BY <1>2, <1>6, <1>8, <1>9 DEF LedgerInv

LEMMA RestKeepsLedger ==
    ASSUME LedgerInv, T!Deploy \/ T!Tick \/ UNCHANGED T!ledgered PROVE LedgerInv'
<1>1. /\ lines' = lines /\ open' = open /\ snapshots' = snapshots /\ appended' = appended
      /\ reported' = reported /\ glued' = glued
  BY DEF T!Deploy, T!Tick, T!ledgered
<1>2. revision' \in Nat /\ clock' \in Nat
  BY DEF T!Deploy, T!Tick, T!ledgered, LedgerInv
<1>3. /\ \A k \in DOMAIN snapshots' : \A r \in snapshots'[k].items :
            r.at <= snapshots'[k].asOf /\ Stands(lines', r, glued')
      /\ T!SnapshotsGrow'
  BY <1>1, SnapshotsLast
<1> QED BY <1>1, <1>2, <1>3 DEF LedgerInv

SameNumber(R) == \A r, s \in R : r.id = s.id => r = s
Above(R, r)   == {s \in R : T!Later(s, r)}

(* The order of the rows of a snapshot is total.                           *)
LEMMA LaterIsTotal ==
    ASSUME NEW R \in SUBSET LedgerRows, SameNumber(R)
    PROVE  /\ \A r \in R : ~T!Later(r, r)
           /\ \A r, s \in R : r # s => T!Later(r, s) \/ T!Later(s, r)
           /\ \A r, s, u \in R : T!Later(r, s) /\ T!Later(s, u) => T!Later(r, u)
<1>1. \A r \in R : r.at \in Nat /\ r.id \in Nat
  BY DEF LedgerRows
<1>2. \A r, s \in R : r # s => r.id # s.id
  BY DEF SameNumber
<1>3. \A r \in R : ~T!Later(r, r)
  BY <1>1 DEF T!Later
<1>4. ASSUME NEW r \in R, NEW s \in R, r # s PROVE T!Later(r, s) \/ T!Later(s, r)
  BY <1>1, <1>2, <1>4 DEF T!Later
<1>5. ASSUME NEW r \in R, NEW s \in R, NEW u \in R, T!Later(r, s), T!Later(s, u) PROVE T!Later(r, u)
  BY <1>1, <1>5 DEF T!Later
<1> QED BY <1>3, <1>4, <1>5

(* The latest k of a finite set of rows, which every other one is older    *)
(* than.                                                                   *)
LEMMA TopOf ==
    ASSUME NEW R \in SUBSET LedgerRows, SameNumber(R), IsFiniteSet(R), NEW k \in Nat, k <= Cardinality(R)
    PROVE  \E U \in SUBSET R : /\ Cardinality(U) = k
                               /\ \A u \in U, r \in R \ U : T!Later(u, r)
<1> DEFINE Upper(n) == \E U \in SUBSET R : Cardinality(U) = n /\ \A u \in U, r \in R \ U : T!Later(u, r)
<1> DEFINE bad == {n \in 0 .. k : ~Upper(n)}
<1>0. Cardinality(R) \in Nat
  BY FS_CardinalityType
<1>1. SUFFICES ASSUME bad # {} PROVE FALSE
  <2>1. k \in 0 .. k
    OBVIOUS
  <2> QED BY <2>1
<1>2. PICK m \in bad : \A n \in bad : m <= n
  <2>1. bad \in SUBSET Nat
    OBVIOUS
  <2> HIDE DEF bad
  <2> QED BY <1>1, <2>1, Smallest
<1>3. CASE m = 0
  <2>1. Cardinality({}) = 0
    BY FS_EmptySet
  <2>2. Upper(0)
    BY <2>1
  <2> QED BY <1>2, <1>3, <2>2
<1>4. CASE m # 0
  <2>0. m \in 1 .. k /\ m - 1 \in 0 .. k /\ m - 1 \notin bad
    BY <1>2, <1>4
  <2>1. PICK U \in SUBSET R : Cardinality(U) = m - 1 /\ \A u \in U, r \in R \ U : T!Later(u, r)
    BY <2>0
  <2>2. IsFiniteSet(U)
    BY FS_Subset
  <2>3. R \ U # {}
    <3>1. CASE R = U
      BY <1>0, <2>0, <2>1, <3>1
    <3> QED BY <3>1
  <2> DEFINE ranks == {Cardinality(Above(R, r)) : r \in R \ U}
  <2>4. \A r \in R : IsFiniteSet(Above(R, r)) /\ Cardinality(Above(R, r)) \in Nat
    <3> SUFFICES ASSUME NEW r \in R PROVE IsFiniteSet(Above(R, r)) /\ Cardinality(Above(R, r)) \in Nat
      OBVIOUS
    <3>1. Above(R, r) \in SUBSET R
      BY DEF Above
    <3>2. IsFiniteSet(Above(R, r))
      BY <3>1, FS_Subset
    <3> QED BY <3>2, FS_CardinalityType
  <2>5. PICK x \in R \ U : \A r \in R \ U : Cardinality(Above(R, x)) <= Cardinality(Above(R, r))
    <3>1. ranks \in SUBSET Nat /\ ranks # {}
      BY <2>3, <2>4
    <3>2. PICK n \in ranks : \A o \in ranks : n <= o
      <4> HIDE DEF ranks
      <4> QED BY <3>1, Smallest
    <3> QED BY <3>2
  <2>6. \A r \in R \ U : r # x => T!Later(x, r)
    <3> SUFFICES ASSUME NEW r \in R \ U, r # x, ~T!Later(x, r) PROVE FALSE
      OBVIOUS
    <3>1. T!Later(r, x)
      BY LaterIsTotal
    <3>2. Above(R, r) \in SUBSET Above(R, x) /\ r \in Above(R, x) /\ r \notin Above(R, r)
      BY <3>1, LaterIsTotal DEF Above
    <3>3. Cardinality(Above(R, r)) <= Cardinality(Above(R, x)) /\ Cardinality(Above(R, r)) # Cardinality(Above(R, x))
      BY <2>4, <3>2, FS_Subset
    <3>4. Cardinality(Above(R, x)) <= Cardinality(Above(R, r))
      BY <2>5
    <3> QED BY <2>4, <3>3, <3>4
  <2>7. Cardinality(U \cup {x}) = m /\ U \cup {x} \in SUBSET R
    <3>1. x \notin U /\ x \in R /\ m \in Nat
      BY <2>0, <2>5
    <3>2. Cardinality(U \cup {x}) = Cardinality(U) + 1
      BY <2>2, <3>1, FS_AddElement
    <3> QED BY <2>1, <3>1, <3>2
  <2>8. \A u \in U \cup {x}, r \in R \ (U \cup {x}) : T!Later(u, r)
    BY <2>1, <2>6
  <2>9. Upper(m)
    BY <2>7, <2>8
  <2> QED BY <1>2, <2>9
<1> QED BY <1>3, <1>4

(* What is older than the latest MaxItems is older than all of them, and   *)
(* there are MaxItems of them.                                             *)
LEMMA LatestAre ==
    ASSUME T!LedgerAssumption, NEW R \in SUBSET LedgerRows, SameNumber(R), IsFiniteSet(R),
           NEW row \in R \ T!LatestOf(R)
    PROVE  /\ Cardinality(T!LatestOf(R)) = MaxItems
           /\ \A held \in T!LatestOf(R) : T!Later(held, row)
<1>0. /\ MaxItems \in Nat \ {0} /\ \A X : T!Cardinality(X) = Cardinality(X)
  BY DEF T!LedgerAssumption, T!Cardinality, Cardinality
<1>1. T!LatestOf(R) = {r \in R : Cardinality(Above(R, r)) < MaxItems}
  BY <1>0 DEF T!LatestOf, Above
<1>2. \A r \in R : Above(R, r) \in SUBSET R /\ IsFiniteSet(Above(R, r)) /\ Cardinality(Above(R, r)) \in Nat
  <2> SUFFICES ASSUME NEW r \in R
               PROVE  Above(R, r) \in SUBSET R /\ IsFiniteSet(Above(R, r)) /\ Cardinality(Above(R, r)) \in Nat
    OBVIOUS
  <2>1. Above(R, r) \in SUBSET R
    BY DEF Above
  <2>2. IsFiniteSet(Above(R, r))
    BY <2>1, FS_Subset
  <2> QED BY <2>1, <2>2, FS_CardinalityType
<1>3. MaxItems <= Cardinality(R)
  <2>1. Cardinality(Above(R, row)) >= MaxItems
    BY <1>0, <1>1, <1>2
  <2>2. Cardinality(Above(R, row)) <= Cardinality(R) /\ Cardinality(R) \in Nat
    BY <1>2, FS_Subset, FS_CardinalityType
  <2> QED BY <1>0, <1>2, <2>1, <2>2
<1>4. PICK U \in SUBSET R : Cardinality(U) = MaxItems /\ \A u \in U, r \in R \ U : T!Later(u, r)
  BY <1>0, <1>3, TopOf
<1>5. IsFiniteSet(U)
  BY FS_Subset
<1>6. ASSUME NEW r \in U PROVE Cardinality(Above(R, r)) < MaxItems
  <2>1. Above(R, r) \in SUBSET (U \ {r})
    <3> SUFFICES ASSUME NEW s \in R, T!Later(s, r) PROVE s \in U /\ s # r
      BY DEF Above
    <3>1. s # r
      BY LaterIsTotal
    <3>2. CASE s \notin U
      <4>1. T!Later(r, s)
        BY <1>4, <1>6, <3>2
      <4>2. T!Later(r, r)
        BY <4>1, <1>6, LaterIsTotal
      <4> QED BY <4>2, <1>6, LaterIsTotal
    <3> QED BY <3>1, <3>2
  <2>2. IsFiniteSet(U \ {r}) /\ Cardinality(U \ {r}) = MaxItems - 1
    BY <1>4, <1>5, <1>6, FS_RemoveElement
  <2>3. Cardinality(Above(R, r)) <= MaxItems - 1
    BY <2>1, <2>2, FS_Subset
  <2> QED BY <1>0, <1>2, <1>6, <2>3
<1>7. ASSUME NEW r \in R \ U PROVE ~(Cardinality(Above(R, r)) < MaxItems)
  <2>1. U \in SUBSET Above(R, r)
    BY <1>4, <1>7 DEF Above
  <2>2. Cardinality(U) <= Cardinality(Above(R, r))
    BY <1>2, <1>7, <2>1, FS_Subset
  <2> QED BY <1>0, <1>2, <1>4, <1>7, <2>2
<1>8. T!LatestOf(R) = U
  BY <1>1, <1>6, <1>7
<1> QED BY <1>4, <1>8

LEMMA SnapshotKeepsLedger ==
    ASSUME T!LedgerAssumption, LedgerInv, T!AppendSnapshot PROVE LedgerInv'
<1>1. PICK asOf \in 0 .. clock :
         snapshots' = Append(snapshots, [asOf |-> asOf, items |-> T!LatestOf(T!RowsUpTo(asOf))])
  BY DEF T!AppendSnapshot
<1>2. UNCHANGED <<lines, open, revision, clock, appended, reported, glued, tears>>
  BY DEF T!AppendSnapshot
<1>3. PICK R : R = T!RowsUpTo(asOf)
  OBVIOUS
<1>4. PICK top : top = T!LatestOf(R)
  OBVIOUS
<1>5. /\ lines \in Seq(LedgerRows \cup {T!Junk}) /\ IsFile(lines, appended) /\ clock \in Nat
      /\ snapshots \in Seq([asOf : Nat, items : SUBSET LedgerRows])
  BY DEF LedgerInv, IsFile
<1>6. /\ R \in SUBSET LedgerRows /\ IsFiniteSet(R) /\ SameNumber(R)
      /\ \A r \in R : r.at <= asOf /\ \E n \in DOMAIN lines : lines[n] = r
      /\ \A r \in LedgerRows : (\E n \in DOMAIN lines : lines[n] = r) /\ r.at <= asOf => r \in R
  <2>1. \A n \in DOMAIN lines : lines[n] \in LedgerRows \cup {T!Junk}
    BY <1>5, Members
  <2>2. R = {l \in {lines[n] : n \in DOMAIN lines} : l # T!Junk /\ l.at <= asOf}
    BY <1>3 DEF T!RowsUpTo, T!ToSet
  <2>3. R \in SUBSET LedgerRows
    BY <2>1, <2>2
  <2>4. IsFiniteSet({lines[n] : n \in DOMAIN lines})
    <3>1. DOMAIN lines = 1 .. Len(lines) /\ Len(lines) \in Nat
      BY <1>5
    <3>2. IsFiniteSet(DOMAIN lines)
      BY <3>1, FS_Interval
    <3>3. lines \in [DOMAIN lines -> {lines[n] : n \in DOMAIN lines}]
      BY <1>5
    <3>4. lines \in Surjection(DOMAIN lines, {lines[n] : n \in DOMAIN lines})
      BY <3>3 DEF Surjection
    <3> QED BY <3>2, <3>4, FS_Surjection
  <2>5. R \in SUBSET {lines[n] : n \in DOMAIN lines}
    BY <2>2
  <2>6. IsFiniteSet(R)
    BY <2>4, <2>5, FS_Subset
  <2>7. SameNumber(R)
    BY <1>5, <2>2 DEF SameNumber, IsFile
  <2>8. \A r \in LedgerRows : (\E n \in DOMAIN lines : lines[n] = r) /\ r.at <= asOf => r \in R
    BY <2>2, RowsAreNotJunk
  <2> QED BY <2>2, <2>3, <2>6, <2>7, <2>8
<1>7. top \in SUBSET R
  BY <1>4 DEF T!LatestOf
<1>8. PICK k \in Nat : k = Len(snapshots)
  BY <1>5
<1>9. PICK new \in [asOf : Nat, items : SUBSET LedgerRows] : new = [asOf |-> asOf, items |-> top]
  <2>1. [asOf |-> asOf, items |-> top] \in [asOf : Nat, items : SUBSET LedgerRows]
    BY <1>1, <1>5, <1>6, <1>7
  <2> QED BY <2>1
<1>10. new.asOf = asOf /\ new.items = top
  BY <1>9
<1>11. /\ snapshots' \in Seq([asOf : Nat, items : SUBSET LedgerRows])
       /\ DOMAIN snapshots = 1 .. k /\ DOMAIN snapshots' = 1 .. k + 1 /\ snapshots'[k + 1] = new
       /\ \A j \in 1 .. k : snapshots'[j] = snapshots[j]
  BY <1>1, <1>3, <1>4, <1>5, <1>8, <1>9
<1>12. \A j \in DOMAIN snapshots : snapshots[j] \in [asOf : Nat, items : SUBSET LedgerRows]
  BY <1>5, Members
<1>13. \A j \in DOMAIN snapshots : snapshots[j].items \subseteq LedgerRows
  BY <1>12
<1>14. \A j \in DOMAIN snapshots : \A r \in snapshots[j].items :
          r.at <= snapshots[j].asOf /\ Stands(lines, r, glued)
  BY DEF LedgerInv
<1>15. \A j \in 1 .. k + 1 : j = k + 1 \/ j \in 1 .. k
  BY <1>8
<1>16. \A j \in DOMAIN snapshots' : \A r \in snapshots'[j].items :
          r.at <= snapshots'[j].asOf /\ Stands(lines, r, glued)
  <2>1. \A r \in top : r.at <= new.asOf /\ Stands(lines, r, glued)
    BY <1>6, <1>7, <1>10 DEF Stands
  <2> QED BY <1>10, <1>11, <1>14, <1>15, <2>1
<1>17. ASSUME NEW i \in 1 .. k, snapshots[i].asOf = asOf, NEW row \in snapshots[i].items \ top
       PROVE  \/ row.id \in glued
              \/ Cardinality(top) = MaxItems /\ \A held \in top : T!Later(held, row)
  <2>1. row \in LedgerRows /\ row.at <= asOf /\ Stands(lines, row, glued)
    BY <1>11, <1>13, <1>14, <1>17
  <2>2. CASE row.id \notin glued
    <3>1. row \in R \ T!LatestOf(R)
      BY <1>4, <1>6, <2>1, <2>2 DEF Stands
    <3> QED BY <1>4, <1>6, <3>1, LatestAre
  <2> QED BY <2>2
<1>18. T!SnapshotsGrow'
  <2>1. \A X : T!Cardinality(X) = Cardinality(X)
    BY DEF T!Cardinality, Cardinality
  <2>2. SUFFICES ASSUME NEW i \in 1 .. k + 1, NEW j \in 1 .. k + 1, i < j,
                        snapshots'[i].asOf = snapshots'[j].asOf,
                        NEW row \in snapshots'[i].items \ snapshots'[j].items
                 PROVE  \/ row.id \in glued
                        \/ /\ Cardinality(snapshots'[j].items) = MaxItems
                           /\ \A held \in snapshots'[j].items : T!Later(held, row)
    BY <1>2, <1>11, <2>1 DEF T!SnapshotsGrow
  <2>3. i \in 1 .. k
    BY <1>8, <2>2
  <2>4. CASE j = k + 1
    BY <1>10, <1>11, <1>17, <2>2, <2>3, <2>4
  <2>5. CASE j \in 1 .. k
    <3>1. T!SnapshotsGrow
      BY DEF LedgerInv
    <3> QED BY <1>11, <2>1, <2>2, <2>3, <2>5, <3>1 DEF T!SnapshotsGrow
  <2> QED BY <1>15, <2>4, <2>5
<1> QED BY <1>2, <1>11, <1>16, <1>18 DEF LedgerInv

LEMMA LedgerStep ==
    ASSUME T!LedgerAssumption, LedgerInv, [T!Next]_(T!ledgered) PROVE LedgerInv'
<1> QED BY AppendKeepsLedger, TearKeepsLedger, SnapshotKeepsLedger, RestKeepsLedger DEF T!Next

LEMMA LedgerMeans ==
    ASSUME T!LedgerAssumption, LedgerInv PROVE T!SavedIsRead /\ T!ReadIsAdmitted
<1>1. /\ lines \in Seq(LedgerRows \cup {T!Junk}) /\ revision \in Nat
      /\ \A n \in DOMAIN lines : IsLine(lines[n], appended)
      /\ \A m, n \in DOMAIN lines : m # n => lines[m] = T!Junk \/ lines[n] = T!Junk \/ lines[m].id # lines[n].id
      /\ \A id \in reported : HasRow(lines, id, glued)
  BY DEF LedgerInv, IsFile
<1>2. PICK k \in Nat : k = Len(lines) /\ DOMAIN lines = 1 .. k
  BY <1>1
<1>3. MaxRows \in Nat \ {0}
  BY DEF T!LedgerAssumption
<1>4. PICK first \in 1 .. k + 1 :
         /\ T!Window = SubSeq(lines, first, k)
         /\ \A n \in 1 .. k : n >= first \/ n <= k - MaxRows
  <2>1. PICK f \in Int : f = k - MaxRows + 1
    BY <1>3
  <2>2. T!Max({1, f}) = IF f > 1 THEN f ELSE 1
    <3>1. PICK v \in {1, f} : v = IF f > 1 THEN f ELSE 1
      OBVIOUS
    <3>2. \A y \in {1, f} : v >= y
      BY <2>1, <3>1
    <3>3. \A w \in {1, f} : (\A y \in {1, f} : w >= y) => w = v
      BY <2>1, <3>1, <3>2
    <3> QED BY <3>1, <3>2, <3>3 DEF T!Max
  <2>3. (IF f > 1 THEN f ELSE 1) \in 1 .. k + 1
    BY <1>3, <2>1
  <2>4. T!Window = SubSeq(lines, IF f > 1 THEN f ELSE 1, k)
    BY <1>2, <2>1, <2>2 DEF T!Window
  <2>5. \A n \in 1 .. k : n >= (IF f > 1 THEN f ELSE 1) \/ n <= k - MaxRows
    BY <1>3, <2>1
  <2> QED BY <2>3, <2>4, <2>5
<1>5. T!ToSet(T!Window) = {lines[n] : n \in first .. k}
  <2>1. PICK w : w = T!Window
    OBVIOUS
  <2>2. DOMAIN w = 1 .. (k - first + 1) /\ \A j \in 1 .. (k - first + 1) : w[j] = lines[first + j - 1]
    BY <1>1, <1>2, <1>4, <2>1
  <2>3. \A n \in first .. k : n - first + 1 \in DOMAIN w /\ w[n - first + 1] = lines[n]
    <3> SUFFICES ASSUME NEW n \in first .. k PROVE n - first + 1 \in DOMAIN w /\ w[n - first + 1] = lines[n]
      OBVIOUS
    <3>1. n - first + 1 \in 1 .. (k - first + 1) /\ first + (n - first + 1) - 1 = n
      BY <1>2, <1>4
    <3> QED BY <2>2, <3>1
  <2>4. \A j \in DOMAIN w : first + j - 1 \in first .. k /\ w[j] = lines[first + j - 1]
    <3> SUFFICES ASSUME NEW j \in 1 .. (k - first + 1)
                 PROVE  first + j - 1 \in first .. k /\ w[j] = lines[first + j - 1]
      BY <2>2
    <3>1. first + j - 1 \in first .. k
      BY <1>2, <1>4
    <3> QED BY <2>2, <3>1
  <2> QED BY <2>1, <2>2, <2>3, <2>4 DEF T!ToSet
<1>6. T!ReadTrajectories = {l.id : l \in {r \in {lines[n] : n \in first .. k} : T!VouchedFor(r)}}
  BY <1>5 DEF T!ReadTrajectories
<1>7. T!Rows = {lines[n] : n \in 1 .. k} \ {T!Junk}
  BY <1>2 DEF T!Rows, T!ToSet
<1>8. T!SavedIsRead
  <2> SUFFICES ASSUME NEW id \in reported, id \notin glued
               PROVE  \/ id \in T!ReadTrajectories
                      \/ \E n \in 1 .. (Len(lines) - MaxRows) : lines[n] # T!Junk /\ lines[n].id = id
                      \/ \E row \in T!Rows : row.id = id /\ (row.revision # revision \/ row.text \in {"blank", "uncut"})
    BY DEF T!SavedIsRead
  <2>1. PICK n \in 1 .. k : lines[n] # T!Junk /\ lines[n].id = id
    BY <1>1, <1>2 DEF HasRow
  <2>2. PICK row \in LedgerRows : /\ row = lines[n] /\ row # T!Junk /\ row.id = id /\ row \in T!Rows
                                  /\ row.digest = row.text /\ T!Passes(row.evidence)
    BY <1>1, <1>2, <1>7, <2>1 DEF IsLine
  <2>3. CASE row.revision # revision \/ row.text \in {"blank", "uncut"}
    BY <2>2, <2>3
  <2>4. CASE n <= k - MaxRows
    <3>1. n \in 1 .. Len(lines) - MaxRows
      BY <1>2, <1>3, <2>4
    <3> QED BY <2>1, <3>1
  <2>5. CASE row.revision = revision /\ row.text \notin {"blank", "uncut"} /\ n >= first
    <3>1. row.text \in {"short", "cut"}
      BY <2>5 DEF LedgerRows, TextsOfRows
    <3>2. T!Normal(row.text) = row.text
      <4>1. T!Normal("short") = "short" /\ T!Normal("cut") = "cut"
        BY DEF T!Normal
      <4> QED BY <3>1, <4>1
    <3>3. T!VouchedFor(row)
      BY <2>2, <2>5, <3>2 DEF T!VouchedFor
    <3>4. n \in first .. k
      BY <1>4, <2>5
    <3> QED BY <1>6, <2>2, <3>3, <3>4
  <2> QED BY <1>4, <2>3, <2>4, <2>5
<1>9. T!ReadIsAdmitted
  <2> SUFFICES ASSUME NEW row \in T!Rows, row.id \in T!ReadTrajectories
               PROVE  /\ row.revision = revision
                      /\ T!Contains(row.evidence.steps, "ok")
                      /\ \A i, j \in DOMAIN row.evidence.steps : ~T!ErrorsFollow(row.evidence.steps, i, j)
    BY DEF T!ReadIsAdmitted
  <2>1. PICK l \in {lines[n] : n \in first .. k} : T!VouchedFor(l) /\ row.id = l.id
    BY <1>6
  <2>2. l # T!Junk /\ l.revision = revision /\ T!Passes(l.evidence)
    BY <2>1 DEF T!VouchedFor
  <2>3. PICK m \in 1 .. k, n \in 1 .. k : lines[m] = row /\ lines[n] = l
    BY <1>4, <1>7, <2>1
  <2>4. row = l
    BY <1>1, <1>2, <1>7, <2>1, <2>2, <2>3
  <2>5. row \in LedgerRows
    BY <1>1, <1>2, <2>2, <2>3, <2>4 DEF IsLine
  <2>6. PICK t \in Trajectories : t = row.evidence
    BY <2>5 DEF LedgerRows
  <2>7. t.steps \in Seq(Marks) /\ T!Passes(t)
    BY <2>2, <2>4, <2>6 DEF T!LedgerAssumption, Marks
  <2>8. /\ \E i \in 1 .. Len(t.steps) : t.steps[i] = "ok"
        /\ \A i, j \in 1 .. Len(t.steps) :
              NoOk(t.steps, i, j) => Cardinality(Errors(t.steps, i, j)) <= MaxErrors
    BY <2>7, PassedWalk
  <2>9. T!Contains(t.steps, "ok")
    BY <2>8 DEF T!Contains
  <2>10. ASSUME NEW i \in DOMAIN t.steps, NEW j \in DOMAIN t.steps PROVE ~T!ErrorsFollow(t.steps, i, j)
    <3>0. i \in 1 .. Len(t.steps) /\ j \in 1 .. Len(t.steps) /\ i \in Int /\ j \in Int
      BY <2>7, <2>10
    <3>1. i \in 1 .. Len(t.steps) /\ j \in 1 .. Len(t.steps) /\ IsFiniteSet(i .. j)
      BY <3>0, FS_Interval
    <3>2. Errors(t.steps, i, j) \in SUBSET (i .. j)
      BY DEF Errors
    <3>3. IsFiniteSet(Errors(t.steps, i, j))
      BY <3>1, <3>2, FS_Subset
    <3>4. Cardinality(Errors(t.steps, i, j)) \in Nat
      BY <3>3, FS_CardinalityType
    <3>5. T!Cardinality(Errors(t.steps, i, j)) = Cardinality(Errors(t.steps, i, j))
      BY DEF T!Cardinality, Cardinality
    <3>6. MaxErrors \in Nat
      BY DEF T!LedgerAssumption
    <3>7. CASE NoOk(t.steps, i, j)
      <4>1. ~(Cardinality(Errors(t.steps, i, j)) > MaxErrors)
        BY <2>8, <3>1, <3>4, <3>6, <3>7
      <4> QED BY <3>5, <4>1 DEF T!ErrorsFollow, Errors
    <3>8. CASE ~NoOk(t.steps, i, j)
      BY <3>8 DEF T!ErrorsFollow, NoOk
    <3> QED BY <3>7, <3>8
  <2> QED BY <2>2, <2>4, <2>6, <2>9, <2>10
<1> QED BY <1>8, <1>9

(* Whatever the length of the window, the thresholds and the texts: a row  *)
(* that appendTrajectory reported as saved is read back, but for the rows  *)
(* behind the window, those on a torn line, those of another revision and  *)
(* those whose text was cut at a blank or derived too long; what is read   *)
(* passed the thresholds under the revision of today; and a later snapshot *)
(* of a moment lacks only rows on torn lines and rows older than all it    *)
(* holds.                                                                  *)
THEOREM TrajectoriesAreKept ==
    ASSUME T!LedgerAssumption PROVE T!Spec => [](T!SavedIsRead /\ T!ReadIsAdmitted /\ T!SnapshotsGrow)
<1>1. T!Init => LedgerInv
  BY LedgerStart
<1>2. LedgerInv /\ [T!Next]_(T!ledgered) => LedgerInv'
  BY LedgerStep
<1>3. LedgerInv => T!SavedIsRead /\ T!ReadIsAdmitted /\ T!SnapshotsGrow
  BY LedgerMeans DEF LedgerInv
<1> QED BY <1>1, <1>2, <1>3, PTL DEF T!Spec

-----------------------------------------------------------------------------
(* TrajectoryReplay: the calls of a run, and what it costs                 *)

(* Going through a list, a step at a time: there is such a walk, and it    *)
(* stays where the steps do.                                               *)
IsWalk(f, S, e, G, l, k) ==
    f \in [0 .. k -> S] /\ f[0] = e /\ \A n \in 1 .. k : f[n] = G[f[n - 1]][l[n]]

Goes(g, S, G, l) == g[0] \in S /\ \A n \in 1 .. Len(l) : g[n - 1] \in S => g[n] = G[g[n - 1]][l[n]]

LEMMA WalkExists ==
    ASSUME NEW S, NEW U, NEW e \in S, NEW G \in [S -> [U -> S]], NEW l \in Seq(U)
    PROVE  \E f : IsWalk(f, S, e, G, l, Len(l))
<1> DEFINE bad == {k \in 0 .. Len(l) : ~\E f : IsWalk(f, S, e, G, l, k)}
<1>1. SUFFICES ASSUME bad # {} PROVE FALSE
  <2>1. Len(l) \in 0 .. Len(l)
    OBVIOUS
  <2> QED BY <2>1
<1>2. PICK m \in bad : \A k \in bad : m <= k
  <2>1. bad \subseteq Nat
    OBVIOUS
  <2> HIDE DEF bad
  <2> QED BY <1>1, <2>1, Smallest
<1>3. CASE m = 0
  <2>1. IsWalk([n \in 0 .. 0 |-> e], S, e, G, l, 0)
    BY DEF IsWalk
  <2> QED BY <1>3, <2>1
<1>4. CASE m # 0
  <2>1. m - 1 \in 0 .. Len(l) /\ m - 1 \notin bad
    <3>1. m \in 1 .. Len(l)
      BY <1>2, <1>4
    <3>2. m - 1 \in 0 .. Len(l) /\ ~(m <= m - 1)
      BY <3>1
    <3> HIDE DEF bad
    <3> QED BY <1>2, <3>2
  <2>2. PICK f : IsWalk(f, S, e, G, l, m - 1)
    BY <2>1
  <2>3. l[m] \in U /\ f[m - 1] \in S
    BY <1>4, <2>2 DEF IsWalk
  <2>4. PICK c \in S : c = G[f[m - 1]][l[m]]
    BY <2>3
  <2> DEFINE g == [n \in 0 .. m |-> IF n = m THEN c ELSE f[n]]
  <2>5. /\ g \in [0 .. m -> S] /\ g[0] = e
        /\ \A n \in 1 .. m - 1 : g[n] = f[n] /\ g[n - 1] = f[n - 1]
        /\ g[m] = c /\ g[m - 1] = f[m - 1]
    <3>1. /\ m \in Nat /\ m # 0 /\ m - 1 \in 0 .. m - 1 /\ 0 \in 0 .. m - 1
          /\ \A n \in 0 .. m : n # m => n \in 0 .. m - 1
          /\ \A n \in 1 .. m - 1 : n \in 0 .. m /\ n - 1 \in 0 .. m /\ n # m /\ n - 1 # m
      BY <1>2, <1>4
    <3>2. f \in [0 .. m - 1 -> S] /\ f[0] = e
      BY <2>2 DEF IsWalk
    <3>3. \A n \in 0 .. m : g[n] = IF n = m THEN c ELSE f[n]
      OBVIOUS
    <3>4. \A n \in 0 .. m : g[n] \in S
      BY <3>1, <3>2, <3>3
    <3>5. DOMAIN g = 0 .. m /\ g = [n \in 0 .. m |-> g[n]]
      OBVIOUS
    <3> HIDE DEF g
    <3>6. 0 \in 0 .. m /\ m \in 0 .. m /\ m - 1 \in 0 .. m /\ m - 1 # m
      BY <3>1
    <3> QED BY <3>1, <3>2, <3>3, <3>4, <3>5, <3>6
  <2> HIDE DEF g
  <2>6. ASSUME NEW n \in 1 .. m PROVE g[n] = G[g[n - 1]][l[n]]
    <3>1. CASE n = m
      BY <2>4, <2>5, <3>1
    <3>2. CASE n # m
      <4>1. n \in 1 .. m - 1
        BY <3>2
      <4>2. f[n] = G[f[n - 1]][l[n]]
        BY <2>2, <4>1 DEF IsWalk
      <4> QED BY <2>5, <4>1, <4>2
    <3> QED BY <3>1, <3>2
  <2>7. IsWalk(g, S, e, G, l, m)
    BY <2>5, <2>6 DEF IsWalk
  <2> QED BY <2>7
<1> QED BY <1>3, <1>4

LEMMA WalkStays ==
    ASSUME NEW S, NEW U, NEW G \in [S -> [U -> S]], NEW l \in Seq(U), NEW g, Goes(g, S, G, l)
    PROVE  g[Len(l)] \in S
<1> DEFINE bad == {k \in 0 .. Len(l) : g[k] \notin S}
<1>1. SUFFICES ASSUME bad # {} PROVE FALSE
  OBVIOUS
<1>2. PICK m \in bad : \A k \in bad : m <= k
  <2>1. bad \subseteq Nat
    OBVIOUS
  <2> HIDE DEF bad
  <2> QED BY <1>1, <2>1, Smallest
<1>3. m \in 1 .. Len(l) /\ g[m - 1] \in S /\ l[m] \in U
  BY <1>2 DEF Goes
<1>4. g[m] = G[g[m - 1]][l[m]]
  BY <1>3 DEF Goes
<1> QED BY <1>2, <1>3, <1>4

LEMMA HopFields ==
    ASSUME P!ReplayAssumption, NEW hop \in Hops
    PROVE  hop \in [call : {hop.call}, output : {hop.output}, cost : Nat]
BY DEF P!ReplayAssumption

LEMMA ToolsAreHops ==
    ASSUME NEW hops \in Seq(Hops)
    PROVE  P!Tools(hops) \in Seq(Hops)
<1>1. PICK S : S = Seq(Hops)
  OBVIOUS
<1>2. \A calls \in S, hop \in Hops : P!WithCall(calls, hop) \in S
  BY <1>1 DEF P!WithCall
<1>3. <<>> \in S
  BY <1>1
<1>4. PICK G \in [S -> [Hops -> S]] : \A calls \in S, hop \in Hops : G[calls][hop] = P!WithCall(calls, hop)
  <2> DEFINE H == [calls \in S |-> [hop \in Hops |-> P!WithCall(calls, hop)]]
  <2>1. H \in [S -> [Hops -> S]]
    BY <1>2
  <2>2. \A calls \in S, hop \in Hops : H[calls][hop] = P!WithCall(calls, hop)
    OBVIOUS
  <2> QED BY <2>1, <2>2
<1>5. PICK f : IsWalk(f, S, <<>>, G, hops, Len(hops))
  BY <1>3, <1>4, WalkExists
<1>6. f = [n \in 0 .. Len(hops) |-> IF n = 0 THEN <<>> ELSE P!WithCall(f[n - 1], hops[n])]
  <2>1. /\ f \in [0 .. Len(hops) -> S] /\ f[0] = <<>>
        /\ \A n \in 1 .. Len(hops) : f[n] = G[f[n - 1]][hops[n]]
    BY <1>5 DEF IsWalk
  <2>2. \A n \in 1 .. Len(hops) : n - 1 \in 0 .. Len(hops) /\ hops[n] \in Hops
    OBVIOUS
  <2>3. \A n \in 1 .. Len(hops) : f[n] = P!WithCall(f[n - 1], hops[n])
    BY <1>4, <2>1, <2>2
  <2> QED BY <2>1, <2>3
<1>7. PICK g : g = P!Calls(hops)
  OBVIOUS
<1>8. g = [n \in 0 .. Len(hops) |-> IF n = 0 THEN <<>> ELSE P!WithCall(g[n - 1], hops[n])]
  <2>1. P!Calls(hops) = CHOOSE h : h = [n \in 0 .. Len(hops) |-> IF n = 0 THEN <<>>
                                                              ELSE P!WithCall(h[n - 1], hops[n])]
    BY DEF P!Calls
  <2> QED BY <1>6, <1>7, <2>1
<1>9. g[0] = <<>> /\ \A n \in 1 .. Len(hops) : g[n] = P!WithCall(g[n - 1], hops[n])
  BY <1>8
<1>10. Goes(g, S, G, hops)
  BY <1>3, <1>4, <1>9 DEF Goes
<1>11. g[Len(hops)] \in S
  BY <1>4, <1>10, WalkStays
<1> QED BY <1>1, <1>7, <1>11 DEF P!Tools

LEMMA CostIsANumber ==
    ASSUME P!ReplayAssumption, NEW hops \in Seq(Hops)
    PROVE  P!Cost(hops) \in Nat
<1>1. \A sum \in Nat, hop \in Hops : P!Charged(sum, hop) \in Nat
  BY HopFields DEF P!Charged
<1>2. PICK G \in [Nat -> [Hops -> Nat]] : \A sum \in Nat, hop \in Hops : G[sum][hop] = P!Charged(sum, hop)
  <2> DEFINE H == [sum \in Nat |-> [hop \in Hops |-> P!Charged(sum, hop)]]
  <2>1. H \in [Nat -> [Hops -> Nat]]
    BY <1>1
  <2>2. \A sum \in Nat, hop \in Hops : H[sum][hop] = P!Charged(sum, hop)
    OBVIOUS
  <2> QED BY <2>1, <2>2
<1>3. PICK f : IsWalk(f, Nat, 0, G, hops, Len(hops))
  BY <1>2, WalkExists
<1>4. f = [n \in 0 .. Len(hops) |-> IF n = 0 THEN 0 ELSE P!Charged(f[n - 1], hops[n])]
  <2>1. /\ f \in [0 .. Len(hops) -> Nat] /\ f[0] = 0
        /\ \A n \in 1 .. Len(hops) : f[n] = G[f[n - 1]][hops[n]]
    BY <1>3 DEF IsWalk
  <2>2. \A n \in 1 .. Len(hops) : n - 1 \in 0 .. Len(hops) /\ hops[n] \in Hops
    OBVIOUS
  <2>3. \A n \in 1 .. Len(hops) : f[n] = P!Charged(f[n - 1], hops[n])
    BY <1>2, <2>1, <2>2
  <2> QED BY <2>1, <2>3
<1>5. PICK g : g = P!Costs(hops)
  OBVIOUS
<1>6. g = [n \in 0 .. Len(hops) |-> IF n = 0 THEN 0 ELSE P!Charged(g[n - 1], hops[n])]
  <2>1. P!Costs(hops) = CHOOSE h : h = [n \in 0 .. Len(hops) |-> IF n = 0 THEN 0
                                                              ELSE P!Charged(h[n - 1], hops[n])]
    BY DEF P!Costs
  <2> QED BY <1>4, <1>5, <2>1
<1>7. g[0] = 0 /\ \A n \in 1 .. Len(hops) : g[n] = P!Charged(g[n - 1], hops[n])
  <2>1. \A n \in 0 .. Len(hops) : g[n] = IF n = 0 THEN 0 ELSE P!Charged(g[n - 1], hops[n])
    BY <1>6, Zenon
  <2>2. 0 \in 0 .. Len(hops) /\ \A n \in 1 .. Len(hops) : n \in 0 .. Len(hops) /\ n # 0
    OBVIOUS
  <2> QED BY <2>1, <2>2
<1>8. Goes(g, Nat, G, hops)
  <2>1. \A n \in 1 .. Len(hops) : hops[n] \in Hops
    OBVIOUS
  <2> QED BY <1>2, <1>7, <2>1 DEF Goes
<1>9. g[Len(hops)] \in Nat
  BY <1>2, <1>8, WalkStays
<1> QED BY <1>5, <1>9 DEF P!Cost

-----------------------------------------------------------------------------
(* TrajectoryReplay: the comparison of two runs                            *)

(* What a run that is like another as far as n has that the other has not. *)
LEMMA SameRun ==
    ASSUME P!ReplayAssumption, NEW hops \in Seq(Hops)
    PROVE  P!Compare(hops, hops) = {}
<1>1. P!Cost(hops) \in Nat
  BY CostIsANumber
<1>2. P!InCost(hops, hops) = {}
  BY <1>1 DEF P!InCost
<1>3. P!InLength(hops, hops) = {}
  BY DEF P!InLength
<1>4. \A i : P!InStep(hops, hops, i) = {}
  BY DEF P!InStep
<1> QED BY <1>2, <1>3, <1>4, Zenon DEF P!Compare

Faults(hops, other) == P!Bugs(P!Compare(hops, other), "ORCHESTRATION_BUG")

LEMMA ShorterIs ==
    ASSUME NEW hops \in Seq(Hops), NEW other \in Seq(Hops)
    PROVE  /\ P!Shorter(hops, other) \in Nat
           /\ P!Shorter(hops, other) <= Len(hops) /\ P!Shorter(hops, other) <= Len(other)
           /\ P!Shorter(hops, other) \in {Len(hops), Len(other)}
BY DEF P!Shorter

(* Where a divergence is found, whatever its class but the cost.           *)
LEMMA FoundThere ==
    ASSUME NEW hops \in Seq(Hops), NEW other \in Seq(Hops), NEW d \in P!Compare(hops, other),
           d.class # "LATENCY_COST_REGRESSION"
    PROVE  \/ \E i \in 1 .. P!Shorter(hops, other) :
                  /\ d.at = i - 1
                  /\ \/ d.class = "ORCHESTRATION_BUG" /\ hops[i].call # other[i].call
                     \/ d.class = "MODEL_QUALITY_BUG" /\ hops[i].output # other[i].output
           \/ d.at = P!Shorter(hops, other) /\ d.class = "ORCHESTRATION_BUG" /\ Len(hops) # Len(other)
<1>1. CASE d \in P!InCost(hops, other)
  BY <1>1 DEF P!InCost
<1>2. CASE d \in P!InLength(hops, other)
  BY <1>2 DEF P!InLength
<1>3. CASE \E i \in 1 .. P!Shorter(hops, other) : d \in P!InStep(hops, other, i)
  <2>1. PICK i \in 1 .. P!Shorter(hops, other) : d \in P!InStep(hops, other, i)
    BY <1>3
  <2>2. /\ d.at = i - 1
        /\ \/ d.class = "ORCHESTRATION_BUG" /\ hops[i].call # other[i].call
           \/ d.class = "MODEL_QUALITY_BUG" /\ hops[i].output # other[i].output
    BY <2>1 DEF P!InStep
  <2> QED BY <2>2
<1>4. PICK k : k = P!Shorter(hops, other)
  OBVIOUS
<1>5. \/ d \in P!InCost(hops, other) \/ d \in P!InLength(hops, other)
      \/ \E i \in 1 .. P!Shorter(hops, other) : d \in P!InStep(hops, other, i)
  <2>1. d \in (UNION {P!InStep(hops, other, i) : i \in 1 .. k}) \cup P!InLength(hops, other) \cup P!InCost(hops, other)
    BY <1>4 DEF P!Compare
  <2>2. d \in UNION {P!InStep(hops, other, i) : i \in 1 .. k} => \E i \in 1 .. k : d \in P!InStep(hops, other, i)
    OBVIOUS
  <2>3. \/ d \in UNION {P!InStep(hops, other, i) : i \in 1 .. k}
        \/ d \in P!InLength(hops, other) \/ d \in P!InCost(hops, other)
    BY <2>1, Zenon
  <2> QED BY <1>4, <2>2, <2>3, Zenon
<1> QED BY <1>1, <1>2, <1>3, <1>5, Zenon

(* The wrong calls of a run, and its wrong length.                         *)
LEMMA FaultsAre ==
    ASSUME NEW hops \in Seq(Hops), NEW other \in Seq(Hops), NEW x
    PROVE  x \in Faults(hops, other) <=>
              \/ \E i \in 1 .. P!Shorter(hops, other) : x = i - 1 /\ hops[i].call # other[i].call
              \/ x = P!Shorter(hops, other) /\ Len(hops) # Len(other)
<1>1. ASSUME x \in Faults(hops, other)
      PROVE  \/ \E i \in 1 .. P!Shorter(hops, other) : x = i - 1 /\ hops[i].call # other[i].call
             \/ x = P!Shorter(hops, other) /\ Len(hops) # Len(other)
  <2>1. PICK d \in P!Compare(hops, other) : d.class = "ORCHESTRATION_BUG" /\ d.at = x
    BY <1>1 DEF Faults, P!Bugs
  <2> QED BY <2>1, FoundThere
<1>2. ASSUME NEW i \in 1 .. P!Shorter(hops, other), x = i - 1, hops[i].call # other[i].call
      PROVE  x \in Faults(hops, other)
  <2>1. PICK d : d = [at |-> i - 1, class |-> "ORCHESTRATION_BUG"]
    OBVIOUS
  <2>2. d.at = x /\ d.class = "ORCHESTRATION_BUG"
    BY <1>2, <2>1
  <2>3. d \in P!InStep(hops, other, i)
    BY <1>2, <2>1 DEF P!InStep
  <2>4. d \in P!Compare(hops, other)
    BY <2>3 DEF P!Compare
  <2> QED BY <2>2, <2>4 DEF Faults, P!Bugs
<1>3. ASSUME x = P!Shorter(hops, other), Len(hops) # Len(other)
      PROVE  x \in Faults(hops, other)
  <2>1. PICK d : d = [at |-> P!Shorter(hops, other), class |-> "ORCHESTRATION_BUG"]
    OBVIOUS
  <2>2. d.at = x /\ d.class = "ORCHESTRATION_BUG"
    BY <1>3, <2>1
  <2>3. d \in P!InLength(hops, other)
    BY <1>3, <2>1 DEF P!InLength
  <2>4. d \in P!Compare(hops, other)
    BY <2>3, Zenon DEF P!Compare
  <2> QED BY <2>2, <2>4 DEF Faults, P!Bugs
<1> QED BY <1>1, <1>2, <1>3

-----------------------------------------------------------------------------
(* TrajectoryReplay: the inductive invariant                               *)

(* What has been replayed is the golden run as far as the cursor; then the *)
(* replay has ended, or the next call is wrong or one too many.            *)
Replaying(gold, calls, c, div) ==
    /\ c \in Nat /\ c <= Len(gold) /\ c <= Len(calls)
    /\ \A i \in 1 .. c : calls[i] = gold[i]
    /\ div = P!NotForked => c = Len(calls)
    /\ div # P!NotForked => /\ div = c /\ c < Len(calls)
                            /\ c < Len(gold) => calls[c + 1].call # gold[c + 1].call

(* A fork has the hops it was forked with, and so has its session.         *)
Forked(gold, branch, point) ==
    /\ point \in Nat /\ point < Len(gold) /\ point < Len(branch)
    /\ \A i \in 1 .. point + 1 : branch[i] = gold[i]

ReplayInv ==
    /\ golden \in Seq(Hops) /\ steps \in Seq(Hops) /\ replayed \in Seq(Hops) /\ fork \in Seq(Hops)
    /\ Replaying(steps, replayed, cursor, diverged)
    /\ forkPoint # P!NotForked => Forked(golden, fork, forkPoint)

LEMMA ReplayTells ==
    ASSUME P!ReplayAssumption, ReplayInv
    PROVE  P!ReplayAgreesWithComparison
<1> DEFINE k == P!Shorter(steps, replayed)
<1>1. /\ steps \in Seq(Hops) /\ replayed \in Seq(Hops) /\ Replaying(steps, replayed, cursor, diverged)
      /\ Len(steps) \in Nat /\ Len(replayed) \in Nat /\ cursor \in Nat
  BY DEF ReplayInv, Replaying
<1>2. k \in Nat /\ k <= Len(steps) /\ k <= Len(replayed) /\ k \in {Len(steps), Len(replayed)}
  BY <1>1, ShorterIs
<1>3. \A x : x \in Faults(steps, replayed) <=>
                \/ \E i \in 1 .. k : x = i - 1 /\ steps[i].call # replayed[i].call
                \/ x = k /\ Len(steps) # Len(replayed)
  BY <1>1, FaultsAre
<1> HIDE DEF k
<1>4. \A i \in 1 .. cursor : replayed[i] = steps[i]
  BY <1>1 DEF Replaying
<1>5. ASSUME P!Status = "MATCHED" PROVE P!Compare(steps, replayed) = {}
  <2>1. diverged = P!NotForked /\ ~(cursor < Len(steps))
    BY <1>5 DEF P!Status
  <2>2. cursor = Len(steps) /\ cursor = Len(replayed)
    BY <1>1, <2>1 DEF Replaying
  <2>3. \A l \in Seq(Hops) : l = [i \in 1 .. Len(l) |-> l[i]]
    OBVIOUS
  <2>4. steps = replayed
    <3>1. steps = [i \in 1 .. cursor |-> steps[i]]
      BY <1>1, <2>2, <2>3, Zenon
    <3>2. replayed = [i \in 1 .. cursor |-> replayed[i]]
      BY <1>1, <2>2, <2>3, Zenon
    <3> QED BY <1>4, <3>1, <3>2, Zenon
  <2> QED BY <1>1, <2>4, SameRun
<1>6. ASSUME P!Status = "DIVERGED" PROVE P!Min(Faults(steps, replayed)) = diverged
  <2>1. diverged # P!NotForked
    BY <1>6 DEF P!Status
  <2>2. /\ diverged = cursor /\ cursor < Len(replayed)
        /\ cursor < Len(steps) => replayed[cursor + 1].call # steps[cursor + 1].call
    BY <1>1, <2>1 DEF Replaying
  <2>3. cursor \in Faults(steps, replayed)
    <3>1. CASE cursor < Len(steps)
      <4>1. cursor + 1 \in 1 .. k /\ cursor = (cursor + 1) - 1
        BY <1>1, <1>2, <2>2, <3>1
      <4> QED BY <1>3, <2>2, <3>1, <4>1
    <3>2. CASE ~(cursor < Len(steps))
      <4>1. cursor = k /\ Len(steps) # Len(replayed)
        BY <1>1, <1>2, <2>2, <3>2 DEF Replaying
      <4> QED BY <1>3, <4>1
    <3> QED BY <3>1, <3>2
  <2>4. ASSUME NEW x \in Faults(steps, replayed) PROVE x \in Int /\ cursor <= x
    <3>1. CASE x = k
      BY <1>1, <1>2, <2>2, <3>1 DEF Replaying
    <3>2. CASE \E i \in 1 .. k : x = i - 1 /\ steps[i].call # replayed[i].call
      <4>1. PICK i \in 1 .. k : x = i - 1 /\ steps[i].call # replayed[i].call
        BY <3>2
      <4>2. i \notin 1 .. cursor
        BY <1>4, <4>1
      <4> QED BY <1>1, <1>2, <4>1, <4>2
    <3> QED BY <1>3, <2>4, <3>1, <3>2
  <2>5. \A x \in Faults(steps, replayed) : (\A y \in Faults(steps, replayed) : x <= y) => x = cursor
    BY <1>1, <2>3, <2>4
  <2>6. \E x \in Faults(steps, replayed) : \A y \in Faults(steps, replayed) : x <= y
    BY <2>3, <2>4
  <2> QED BY <2>2, <2>5, <2>6 DEF P!Min
<1>7. ASSUME P!Status = "INCOMPLETE"
      PROVE  Faults(steps, replayed) = {Len(replayed)} /\ Len(replayed) < Len(steps)
  <2>1. diverged = P!NotForked /\ cursor < Len(steps)
    BY <1>7 DEF P!Status
  <2>2. cursor = Len(replayed) /\ k = cursor
    BY <1>1, <1>2, <2>1 DEF Replaying
  <2>3. ~\E i \in 1 .. k : steps[i].call # replayed[i].call
    BY <1>4, <2>2
  <2>4. \A x : x \in Faults(steps, replayed) <=> x = Len(replayed)
    BY <1>1, <1>3, <2>1, <2>2, <2>3
  <2> QED BY <1>1, <2>1, <2>2, <2>4
<1> QED BY <1>5, <1>6, <1>7 DEF P!ReplayAgreesWithComparison, Faults

LEMMA ForkTells ==
    ASSUME ReplayInv
    PROVE  P!ForkKeepsThePast
<1> SUFFICES ASSUME forkPoint # P!NotForked, NEW d \in P!Compare(golden, fork), d.class # "LATENCY_COST_REGRESSION"
             PROVE  d.at > forkPoint
  BY DEF P!ForkKeepsThePast
<1>1. golden \in Seq(Hops) /\ fork \in Seq(Hops) /\ Forked(golden, fork, forkPoint)
  BY DEF ReplayInv
<1>2. /\ P!Shorter(golden, fork) \in Nat /\ P!Shorter(golden, fork) > forkPoint /\ forkPoint \in Nat
  BY <1>1, ShorterIs DEF Forked
<1>3. CASE d.at = P!Shorter(golden, fork)
  BY <1>2, <1>3
<1>4. CASE \E i \in 1 .. P!Shorter(golden, fork) :
              /\ d.at = i - 1
              /\ golden[i].call # fork[i].call \/ golden[i].output # fork[i].output
  <2>1. PICK i \in 1 .. P!Shorter(golden, fork) :
               /\ d.at = i - 1
               /\ golden[i].call # fork[i].call \/ golden[i].output # fork[i].output
    BY <1>4
  <2>2. i \notin 1 .. forkPoint + 1
    BY <1>1, <2>1 DEF Forked
  <2> QED BY <1>2, <2>1, <2>2
<1> QED BY <1>1, <1>3, <1>4, FoundThere

LEMMA AnsweredByGolden ==
    ASSUME P!ReplayAssumption, ReplayInv, P!ExecuteTool
    PROVE  ReplayInv'
<1>1. PICK hop \in Hops : LET answers == diverged = P!NotForked /\ P!Matches(hop.call) IN
         /\ replayed' = Append(replayed, IF answers THEN [steps[cursor + 1] EXCEPT !.call = hop.call] ELSE hop)
         /\ cursor' = IF answers THEN cursor + 1 ELSE cursor
         /\ diverged' = IF answers \/ diverged # P!NotForked THEN diverged ELSE cursor
  BY DEF P!ExecuteTool
<1>2. UNCHANGED <<golden, steps, fork, forkPoint>>
  BY DEF P!ExecuteTool
<1>3. /\ steps \in Seq(Hops) /\ replayed \in Seq(Hops) /\ Replaying(steps, replayed, cursor, diverged)
      /\ Len(steps) \in Nat /\ Len(replayed) \in Nat /\ cursor \in Nat /\ cursor <= Len(steps)
      /\ cursor <= Len(replayed)
  BY DEF ReplayInv, Replaying
<1>4. PICK added \in Hops : /\ replayed' = Append(replayed, added)
                            /\ added = IF diverged = P!NotForked /\ P!Matches(hop.call) THEN steps[cursor + 1] ELSE hop
  <2>1. CASE diverged = P!NotForked /\ P!Matches(hop.call)
    <3>1. cursor < Len(steps) /\ steps[cursor + 1].call = hop.call
      BY <2>1 DEF P!Matches
    <3>2. steps[cursor + 1] \in Hops
      BY <1>3, <3>1
    <3>3. [steps[cursor + 1] EXCEPT !.call = hop.call] = steps[cursor + 1]
      BY <3>1, <3>2, HopFields
    <3> QED BY <1>1, <2>1, <3>2, <3>3
  <2>2. CASE ~(diverged = P!NotForked /\ P!Matches(hop.call))
    BY <1>1, <2>2
  <2> QED BY <2>1, <2>2
<1>5. /\ replayed' \in Seq(Hops) /\ Len(replayed') = Len(replayed) + 1
      /\ \A i \in 1 .. Len(replayed) : replayed'[i] = replayed[i]
      /\ replayed'[Len(replayed) + 1] = added
  BY <1>3, <1>4
<1>6. PICK calls : calls = replayed'
  OBVIOUS
<1>7. PICK c, div : c = cursor' /\ div = diverged'
  OBVIOUS
<1>8. Replaying(steps, calls, c, div)
  <2>1. CASE diverged = P!NotForked /\ P!Matches(hop.call)
    <3>1. cursor < Len(steps) /\ c = cursor + 1 /\ div = P!NotForked /\ cursor = Len(replayed)
          /\ added = steps[cursor + 1]
      BY <1>1, <1>3, <1>4, <1>7, <2>1 DEF P!Matches, Replaying
    <3>2. \A i \in 1 .. c : calls[i] = steps[i]
      BY <1>3, <1>5, <1>6, <3>1 DEF Replaying
    <3> QED BY <1>3, <1>5, <1>6, <3>1, <3>2 DEF Replaying
  <2>2. CASE diverged = P!NotForked /\ ~P!Matches(hop.call)
    <3>1. c = cursor /\ div = cursor /\ added = hop /\ cursor = Len(replayed)
      BY <1>1, <1>3, <1>4, <1>7, <2>2 DEF Replaying
    <3>2. cursor < Len(steps) => calls[cursor + 1].call # steps[cursor + 1].call
      BY <1>5, <1>6, <2>2, <3>1 DEF P!Matches
    <3>3. div # P!NotForked
      BY <1>3, <3>1 DEF P!NotForked
    <3> QED BY <1>3, <1>5, <1>6, <3>1, <3>2, <3>3 DEF Replaying
  <2>3. CASE diverged # P!NotForked
    <3>1. c = cursor /\ div = diverged
      BY <1>1, <1>7, <2>3
    <3>2. cursor < Len(replayed)
      BY <1>3, <2>3 DEF Replaying
    <3>3. cursor + 1 \in 1 .. Len(replayed)
      BY <1>3, <3>2
    <3> QED BY <1>3, <1>5, <1>6, <2>3, <3>1, <3>2, <3>3 DEF Replaying
  <2> QED BY <2>1, <2>2, <2>3
<1> QED BY <1>2, <1>5, <1>6, <1>7, <1>8 DEF ReplayInv

LEMMA RecordedBeyond ==
    ASSUME NEW hops \in Seq(Hops), NEW hop \in Hops
    PROVE  /\ Append(hops, hop) \in Seq(Hops) /\ Len(Append(hops, hop)) = Len(hops) + 1 /\ Len(hops) \in Nat
           /\ \A i \in 1 .. Len(hops) : Append(hops, hop)[i] = hops[i]
OBVIOUS

LEMMA ReplayStep == ASSUME P!ReplayAssumption, ReplayInv, [P!Next]_(P!replays) PROVE ReplayInv'
<1>1. CASE P!RecordGolden
  <2>1. PICK hop \in Hops : golden' = Append(golden, hop)
    BY <1>1 DEF P!RecordGolden
  <2>2. UNCHANGED <<steps, cursor, diverged, replayed, fork, forkPoint>>
    BY <1>1 DEF P!RecordGolden
  <2>3. PICK hops : hops = golden'
    OBVIOUS
  <2>4. hops \in Seq(Hops) /\ Len(hops) = Len(golden) + 1 /\ Len(golden) \in Nat
        /\ \A i \in 1 .. Len(golden) : hops[i] = golden[i]
    BY <2>1, <2>3, RecordedBeyond DEF ReplayInv
  <2>5. ASSUME Forked(golden, fork, forkPoint) PROVE Forked(hops, fork, forkPoint)
    BY <2>4, <2>5 DEF Forked
  <2> QED BY <2>2, <2>3, <2>4, <2>5 DEF ReplayInv
<1>2. CASE P!RecordFork
  <2>1. PICK hop \in Hops : fork' = Append(fork, hop)
    BY <1>2 DEF P!RecordFork
  <2>2. UNCHANGED <<golden, steps, cursor, diverged, replayed, forkPoint>>
    BY <1>2 DEF P!RecordFork
  <2>3. PICK hops : hops = fork'
    OBVIOUS
  <2>4. hops \in Seq(Hops) /\ Len(hops) = Len(fork) + 1 /\ Len(fork) \in Nat
        /\ \A i \in 1 .. Len(fork) : hops[i] = fork[i]
    BY <2>1, <2>3, RecordedBeyond DEF ReplayInv
  <2>5. ASSUME Forked(golden, fork, forkPoint) PROVE Forked(golden, hops, forkPoint)
    BY <2>4, <2>5 DEF Forked
  <2> QED BY <2>2, <2>3, <2>4, <2>5 DEF ReplayInv
<1>3. CASE P!ForkAt
  <2>1. PICK step \in 0 .. (Len(golden) - 1) : forkPoint' = step /\ fork' = P!HopsUpTo(step)
    BY <1>3 DEF P!ForkAt
  <2>2. UNCHANGED <<golden, steps, cursor, diverged, replayed>>
    BY <1>3 DEF P!ForkAt
  <2>3. PICK hops : hops = SubSeq(golden, 1, step + 1)
    OBVIOUS
  <2>4. golden \in Seq(Hops) /\ Len(golden) \in Nat
    BY DEF ReplayInv
  <2>5. hops \in Seq(Hops) /\ Len(hops) = step + 1 /\ \A i \in 1 .. step + 1 : hops[i] = golden[i]
    BY <2>3, <2>4
  <2>6. fork' = hops /\ Forked(golden, hops, step)
    BY <2>1, <2>3, <2>4, <2>5 DEF Forked, P!HopsUpTo
  <2> QED BY <2>1, <2>2, <2>5, <2>6 DEF ReplayInv
<1>4. CASE P!StartReplay
  <2>1. steps' = P!Tools(golden) /\ replayed = <<>> /\ UNCHANGED <<golden, cursor, diverged, replayed, fork, forkPoint>>
    BY <1>4 DEF P!StartReplay
  <2>2. PICK hops \in Seq(Hops) : hops = steps'
    BY <2>1, ToolsAreHops DEF ReplayInv
  <2>3. cursor = 0 /\ diverged = P!NotForked /\ Len(replayed) = 0
    BY <2>1 DEF ReplayInv, Replaying
  <2>4. Replaying(hops, replayed, cursor, diverged)
    BY <2>3 DEF Replaying
  <2> QED BY <2>1, <2>2, <2>4 DEF ReplayInv
<1>5. CASE UNCHANGED P!replays
  BY <1>5 DEF P!replays, ReplayInv
<1> QED BY <1>1, <1>2, <1>3, <1>4, <1>5, AnsweredByGolden DEF P!Next

(* For any hops and golden runs, however far either is recorded: a replay  *)
(* is matched, has diverged or is incomplete as the comparison of the two  *)
(* runs afterwards says, and a fork differs from the session it was taken  *)
(* from only after its fork point.                                         *)
THEOREM ReplayAgrees ==
    ASSUME P!ReplayAssumption PROVE P!Spec => [](P!ReplayAgreesWithComparison /\ P!ForkKeepsThePast)
<1>1. P!Init => ReplayInv
  <2> SUFFICES ASSUME P!Init PROVE ReplayInv
    OBVIOUS
  <2>1. /\ golden = <<>> /\ steps = <<>> /\ cursor = 0 /\ diverged = P!NotForked
        /\ replayed = <<>> /\ fork = <<>> /\ forkPoint = P!NotForked
    BY DEF P!Init
  <2>2. Replaying(<<>>, <<>>, 0, P!NotForked)
    BY DEF Replaying
  <2> QED BY <2>1, <2>2 DEF ReplayInv
<1>2. ReplayInv /\ [P!Next]_(P!replays) => ReplayInv'
  BY ReplayStep
<1>3. ReplayInv => P!ReplayAgreesWithComparison /\ P!ForkKeepsThePast
  BY ReplayTells, ForkTells
<1> QED BY <1>1, <1>2, <1>3, PTL DEF P!Spec

-----------------------------------------------------------------------------
(* The components side by side, as MCKnowledge has them                    *)

LEMMA EachStep ==
    ASSUME [KnowledgeNext]_knowledge
    PROVE  /\ [Next]_vars /\ [F!Next]_(F!vars) /\ [A!Next]_(A!vars) /\ [I!Next]_(I!vars)
           /\ [Q!Next]_(Q!caching) /\ [T!Next]_(T!ledgered) /\ [P!Next]_(P!replays)
<1>1. CASE part = "memory" /\ Next /\ UNCHANGED <<part, friction, remember, improve, query, trajectories, replays>>
  BY <1>1 DEF friction, remember, improve, query, trajectories, replays,
              F!vars, F!files, F!bookkeeping, A!vars, I!vars, Q!caching, T!ledgered, P!replays
<1>2. CASE part = "friction" /\ F!Next /\ UNCHANGED <<part, vars, remember, improve, query, trajectories, replays>>
  BY <1>2 DEF remember, improve, query, trajectories, replays, A!vars, I!vars, Q!caching, T!ledgered, P!replays
<1>3. CASE part = "remember" /\ A!Next /\ UNCHANGED <<part, vars, friction, improve, query, trajectories, replays>>
  BY <1>3 DEF friction, improve, query, trajectories, replays,
              F!vars, F!files, F!bookkeeping, I!vars, Q!caching, T!ledgered, P!replays
<1>4. CASE part = "improve" /\ I!Next /\ UNCHANGED <<part, vars, friction, remember, query, trajectories, replays>>
  BY <1>4 DEF friction, remember, query, trajectories, replays,
              F!vars, F!files, F!bookkeeping, A!vars, Q!caching, T!ledgered, P!replays
<1>5. CASE part = "query" /\ Q!Next /\ UNCHANGED <<part, vars, friction, remember, improve, trajectories, replays>>
  BY <1>5 DEF friction, remember, improve, trajectories, replays,
              F!vars, F!files, F!bookkeeping, A!vars, I!vars, T!ledgered, P!replays
<1>6. CASE part = "trajectories" /\ T!Next /\ UNCHANGED <<part, vars, friction, remember, improve, query, replays>>
  BY <1>6 DEF friction, remember, improve, query, replays,
              F!vars, F!files, F!bookkeeping, A!vars, I!vars, Q!caching, P!replays
<1>7. CASE part = "replay" /\ P!Next /\ UNCHANGED <<part, vars, friction, remember, improve, query, trajectories>>
  BY <1>7 DEF friction, remember, improve, query, trajectories,
              F!vars, F!files, F!bookkeeping, A!vars, I!vars, Q!caching, T!ledgered
<1>8. CASE UNCHANGED knowledge
  BY <1>8 DEF knowledge, friction, remember, improve, query, trajectories, replays,
              F!vars, F!files, F!bookkeeping, A!vars, I!vars, Q!caching, T!ledgered, P!replays
<1> QED BY <1>1, <1>2, <1>3, <1>4, <1>5, <1>6, <1>7, <1>8 DEF KnowledgeNext

LEMMA EachAlways ==
    KnowledgeSpec => Spec /\ F!Spec /\ A!Spec /\ I!Spec /\ Q!Spec /\ T!Spec /\ P!Spec
<1>1. KnowledgeInit => Init /\ F!Init /\ A!Init /\ I!Init /\ Q!Init /\ T!Init /\ P!Init
  BY DEF KnowledgeInit
<1> QED BY <1>1, EachStep, PTL DEF KnowledgeSpec, Spec, F!Spec, A!Spec, I!Spec, Q!Spec, T!Spec, P!Spec

(* However often the server dies, and whatever else is written: the daily  *)
(* log has a candidate of a conversation twice only for such a death.      *)
THEOREM RememberedOnceAlways == KnowledgeSpec => []OncePerCandidate
<1>1. A!Spec => []A!OncePerCandidate
  BY KnowledgeAssumption, OncePerCandidateAlways DEF KnowledgeAssumption
<1> QED BY <1>1, EachAlways, PTL DEF OncePerCandidate

(* For any processes, entries and bridges, whatever crashes or fails to be *)
(* written: an evaluation undoes no decision its process has seen, unless  *)
(* it found a state file another process had cut or mangled; the bridges   *)
(* are vetoed before it is saved, up to one that cannot be read or written.*)
THEOREM DecisionsStandAlways == KnowledgeSpec => DecisionsLast
<1>1. F!Spec => F!DecisionsLast
  BY KnowledgeAssumption, DecisionsLastAlways DEF KnowledgeAssumption
<1>2. F!Spec => []F!VetoComesFirst
  BY KnowledgeAssumption, VetoComesFirstAlways DEF KnowledgeAssumption
<1> QED BY <1>1, <1>2, EachAlways, PTL DEF DecisionsLast

(* Whatever packs are mounted, texts replaced and trajectories judged anew,*)
(* and wherever a crash cuts a save short: an archived memory stays so, an *)
(* answer is no older than the lives of its index and its row, and what is *)
(* read of the trajectories would pass today.                              *)
THEOREM RetiredStaysOutAlways == KnowledgeSpec => []RetiredStaysOut
<1>1. Spec => [](NotesAreKept /\ ArchivedStays)
  BY KnowledgeAssumption, NotesStay DEF KnowledgeAssumption
<1>2. Q!Spec => [](Q!AnswersAreFresh /\ Q!TypeOK)
  BY KnowledgeAssumption, AnswersAreFreshAlways DEF KnowledgeAssumption
<1>3. T!Spec => [](T!SavedIsRead /\ T!ReadIsAdmitted /\ T!SnapshotsGrow)
  BY KnowledgeAssumption, TrajectoriesAreKept DEF KnowledgeAssumption
<1> QED BY <1>1, <1>2, <1>3, EachAlways, PTL DEF RetiredStaysOut

(* For any texts, packs, entries, files, trajectories and runs, and        *)
(* wherever crashes cut saves short: what was written down is found again, *)
(* but for what the history names, and a replay tells what the comparison  *)
(* of its runs tells.                                                      *)
THEOREM NothingIsForgottenAlways == KnowledgeSpec => []NothingIsForgotten
<1>1. Spec => [](NotesAreKept /\ ArchivedStays)
  BY KnowledgeAssumption, NotesStay DEF KnowledgeAssumption
<1>2. F!Spec => []F!LedgerIsKept
  BY KnowledgeAssumption, LedgerIsKeptAlways DEF KnowledgeAssumption
<1>3. I!Spec => []I!TextsAreKept
  BY KnowledgeAssumption, TextsAreKeptAlways DEF KnowledgeAssumption
<1>4. T!Spec => [](T!SavedIsRead /\ T!ReadIsAdmitted /\ T!SnapshotsGrow)
  BY KnowledgeAssumption, TrajectoriesAreKept DEF KnowledgeAssumption
<1>5. P!Spec => [](P!ReplayAgreesWithComparison /\ P!ForkKeepsThePast)
  BY KnowledgeAssumption, ReplayAgrees DEF KnowledgeAssumption
<1> QED BY <1>1, <1>2, <1>3, <1>4, <1>5, EachAlways, PTL DEF NothingIsForgotten
=============================================================================
