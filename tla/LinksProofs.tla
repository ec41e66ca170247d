----------------------------- MODULE LinksProofs -----------------------------
(***************************************************************************)
(* Proofs about Links, for any heads and any entries: lists of any length, *)
(* any number of them, and any sequence of calls.                          *)
(*                                                                         *)
(* The argument speaks of rows, as Rows does.  Each function of list.h is  *)
(* a few Joins, and one or two of three things that Joins do to rows: a    *)
(* segment goes out (CutOut), a segment goes in (PutIn), a head is         *)
(* initialized.  What a loop visits is a trail along the links; therefore  *)
(* the rows that the links lay out are what the refinement of Rows shows.  *)
(***************************************************************************)
EXTENDS Links, SequenceTheorems, FiniteSetTheorems, TLAPS

(***************************************************************************)
(* A set of naturals that is not empty has a least member.                 *)
(***************************************************************************)
LEMMA LeastNat ==
  ASSUME NEW S \in SUBSET Nat, S # {}
  PROVE \E m \in S : \A k \in S : m <= k
<1>1. IsWellFoundedOn(OpToRel(<, Nat), Nat)
  BY NatLessThanWellFounded
<1>2. PICK m \in S : \A k \in S : ~ (<<k, m>> \in OpToRel(<, Nat))
  BY <1>1, WFMin
<1>3. \A k \in S : ~ (k < m)
  BY <1>2 DEF OpToRel
<1> QED BY <1>3

(***************************************************************************)
(* Induction over the naturals, with a set for the formula: what holds of  *)
(* 0, and of k + 1 where it holds of k, holds of every natural.            *)
(***************************************************************************)
LEMMA ByInduction ==
  ASSUME NEW S, 0 \in S, \A k \in Nat : k \in S => k + 1 \in S
  PROVE  Nat \subseteq S
<1> SUFFICES ASSUME Nat \ S # {} PROVE FALSE
  OBVIOUS
<1>1. PICK m \in Nat \ S : \A k \in Nat \ S : m <= k
  BY LeastNat
<1> QED BY <1>1, m - 1 \in S

\* c is what a loop from pos passes through until it comes to head.
Trail(l, dir, pos, head, c) ==
  /\ head \in Nodes /\ c \in Seq(Nodes \ {head}) /\ Len(c) <= Cardinality(Nodes)
  /\ \A i \in 1..Len(c) : l[dir][c[i]] = IF i < Len(c) THEN c[i + 1] ELSE head
  /\ pos = IF Len(c) = 0 THEN head ELSE c[1]

(***************************************************************************)
(* The loops of list.h (list.h:541-736) visit exactly their trail: along a *)
(* trail that leads to the head, Visits gives the trail, however long the  *)
(* list is.                                                                *)
(***************************************************************************)
LEMMA VisitsIs ==
  ASSUME NEW l, NEW dir, NEW pos, NEW head, NEW c, Trail(l, dir, pos, head, c)
  PROVE  Visits(l, dir, pos, head) = c
<1>0. /\ IsFiniteSet(Nodes)
      /\ head \in Nodes /\ c \in Seq(Nodes \ {head}) /\ Len(c) <= Cardinality(Nodes)
      /\ \A i \in 1..Len(c) : l[dir][c[i]] = IF i < Len(c) THEN c[i + 1] ELSE head
      /\ pos = IF Len(c) = 0 THEN head ELSE c[1]
  BY NodesAssumption DEF Trail, Nodes
<1> USE <1>0
<1> DEFINE n     == Len(c)
           N     == Cardinality(Nodes)
           f     == l[dir]
           cc    == Append(c, head)
           upto  == [k \in Nat |-> SubSeq(cc, 1, IF k <= n THEN k + 1 ELSE n + 1)]
           follow(p, k) == IF k = 0 THEN <<pos>>
                        ELSE LET s == p[k - 1]
                             IN  IF Last(s) \in Nodes \ {head} THEN Append(s, l[dir][Last(s)]) ELSE s
           path  == CHOOSE p : p = [k \in Nat |-> IF k = 0 THEN <<pos>>
                        ELSE LET s == p[k - 1]
                             IN  IF Last(s) \in Nodes \ {head} THEN Append(s, l[dir][Last(s)]) ELSE s]
<1>1. Visits(l, dir, pos, head) =
        IF Last(path[N]) = head THEN Front(path[N]) ELSE <<Wild>>
  BY Zenon DEF Visits
<1>2. /\ n \in Nat /\ cc \in Seq(Nodes) /\ Len(cc) = n + 1
      /\ \A i \in 1..n : cc[i] = c[i] /\ cc[i] \in Nodes \ {head}
      /\ cc[n + 1] = head
  <2>1. c \in Seq(Nodes)
    BY SeqMonotonic
  <2>2. \A i \in 1..n : c[i] \in Nodes \ {head}
    BY ElementOfSeq
  <2> QED BY <2>1, <2>2, AppendProperties, LenProperties
<1>3. \A k \in Nat : /\ upto[k] \in Seq(Nodes)
                     /\ upto[k] = SubSeq(cc, 1, IF k <= n THEN k + 1 ELSE n + 1)
                     /\ Last(upto[k]) = cc[IF k <= n THEN k + 1 ELSE n + 1]
  <2> SUFFICES ASSUME NEW k \in Nat
               PROVE  /\ upto[k] \in Seq(Nodes)
                      /\ upto[k] = SubSeq(cc, 1, IF k <= n THEN k + 1 ELSE n + 1)
                      /\ Last(upto[k]) = cc[IF k <= n THEN k + 1 ELSE n + 1]
    OBVIOUS
  <2> DEFINE m == IF k <= n THEN k + 1 ELSE n + 1
  <2>1. m \in 1..n + 1 /\ upto[k] = SubSeq(cc, 1, m)
    BY <1>2
  <2>2. \A i \in 1..m : cc[i] \in Nodes
    BY <1>2, <2>1, ElementOfSeq
  <2> HIDE DEF m, upto, cc
  <2>3. /\ SubSeq(cc, 1, m) \in Seq(Nodes)
        /\ Len(SubSeq(cc, 1, m)) = m
        /\ SubSeq(cc, 1, m)[m] = cc[m]
    BY <2>1, <2>2, <1>2, SubSeqProperties
  <2> QED BY <2>1, <2>3 DEF Last, m
<1>4. \A k \in Nat : upto[k] = follow(upto, k)
  <2> SUFFICES ASSUME NEW k \in Nat PROVE upto[k] = follow(upto, k)
    OBVIOUS
  <2>1. CASE k = 0
    <3>1. cc[1] = pos
      BY <1>2
    <3>2. SubSeq(cc, 1, 1) = <<cc[1]>>
      <4>1. 1 \in 1..Len(cc) /\ 1 \in 1..Len(cc)
        BY <1>2
      <4> HIDE DEF cc
      <4>2. SubSeq(cc, 1, 1) = <<cc[1]>> \o SubSeq(cc, 2, 1)
        BY <4>1, <1>2, SubSeqRecursiveFirst
      <4>3. SubSeq(cc, 2, 1) = <<>>
        BY SubSeqEmpty
      <4>4. <<cc[1]>> \in Seq(Nodes)
        BY <4>1, <1>2, ElementOfSeq
      <4> QED BY <4>2, <4>3, <4>4, ConcatEmptySeq
    <3> HIDE DEF cc
    <3> QED BY <2>1, <3>1, <3>2, <1>2
  <2>2. CASE k \in 1..n
    <3> DEFINE s == upto[k - 1]
    <3> HIDE DEF upto, cc, n
    <3>1. s = SubSeq(cc, 1, k) /\ Last(s) = cc[k] /\ s \in Seq(Nodes)
      BY <2>2, <1>3, <1>2, k - 1 \in Nat, k - 1 <= n, k - 1 + 1 = k
    <3>2. upto[k] = SubSeq(cc, 1, k + 1)
      BY <2>2, <1>3, <1>2, SMTT(30)
    <3>3. SubSeq(cc, 1, k + 1) = Append(SubSeq(cc, 1, k), cc[k + 1])
      <4>1. 1 \in 1..Len(cc) /\ k + 1 \in 1..Len(cc) /\ k + 1 \in 1 .. Len(cc) /\ k + 1 - 1 = k
        BY <1>2, <2>2
      <4>2. SubSeq(cc, 1, k + 1) = SubSeq(cc, 1, k) \o <<cc[k + 1]>>
        BY <4>1, <1>2, SubSeqRecursiveSecond
      <4> QED BY <4>2, <3>1, <4>1, <1>2, AppendIsConcat, ElementOfSeq
    <3>4. f[cc[k]] = cc[k + 1]
      <4>1. l[dir][c[k]] = IF k < n THEN c[k + 1] ELSE head
        BY <2>2 DEF n
      <4>2. CASE k < n
        BY <4>1, <4>2, <1>2, <2>2, k + 1 \in 1..n
      <4>3. CASE k = n
        BY <4>1, <4>3, <1>2, <2>2
      <4> QED BY <4>2, <4>3, <2>2, <1>2
    <3>5. cc[k] \in Nodes \ {head}
      BY <2>2, <1>2
    <3>6. k # 0 /\ follow(upto, k) = IF Last(s) \in Nodes \ {head}
                                    THEN Append(s, l[dir][Last(s)]) ELSE s
      BY <2>2
    <3> HIDE DEF s, follow
    <3>7. follow(upto, k) = Append(s, f[cc[k]])
      BY <3>1, <3>5, <3>6
    <3> QED BY <3>1, <3>2, <3>3, <3>4, <3>7
  <2>3. CASE k > n
    <3> HIDE DEF upto, cc, n
    <3>1. /\ upto[k] = SubSeq(cc, 1, n + 1) /\ upto[k - 1] = SubSeq(cc, 1, n + 1)
          /\ Last(upto[k - 1]) = head
      <4>1. k - 1 \in Nat /\ (IF k <= n THEN k + 1 ELSE n + 1) = n + 1
            /\ (IF k - 1 <= n THEN k - 1 + 1 ELSE n + 1) = n + 1
        BY <2>3, <1>2
      <4> QED BY <4>1, <1>3, <1>2
    <3>2. k # 0 /\ follow(upto, k) = IF Last(upto[k - 1]) \in Nodes \ {head}
                                    THEN Append(upto[k - 1], l[dir][Last(upto[k - 1])])
                                    ELSE upto[k - 1]
      BY <2>3, <1>2
    <3> HIDE DEF follow
    <3> QED BY <3>1, <3>2
  <2>4. k = 0 \/ k \in 1..n \/ k > n
    <3>1. n \in Nat /\ k \in Nat
      BY <1>2
    <3> HIDE DEF n
    <3> QED BY <3>1
  <2> QED BY <2>1, <2>2, <2>3, <2>4
<1>5. path = [k \in Nat |-> follow(path, k)]
  <2>1. upto = [k \in Nat |-> follow(upto, k)]
    BY <1>4
  <2> HIDE DEF upto
  <2>2. \E p : p = [k \in Nat |-> follow(p, k)]
    BY <2>1
  <2> QED BY <2>2
<1>6. \A k \in Nat : path[k] = upto[k]
  <2> DEFINE S == {k \in Nat : path[k] = upto[k]}
  <2>0. \A k \in Nat : path[k] = follow(path, k)
    BY <1>5
  <2> HIDE DEF upto, path
  <2>1. 0 \in S
    BY <2>0, <1>4
  <2>2. ASSUME NEW k \in Nat, k \in S PROVE k + 1 \in S
    <3>1. path[k + 1] = follow(path, k + 1) /\ upto[k + 1] = follow(upto, k + 1)
      BY <2>0, <1>4
    <3>2. k + 1 - 1 = k /\ k + 1 # 0 /\ path[k] = upto[k]
      BY <2>2
    <3> QED BY <3>1, <3>2
  <2> HIDE DEF S
  <2>3. Nat \subseteq S
    BY <2>1, <2>2, ByInduction
  <2> QED BY <2>3 DEF S
<1>7. path[N] = cc
  <2>1. N \in Nat /\ n <= N
    BY FS_CardinalityType
  <2>2. (IF N <= n THEN N + 1 ELSE n + 1) = n + 1
    BY <2>1, <1>2
  <2> HIDE DEF upto, path, cc, n, N
  <2>3. path[N] = SubSeq(cc, 1, Len(cc))
    BY <2>1, <2>2, <1>3, <1>6, <1>2
  <2> QED BY <2>3, <1>2, SubSeqFull
<1>8. Last(cc) = head /\ Front(cc) = c
  <2>1. Last(cc) = head
    BY <1>2 DEF Last
  <2>2. Front(cc) = SubSeq(cc, 1, n)
    BY <1>2 DEF Front
  <2>3. SubSeq(cc, 1, n) = c
    <3>1. \A i \in 1..n : cc[i] \in Nodes
      BY <1>2
    <3>2. c \in Seq(Nodes)
      BY SeqMonotonic
    <3> HIDE DEF cc, n
    <3>3. SubSeq(cc, 1, n) \in Seq(Nodes) /\ Len(SubSeq(cc, 1, n)) = n
          /\ \A i \in 1..n : SubSeq(cc, 1, n)[i] = cc[i]
      BY <3>1, <1>2, SubSeqProperties, n - 1 + 1 = n, \A i \in 1..n : 1 + i - 1 = i
    <3> QED BY <3>2, <3>3, <1>2, SeqEqual DEF n
  <2> QED BY <2>1, <2>2, <2>3
<1> HIDE DEF path, cc
<1> QED BY <1>1, <1>7, <1>8

\* Every field next and prev, set or wild.
LinksType == [next : [Nodes -> Nodes \cup {Wild}], prev : [Nodes -> Nodes \cup {Wild}]]

\* m is l after p->next = q; q->prev = p.
Joined(m, l, p, q) ==
  /\ m \in LinksType
  /\ \A x \in Nodes : m.next[x] = IF x = p THEN q ELSE l.next[x]
  /\ \A x \in Nodes : m.prev[x] = IF x = q THEN p ELSE l.prev[x]

(***************************************************************************)
(* p->next = q; q->prev = p sets these two fields and no other             *)
(* (list.h:118-122).                                                       *)
(***************************************************************************)
LEMMA JoinIs ==
  ASSUME NEW l \in LinksType, NEW p \in Nodes, NEW q \in Nodes
  PROVE  Joined(Join(l, p, q), l, p, q)
BY DEF Join, LinksType, Joined

(***************************************************************************)
(* Poisoning the links of one node leaves those of all others              *)
(* (list.h:155-156).                                                       *)
(***************************************************************************)
LEMMA UnsetIs ==
  ASSUME NEW l \in LinksType, NEW n \in Nodes
  PROVE  /\ Unset(l, n) \in LinksType
         /\ \A x \in Nodes \ {n} : /\ Unset(l, n).next[x] = l.next[x]
                                   /\ Unset(l, n).prev[x] = l.prev[x]
BY DEF Unset, LinksType

(***************************************************************************)
(* Two states of the links that agree in every field are the same.         *)
(***************************************************************************)
LEMMA SameLinks ==
  ASSUME NEW l \in LinksType, NEW m \in LinksType,
         \A x \in Nodes : l.next[x] = m.next[x] /\ l.prev[x] = m.prev[x]
  PROVE  l = m
BY DEF LinksType

(***************************************************************************)
(* A function on 1..N is a sequence of length N.                           *)
(***************************************************************************)
LEMMA IndexedIsSeq ==
  ASSUME NEW S, NEW N \in Nat, NEW t \in [1..N -> S]
  PROVE  t \in Seq(S) /\ Len(t) = N /\ DOMAIN t = 1..N
<1>1. t \in Seq(S)
  BY SeqDef
<1>2. DOMAIN t = 1..N /\ DOMAIN t = 1..Len(t) /\ Len(t) \in Nat
  BY <1>1, LenProperties
<1> QED BY <1>1, <1>2

\* What stands in place i of the circle of head h and row r: the head in
\* place 0 and behind the last entry.
Place(h, r, i) == IF i \in 1..Len(r) THEN r[i] ELSE h

\* No entry stands in a row twice.
OneToOne(r) == \A i, j \in 1..Len(r) : r[i] = r[j] => i = j

\* The links of a circle: next and prev of neighbours name each other.
Chained(l, h, r) == \A i \in 0..Len(r) : /\ l.next[Place(h, r, i)] = Place(h, r, i + 1)
                                         /\ l.prev[Place(h, r, i + 1)] = Place(h, r, i)

\* The links inside a segment, whatever is at its ends.
Loose(l, s) == \A i \in 1..Len(s) - 1 : l.next[s[i]] = s[i + 1] /\ l.prev[s[i + 1]] = s[i]

\* A row without its positions i to j.
Taken(r, i, j) ==
  [k \in 1..Len(r) - (j - i + 1) |-> IF k < i THEN r[k] ELSE r[k + (j - i + 1)]]

\* Positions i to j of a row.
Segment(r, i, j) == [k \in 1..j - i + 1 |-> r[i + k - 1]]

\* A row with s put in behind position k.
Put(r, k, s) ==
  [x \in 1..Len(r) + Len(s) |->
     IF x <= k THEN r[x] ELSE IF x <= k + Len(s) THEN s[x - k] ELSE r[x - Len(s)]]

(***************************************************************************)
(* Around the circle of a head and its row each node stands in one place:  *)
(* the head in place 0, and again behind the last entry.                   *)
(***************************************************************************)
LEMMA Places ==
  ASSUME NEW h \in Heads, NEW r \in Seq(Entries), OneToOne(r)
  PROVE  /\ \A i \in 0..Len(r) + 1 : Place(h, r, i) \in Nodes
         /\ Place(h, r, 0) = h /\ Place(h, r, Len(r) + 1) = h
         /\ \A i \in 1..Len(r) : Place(h, r, i) = r[i] /\ r[i] \in Entries /\ r[i] # h
         /\ \A i, j \in 0..Len(r) : Place(h, r, i) = Place(h, r, j) => i = j
         /\ \A i, j \in 1..Len(r) + 1 : Place(h, r, i) = Place(h, r, j) => i = j
<1>1. /\ Len(r) \in Nat
      /\ \A i \in 1..Len(r) : Place(h, r, i) = r[i] /\ r[i] \in Entries /\ r[i] # h
  BY NodesAssumption, ElementOfSeq DEF Place
<1>2. \A i \in Int : i \notin 1..Len(r) => Place(h, r, i) = h
  BY DEF Place
<1> QED BY <1>1, <1>2 DEF OneToOne, Nodes

(***************************************************************************)
(* A segment taken out of a row: what is left and what was taken are rows  *)
(* without repetition, they share nothing, and together they hold what the *)
(* row held.                                                               *)
(***************************************************************************)
LEMMA TakenIs ==
  ASSUME NEW r \in Seq(Entries), OneToOne(r), NEW i \in 1..Len(r), NEW j \in i..Len(r)
  PROVE  /\ Taken(r, i, j) \in Seq(Entries)
         /\ Len(Taken(r, i, j)) = Len(r) - (j - i + 1)
         /\ OneToOne(Taken(r, i, j))
         /\ \A h : \A k \in 0..Len(r) - (j - i + 1) + 1 :
              Place(h, Taken(r, i, j), k) = Place(h, r, IF k < i THEN k ELSE k + (j - i + 1))
         /\ Segment(r, i, j) \in Seq(Entries)
         /\ Len(Segment(r, i, j)) = j - i + 1
         /\ OneToOne(Segment(r, i, j))
         /\ \A k \in 1..j - i + 1 : Segment(r, i, j)[k] = r[i + k - 1]
         /\ \A x \in Entries :
              (\E k \in 1..Len(r) : r[k] = x)
                <=> \/ \E k \in 1..Len(Taken(r, i, j)) : Taken(r, i, j)[k] = x
                    \/ \E k \in 1..Len(Segment(r, i, j)) : Segment(r, i, j)[k] = x
         /\ \A k \in 1..Len(Taken(r, i, j)), m \in 1..Len(Segment(r, i, j)) :
              Taken(r, i, j)[k] # Segment(r, i, j)[m]
<1> DEFINE d == j - i + 1
           n == Len(r)
           t == Taken(r, i, j)
           s == Segment(r, i, j)
<1> HIDE DEF t, s
<1>1. /\ n \in Nat /\ d \in 1..n /\ n - d \in Nat /\ i <= n - d + 1 /\ i \in 1..n /\ j \in 1..n
      /\ \A k \in 1..n : r[k] \in Entries
  BY ElementOfSeq
<1>2. t \in [1..n - d -> Entries] /\ s \in [1..d -> Entries]
  BY <1>1 DEF t, s, Taken, Segment
<1>3. t \in Seq(Entries) /\ Len(t) = n - d /\ s \in Seq(Entries) /\ Len(s) = d
  <2>1. t \in Seq(Entries) /\ Len(t) = n - d
    BY <1>1, <1>2, IndexedIsSeq
  <2>2. s \in Seq(Entries) /\ Len(s) = d
    BY <1>1, <1>2, IndexedIsSeq
  <2> QED BY <2>1, <2>2
<1>4. /\ \A k \in 1..n - d : t[k] = IF k < i THEN r[k] ELSE r[k + d]
      /\ \A k \in 1..d : s[k] = r[i + k - 1]
  BY <1>1 DEF t, s, Taken, Segment
<1>5. d = j - i + 1
  OBVIOUS
<1> HIDE DEF t, s, d, n
<1>6. OneToOne(t) /\ OneToOne(s)
  <2>1. ASSUME NEW x \in 1..n - d, NEW y \in 1..n - d, t[x] = t[y]
        PROVE  x = y
    <3>1. (IF x < i THEN x ELSE x + d) \in 1..n /\ (IF y < i THEN y ELSE y + d) \in 1..n
      BY <1>1
    <3>2. t[x] = r[IF x < i THEN x ELSE x + d] /\ t[y] = r[IF y < i THEN y ELSE y + d]
      BY <1>4
    <3>3. (IF x < i THEN x ELSE x + d) = (IF y < i THEN y ELSE y + d)
      BY <2>1, <3>1, <3>2 DEF OneToOne, n
    <3> QED BY <3>3, <1>1
  <2>2. ASSUME NEW x \in 1..d, NEW y \in 1..d, s[x] = s[y]
        PROVE  x = y
    <3>1. i + x - 1 \in 1..n /\ i + y - 1 \in 1..n
      BY <1>1, <1>5
    <3>2. i + x - 1 = i + y - 1
      BY <3>1, <2>2, <1>4 DEF OneToOne, n
    <3> QED BY <3>2, <1>1
  <2> QED BY <2>1, <2>2, <1>3 DEF OneToOne
<1>7. ASSUME NEW h, NEW k \in 0..n - d + 1
      PROVE  Place(h, t, k) = Place(h, r, IF k < i THEN k ELSE k + d)
  <2>1. CASE k \in 1..n - d
    BY <2>1, <1>1, <1>3, <1>4 DEF Place, n
  <2>2. CASE k = 0
    BY <2>2, <1>1, <1>3 DEF Place
  <2>3. CASE k = n - d + 1
    <3>1. Place(h, t, k) = h
      BY <2>3, <1>1, <1>3 DEF Place
    <3>2. ~(k < i) /\ k + d = n + 1
      BY <2>3, <1>1
    <3> QED BY <3>1, <3>2, <1>1 DEF Place, n
  <2> QED BY <2>1, <2>2, <2>3, <1>1
<1>8. ASSUME NEW x \in Entries
      PROVE  (\E k \in 1..n : r[k] = x)
                <=> \/ \E k \in 1..n - d : t[k] = x
                    \/ \E k \in 1..d : s[k] = x
  <2>1. ASSUME NEW k \in 1..n, r[k] = x
        PROVE  \/ \E y \in 1..n - d : t[y] = x
               \/ \E y \in 1..d : s[y] = x
    <3>1. CASE k < i
      <4>1. k \in 1..n - d
        BY <3>1, <1>1
      <4> QED BY <4>1, <3>1, <1>4, <2>1
    <3>2. CASE k \in i..j
      <4>1. k - i + 1 \in 1..d /\ i + (k - i + 1) - 1 = k
        BY <3>2, <1>1, <1>5
      <4> QED BY <4>1, <1>4, <2>1
    <3>3. CASE k > j
      <4>1. k - d \in 1..n - d /\ ~(k - d < i) /\ k - d + d = k
        BY <3>3, <1>1, <1>5
      <4> QED BY <4>1, <1>4, <2>1
    <3> QED BY <3>1, <3>2, <3>3, <1>1
  <2>2. \A k \in 1..n - d : (IF k < i THEN k ELSE k + d) \in 1..n
    BY <1>1
  <2>3. \A k \in 1..d : i + k - 1 \in 1..n
    BY <1>1, <1>5
  <2>4. \A k \in 1..n - d : t[k] = r[IF k < i THEN k ELSE k + d]
    BY <1>4
  <2> QED BY <2>1, <2>2, <2>3, <2>4, <1>4
<1>9. ASSUME NEW k \in 1..n - d, NEW m \in 1..d
      PROVE  t[k] # s[m]
  <2>1. (IF k < i THEN k ELSE k + d) # i + m - 1
    BY <1>1, <1>5
  <2>2. (IF k < i THEN k ELSE k + d) \in 1..n /\ i + m - 1 \in 1..n
    BY <1>1, <1>5
  <2> QED BY <2>1, <2>2, <1>4 DEF OneToOne, n
<1> QED BY <1>3, <1>4, <1>6, <1>7, <1>8, <1>9 DEF t, s, d, n

(***************************************************************************)
(* A segment put into a row behind position k: the result is a row without *)
(* repetition that holds what both held.                                   *)
(***************************************************************************)
LEMMA PutIs ==
  ASSUME NEW r \in Seq(Entries), OneToOne(r), NEW s \in Seq(Entries), OneToOne(s),
         NEW k \in 0..Len(r), \A i \in 1..Len(r), j \in 1..Len(s) : r[i] # s[j]
  PROVE  /\ Put(r, k, s) \in Seq(Entries)
         /\ Len(Put(r, k, s)) = Len(r) + Len(s)
         /\ OneToOne(Put(r, k, s))
         /\ \A h : \A x \in 0..Len(r) + Len(s) + 1 :
              Place(h, Put(r, k, s), x) =
                IF x <= k THEN Place(h, r, x)
                ELSE IF x <= k + Len(s) THEN s[x - k] ELSE Place(h, r, x - Len(s))
         /\ \A x \in Entries :
              (\E i \in 1..Len(r) + Len(s) : Put(r, k, s)[i] = x)
                <=> (\E i \in 1..Len(r) : r[i] = x) \/ (\E i \in 1..Len(s) : s[i] = x)
<1> DEFINE n == Len(r)
           d == Len(s)
           t == Put(r, k, s)
<1> HIDE DEF t
<1>1. /\ n \in Nat /\ d \in Nat /\ n + d \in Nat /\ k \in 0..n
      /\ \A i \in 1..n : r[i] \in Entries
      /\ \A i \in 1..d : s[i] \in Entries
  BY ElementOfSeq
<1>2. \A x \in 1..n + d : t[x] = IF x <= k THEN r[x]
                                ELSE IF x <= k + d THEN s[x - k] ELSE r[x - d]
  BY <1>1 DEF t, Put
<1>3. t \in [1..n + d -> Entries]
  <2>1. t = [x \in 1..n + d |-> t[x]]
    BY DEF t, Put
  <2>2. ASSUME NEW x \in 1..n + d PROVE t[x] \in Entries
    <3>1. CASE x <= k
      BY <3>1, <1>1, <1>2
    <3>2. CASE x > k /\ x <= k + d
      BY <3>2, <1>1, <1>2, x - k \in 1..d
    <3>3. CASE x > k + d
      BY <3>3, <1>1, <1>2, x - d \in 1..n
    <3> QED BY <3>1, <3>2, <3>3, <1>1
  <2> HIDE DEF n, d
  <2> QED BY <2>1, <2>2
<1>4. t \in Seq(Entries) /\ Len(t) = n + d
  BY <1>1, <1>3, IndexedIsSeq
<1> HIDE DEF n, d
<1>5. ASSUME NEW x \in 1..n + d
      PROVE  \/ x <= k /\ x \in 1..n /\ t[x] = r[x]
             \/ x > k /\ x <= k + d /\ x - k \in 1..d /\ t[x] = s[x - k]
             \/ x > k + d /\ x - d \in 1..n /\ t[x] = r[x - d]
  BY <1>1, <1>2
<1>6. ASSUME NEW x \in 1..n + d, NEW y \in 1..n + d, t[x] = t[y]
      PROVE  x = y
  <2>1. \A i \in 1..n, j \in 1..d : r[i] # s[j]
    BY DEF n, d
  <2>2. \A i, j \in 1..n : r[i] = r[j] => i = j
    BY DEF OneToOne, n
  <2>3. \A i, j \in 1..d : s[i] = s[j] => i = j
    BY DEF OneToOne, d
  <2> DEFINE At(z) == \/ z <= k /\ z \in 1..n /\ t[z] = r[z]
                      \/ z > k /\ z <= k + d /\ z - k \in 1..d /\ t[z] = s[z - k]
                      \/ z > k + d /\ z - d \in 1..n /\ t[z] = r[z - d]
  <2>4. At(x) /\ At(y)
    BY <1>5
  <2>5. x \in Int /\ y \in Int /\ k \in Int /\ d \in Int
    BY <1>1
  <2>6. CASE x <= k
    BY <2>1, <2>2, <2>4, <2>5, <2>6, <1>6
  <2>7. CASE x > k /\ x <= k + d
    <3>1. ~(y <= k) /\ ~(y > k + d)
      BY <2>1, <2>4, <2>5, <2>7, <1>6
    <3>2. x - k = y - k
      BY <2>3, <2>4, <2>5, <2>7, <3>1, <1>6
    <3> QED BY <3>2, <2>5
  <2>8. CASE x > k + d
    <3>1. ~(y > k /\ y <= k + d)
      BY <2>1, <2>4, <2>5, <2>8, <1>6, <1>1
    <3>2. y > k + d => x - d = y - d
      BY <2>2, <2>4, <2>5, <2>8, <3>1, <1>6, <1>1
    <3>3. y <= k => x - d = y
      BY <2>2, <2>4, <2>5, <2>8, <3>1, <1>6, <1>1
    <3>4. ~(y <= k)
      BY <3>3, <2>5, <2>8, <1>1
    <3> QED BY <3>1, <3>2, <3>4, <2>5
  <2> QED BY <2>5, <2>6, <2>7, <2>8
<1>7. ASSUME NEW h, NEW x \in 0..n + d + 1
      PROVE  Place(h, t, x) = IF x <= k THEN Place(h, r, x)
                              ELSE IF x <= k + d THEN s[x - k] ELSE Place(h, r, x - d)
  <2>1. CASE x \in 1..n + d
    <3>1. Place(h, t, x) = t[x]
      BY <2>1, <1>4 DEF Place
    <3> QED BY <3>1, <2>1, <1>1, <1>5 DEF Place, n
  <2>2. CASE x = 0
    BY <2>2, <1>1, <1>4 DEF Place, n
  <2>3. CASE x = n + d + 1
    <3>1. Place(h, t, x) = h
      BY <2>3, <1>1, <1>4 DEF Place
    <3>2. ~(x <= k) /\ ~(x <= k + d) /\ x - d = n + 1
      BY <2>3, <1>1
    <3> QED BY <3>1, <3>2, <1>1 DEF Place, n
  <2> QED BY <2>1, <2>2, <2>3, <1>1
<1>8. ASSUME NEW x \in Entries
      PROVE  (\E i \in 1..n + d : t[i] = x)
                <=> (\E i \in 1..n : r[i] = x) \/ (\E i \in 1..d : s[i] = x)
  <2>1. ASSUME NEW i \in 1..n, r[i] = x PROVE \E y \in 1..n + d : t[y] = x
    <3>1. CASE i <= k
      <4>1. i \in 1..n + d
        BY <1>1
      <4> QED BY <4>1, <3>1, <2>1, <1>2
    <3>2. CASE i > k
      <4>1. i + d \in 1..n + d /\ ~(i + d <= k) /\ ~(i + d <= k + d) /\ i + d - d = i
        BY <3>2, <1>1
      <4>2. t[i + d] = r[i + d - d]
        BY <4>1, <1>1, <1>2
      <4>3. t[i + d] = x
        BY <4>1, <4>2, <2>1
      <4> QED BY <4>1, <4>3
    <3> QED BY <3>1, <3>2, <1>1
  <2>2. ASSUME NEW i \in 1..d, s[i] = x PROVE \E y \in 1..n + d : t[y] = x
    <3>1. i + k \in 1..n + d /\ ~(i + k <= k) /\ i + k <= k + d /\ i + k - k = i
      BY <1>1
    <3>2. t[i + k] = s[i]
      BY <3>1, <1>2
    <3> QED BY <3>1, <3>2, <2>2
  <2> QED BY <2>1, <2>2, <1>5
<1> QED BY <1>4, <1>6, <1>7, <1>8 DEF n, d, t, OneToOne

(***************************************************************************)
(* One Join of the neighbours of a segment closes the circle around it and *)
(* leaves the segment linked in itself: __list_del (list.h:118-122), and   *)
(* the first step of list_bulk_move_tail (list.h:252-253).                 *)
(***************************************************************************)
LEMMA ChainCut ==
  ASSUME NEW l \in LinksType, NEW h \in Heads, NEW r \in Seq(Entries), OneToOne(r),
         Chained(l, h, r), NEW i \in 1..Len(r), NEW j \in i..Len(r)
  PROVE  LET m == Join(l, Place(h, r, i - 1), Place(h, r, j + 1))
         IN  /\ m \in LinksType
             /\ Chained(m, h, Taken(r, i, j))
             /\ Loose(m, Segment(r, i, j))
             /\ Place(h, r, i - 1) \in Nodes /\ Place(h, r, j + 1) \in Nodes
<1> DEFINE n == Len(r)
           d == j - i + 1
           t == Taken(r, i, j)
           s == Segment(r, i, j)
           m == Join(l, Place(h, r, i - 1), Place(h, r, j + 1))
<1>1. /\ n \in Nat /\ d \in 1..n /\ n - d \in Nat /\ i \in 1..n /\ j \in 1..n /\ i - 1 \in 0..n
      /\ j + 1 \in 1..n + 1 /\ i <= j /\ i <= n - d + 1
  OBVIOUS
<1>2. d = j - i + 1
  OBVIOUS
<1>3. /\ \A x \in 0..n + 1 : Place(h, r, x) \in Nodes
      /\ \A x \in 1..n : Place(h, r, x) = r[x]
      /\ \A x, y \in 0..n : Place(h, r, x) = Place(h, r, y) => x = y
      /\ \A x, y \in 1..n + 1 : Place(h, r, x) = Place(h, r, y) => x = y
  BY Places
<1>4. /\ Len(t) = n - d
      /\ \A k \in 0..n - d + 1 : Place(h, t, k) = Place(h, r, IF k < i THEN k ELSE k + d)
      /\ Len(s) = d
      /\ \A k \in 1..d : s[k] = r[i + k - 1]
  BY TakenIs
<1>5. \A x \in 0..n : /\ l.next[Place(h, r, x)] = Place(h, r, x + 1)
                      /\ l.prev[Place(h, r, x + 1)] = Place(h, r, x)
  BY DEF Chained
<1> HIDE DEF n, d, t, s
<1>6. /\ Place(h, r, i - 1) \in Nodes /\ Place(h, r, j + 1) \in Nodes
      /\ m \in LinksType
      /\ \A x \in Nodes : m.next[x] = IF x = Place(h, r, i - 1) THEN Place(h, r, j + 1) ELSE l.next[x]
      /\ \A x \in Nodes : m.prev[x] = IF x = Place(h, r, j + 1) THEN Place(h, r, i - 1) ELSE l.prev[x]
  <2>1. Place(h, r, i - 1) \in Nodes /\ Place(h, r, j + 1) \in Nodes
    BY <1>1, <1>3
  <2> QED BY <2>1, JoinIs DEF Joined
<1> HIDE DEF m
<1>7. ASSUME NEW k \in 0..n - d
      PROVE  m.next[Place(h, t, k)] = Place(h, t, k + 1) /\ m.prev[Place(h, t, k + 1)] = Place(h, t, k)
  <2>1. CASE k = i - 1
    <3>1. Place(h, t, k) = Place(h, r, i - 1) /\ Place(h, t, k + 1) = Place(h, r, j + 1)
      BY <2>1, <1>1, <1>2, <1>4
    <3> QED BY <3>1, <1>6
  <2>2. CASE k # i - 1
    <3> DEFINE x == IF k < i THEN k ELSE k + d
    <3>1. x \in 0..n /\ x # i - 1 /\ x + 1 # j + 1 /\ x + 1 \in 1..n + 1 /\ x \in 0..n + 1
      BY <2>2, <1>1, <1>2
    <3>2. Place(h, t, k) = Place(h, r, x) /\ Place(h, t, k + 1) = Place(h, r, x + 1)
      <4>1. (IF k + 1 < i THEN k + 1 ELSE k + 1 + d) = x + 1
        BY <2>2, <1>1, <1>2
      <4> QED BY <4>1, <1>1, <1>4
    <3> HIDE DEF x
    <3>3. Place(h, r, x) # Place(h, r, i - 1) /\ Place(h, r, x + 1) # Place(h, r, j + 1)
      BY <3>1, <1>1, <1>3
    <3> QED BY <3>1, <3>2, <3>3, <1>3, <1>5, <1>6
  <2> QED BY <2>1, <2>2
<1>8. ASSUME NEW k \in 1..d - 1
      PROVE  m.next[s[k]] = s[k + 1] /\ m.prev[s[k + 1]] = s[k]
  <2> DEFINE x == i + k - 1
  <2>1. x \in 1..n /\ x + 1 \in 1..n /\ x # i - 1 /\ x + 1 # j + 1 /\ x \in 0..n
        /\ x + 1 \in 1..n + 1
    BY <1>1, <1>2
  <2>2. s[k] = Place(h, r, x) /\ s[k + 1] = Place(h, r, x + 1)
    <3>1. k \in 1..d /\ k + 1 \in 1..d /\ i + (k + 1) - 1 = x + 1
      BY <1>1
    <3> QED BY <3>1, <2>1, <1>3, <1>4
  <2> HIDE DEF x
  <2>3. Place(h, r, x) # Place(h, r, i - 1) /\ Place(h, r, x + 1) # Place(h, r, j + 1)
    BY <2>1, <1>1, <1>3
  <2>4. x \in 0..n + 1 /\ x + 1 \in 0..n + 1
    BY <2>1, <1>1
  <2> QED BY <2>1, <2>2, <2>3, <2>4, <1>3, <1>5, <1>6
<1> QED BY <1>4, <1>6, <1>7, <1>8 DEF m, s, t, n, d, Chained, Loose

(***************************************************************************)
(* Two Joins put a segment that is linked in itself into a circle:         *)
(* __list_add (list.h:71-82) with one entry, __list_splice                 *)
(* (list.h:404-416) with many.                                             *)
(***************************************************************************)
LEMMA ChainPut ==
  ASSUME NEW l \in LinksType, NEW h \in Heads, NEW r \in Seq(Entries), OneToOne(r),
         Chained(l, h, r), NEW k \in 0..Len(r),
         NEW s \in Seq(Entries), OneToOne(s), Loose(l, s), Len(s) > 0,
         \A i \in 1..Len(r), j \in 1..Len(s) : r[i] # s[j]
  PROVE  LET m == Join(Join(l, Place(h, r, k), s[1]), s[Len(s)], Place(h, r, k + 1))
         IN  m \in LinksType /\ Chained(m, h, Put(r, k, s))
<1> DEFINE n == Len(r)
           d == Len(s)
           t == Put(r, k, s)
           p == Place(h, r, k)
           q == Place(h, r, k + 1)
           m == Join(Join(l, p, s[1]), s[d], q)
<1>1. /\ n \in Nat /\ d \in Nat /\ d > 0 /\ n + d \in Nat /\ k \in 0..n /\ k \in Int
      /\ \A i \in 1..d : s[i] \in Entries
      /\ \A i \in 1..d : s[i] \in Nodes
  BY ElementOfSeq DEF Nodes
<1>2. /\ \A x \in 0..n + 1 : Place(h, r, x) \in Nodes
      /\ Place(h, r, 0) = h /\ Place(h, r, n + 1) = h
      /\ \A x \in 1..n : Place(h, r, x) = r[x]
      /\ \A x, y \in 0..n : Place(h, r, x) = Place(h, r, y) => x = y
      /\ \A x, y \in 1..n + 1 : Place(h, r, x) = Place(h, r, y) => x = y
  BY Places
<1>3. \A x \in 0..n : /\ l.next[Place(h, r, x)] = Place(h, r, x + 1)
                      /\ l.prev[Place(h, r, x + 1)] = Place(h, r, x)
  BY DEF Chained
<1>4. \A x \in 1..d - 1 : l.next[s[x]] = s[x + 1] /\ l.prev[s[x + 1]] = s[x]
  BY DEF Loose
<1>5. \A x \in 0..n + 1, y \in 1..d : Place(h, r, x) # s[y]
  <2> TAKE x \in 0..n + 1, y \in 1..d
  <2>1. s[y] # h
    BY <1>1, NodesAssumption
  <2>2. CASE x \in 1..n
    BY <2>2, <1>2
  <2>3. CASE x = 0 \/ x = n + 1
    BY <2>1, <2>3, <1>2
  <2> QED BY <2>2, <2>3, <1>1
<1>6. /\ Len(t) = n + d
      /\ \A x \in 0..n + d + 1 :
           Place(h, t, x) = IF x <= k THEN Place(h, r, x)
                            ELSE IF x <= k + d THEN s[x - k] ELSE Place(h, r, x - d)
  BY PutIs
<1>7. \A x, y \in 1..d : s[x] = s[y] => x = y
  BY DEF OneToOne
<1>10. \A x \in 0..n + d + 1 :
         /\ x <= k => Place(h, t, x) = Place(h, r, x)
         /\ \A y \in Int : x = y + k /\ ~(x <= k) /\ x <= k + d => Place(h, t, x) = s[y]
         /\ \A y \in Int : x = y + d /\ ~(x <= k + d) => Place(h, t, x) = Place(h, r, y)
  <2> TAKE x \in 0..n + d + 1
  <2>1. x <= k => Place(h, t, x) = Place(h, r, x)
    BY <1>6
  <2>2. ~(x <= k) /\ x <= k + d => Place(h, t, x) = s[x - k]
    BY <1>6
  <2>3. ~(x <= k) /\ ~(x <= k + d) => Place(h, t, x) = Place(h, r, x - d)
    BY <1>6
  <2> HIDE DEF t, n, d
  <2> QED BY <2>1, <2>2, <2>3, <1>1
<1> HIDE DEF n, d, t
<1>8. /\ p \in Nodes /\ q \in Nodes /\ s[1] \in Nodes /\ s[d] \in Nodes
      /\ m \in LinksType
      /\ \A x \in Nodes : m.next[x] = IF x = s[d] THEN q ELSE IF x = p THEN s[1] ELSE l.next[x]
      /\ \A x \in Nodes : m.prev[x] = IF x = q THEN s[d] ELSE IF x = s[1] THEN p ELSE l.prev[x]
  <2>1. p \in Nodes /\ q \in Nodes /\ s[1] \in Nodes /\ s[d] \in Nodes
    BY <1>1, <1>2
  <2> DEFINE o == Join(l, p, s[1])
  <2>2. Joined(o, l, p, s[1])
    BY <2>1, JoinIs
  <2>3. Joined(m, o, s[d], q)
    <3> HIDE DEF o, p, q
    <3>1. o \in LinksType
      BY <2>2 DEF Joined
    <3>2. Joined(Join(o, s[d], q), o, s[d], q)
      BY <2>1, <3>1, JoinIs
    <3> QED BY <3>2 DEF o
  <2> HIDE DEF m, o, p, q
  <2> QED BY <2>1, <2>2, <2>3 DEF Joined
<1> HIDE DEF m
<1>9. ASSUME NEW x \in 0..n + d
      PROVE  m.next[Place(h, t, x)] = Place(h, t, x + 1) /\ m.prev[Place(h, t, x + 1)] = Place(h, t, x)
  <2>0. x \in Int /\ x \in 0..n + d + 1 /\ x + 1 \in 0..n + d + 1
    BY <1>1
  <2>1. CASE x < k
    <3>1. x \in 0..n /\ x + 1 \in 1..n + 1 /\ x # k /\ x + 1 # k + 1 /\ x + 1 <= k /\ x <= k
          /\ x \in 0..n + 1 /\ x + 1 \in 0..n + 1 /\ k + 1 \in 1..n + 1
      BY <2>0, <2>1, <1>1
    <3>2. Place(h, t, x) = Place(h, r, x) /\ Place(h, t, x + 1) = Place(h, r, x + 1)
      BY <2>0, <3>1, <1>6
    <3>3. Place(h, r, x) # p /\ Place(h, r, x + 1) # q
      BY <3>1, <1>1, <1>2
    <3>4. Place(h, r, x) # s[d] /\ Place(h, r, x + 1) # s[1]
      BY <3>1, <1>1, <1>5
    <3> HIDE DEF p, q
    <3> QED BY <3>1, <3>2, <3>3, <3>4, <1>2, <1>3, <1>8
  <2>2. CASE x = k
    <3>1. Place(h, t, x) = p /\ Place(h, t, x + 1) = s[1]
      BY <2>0, <2>2, <1>1, <1>6
    <3>2. p # s[d] /\ q # s[1]
      BY <1>1, <1>5, k \in 0..n + 1, k + 1 \in 0..n + 1
    <3> HIDE DEF p, q
    <3> QED BY <3>1, <3>2, <1>8
  <2>3. CASE x > k /\ x < k + d
    <3> DEFINE y == x - k
    <3>1. y \in 1..d - 1 /\ y \in 1..d /\ y + 1 \in 1..d /\ y # d /\ y + 1 # 1 /\ x + 1 - k = y + 1
      BY <2>0, <2>3, <1>1
    <3>2. Place(h, t, x) = s[y] /\ Place(h, t, x + 1) = s[y + 1]
      <4>1. ~(x <= k) /\ x <= k + d /\ ~(x + 1 <= k) /\ x + 1 <= k + d
        BY <2>0, <2>3, <1>1
      <4> QED BY <4>1, <2>0, <3>1, <1>6
    <3> HIDE DEF y
    <3>3. s[y] # s[d] /\ s[y + 1] # s[1]
      BY <3>1, <1>1, <1>7
    <3>4. s[y] # p /\ s[y + 1] # q
      BY <3>1, <1>1, <1>5, k \in 0..n + 1, k + 1 \in 0..n + 1
    <3> HIDE DEF p, q
    <3>5. s[y] \in Nodes /\ s[y + 1] \in Nodes
      BY <3>1, <1>1
    <3>6. m.next[s[y]] = l.next[s[y]] /\ m.prev[s[y + 1]] = l.prev[s[y + 1]]
      BY <3>3, <3>4, <3>5, <1>8
    <3> QED BY <3>1, <3>2, <3>6, <1>4
  <2>4. CASE x = k + d
    <3>1. Place(h, t, x) = s[d]
      <4>1. ~(x <= k) /\ x <= k + d /\ x - k = d
        BY <2>0, <2>4, <1>1
      <4> QED BY <4>1, <2>0, <1>6
    <3>2. Place(h, t, x + 1) = q
      <4>1. ~(x + 1 <= k + d) /\ x + 1 = (k + 1) + d /\ k + 1 \in Int
        BY <2>0, <2>4, <1>1
      <4> QED BY <4>1, <2>0, <1>10
    <3> HIDE DEF p, q
    <3> QED BY <3>1, <3>2, <1>8
  <2>5. CASE x > k + d
    <3> DEFINE y == x - d
    <3>1. /\ y \in 0..n /\ y + 1 \in 1..n + 1 /\ y # k /\ y + 1 # k + 1 /\ x + 1 - d = y + 1
          /\ y \in 0..n + 1 /\ y + 1 \in 0..n + 1 /\ k + 1 \in 1..n + 1
      BY <2>0, <2>5, <1>1
    <3>2. Place(h, t, x) = Place(h, r, y) /\ Place(h, t, x + 1) = Place(h, r, y + 1)
      <4>1. /\ ~(x <= k + d) /\ ~(x + 1 <= k + d) /\ x = y + d /\ x + 1 = (y + 1) + d
            /\ y \in Int /\ y + 1 \in Int
        BY <2>0, <2>5, <1>1
      <4> HIDE DEF y
      <4> QED BY <4>1, <2>0, <1>10
    <3> HIDE DEF y
    <3>3. Place(h, r, y) # p /\ Place(h, r, y + 1) # q
      BY <3>1, <1>1, <1>2
    <3>4. Place(h, r, y) # s[d] /\ Place(h, r, y + 1) # s[1]
      BY <3>1, <1>1, <1>5
    <3> HIDE DEF p, q
    <3> QED BY <3>1, <3>2, <3>3, <3>4, <1>2, <1>3, <1>8, SMTT(30)
  <2> QED BY <2>0, <2>1, <2>2, <2>3, <2>4, <2>5, <1>1
<1> QED BY <1>6, <1>8, <1>9 DEF m, t, n, d, Chained

\* The links lay these rows out: each is a circle, and no entry is in two.
Laid(l, rows) ==
  /\ l \in LinksType
  /\ DOMAIN rows \subseteq Heads
  /\ rows \in [DOMAIN rows -> Seq(Entries)]
  /\ \A h \in DOMAIN rows : OneToOne(rows[h]) /\ Chained(l, h, rows[h])
  /\ \A g, h \in DOMAIN rows : \A i \in 1..Len(rows[g]), j \in 1..Len(rows[h]) :
       rows[g][i] = rows[h][j] => g = h

\* The entries of a row.
Standing(r) == {r[i] : i \in 1..Len(r)}

\* The entries of all rows.
Listed(rows)  == UNION {Standing(rows[h]) : h \in DOMAIN rows}

\* The heads that have a row, and the entries in these rows.
Covered(rows) == DOMAIN rows \cup Listed(rows)

\* The entries of all rows but that of h.
Others(rows, h) == UNION {Standing(rows[g]) : g \in DOMAIN rows \ {h}}

\* The rows, with r for the row of h.
RowAt(rows, h, r) == [g \in DOMAIN rows \cup {h} |-> IF g = h THEN r ELSE rows[g]]

(***************************************************************************)
(* The rows of a state cover heads and entries that are nodes, and no      *)
(* entry stands in two rows.                                               *)
(***************************************************************************)
LEMMA CoveredIs ==
  ASSUME NEW l, NEW rows, Laid(l, rows)
  PROVE  /\ Covered(rows) \subseteq Nodes
         /\ Covered(rows) \cap Heads = DOMAIN rows
         /\ Covered(rows) \cap Entries = Listed(rows)
         /\ \A h \in DOMAIN rows : /\ rows[h] \in Seq(Entries)
                                   /\ Standing(rows[h]) \subseteq Entries
                                   /\ Standing(rows[h]) \subseteq Covered(rows)
         /\ \A g, h \in DOMAIN rows : g # h => Standing(rows[g]) \cap Standing(rows[h]) = {}
<1>1. \A h \in DOMAIN rows : rows[h] \in Seq(Entries)
  BY DEF Laid
<1>2. \A h \in DOMAIN rows : \A i \in 1..Len(rows[h]) : rows[h][i] \in Entries
  BY <1>1, ElementOfSeq
<1>3. \A h \in DOMAIN rows : Standing(rows[h]) \subseteq Entries
  BY <1>2 DEF Standing
<1>4. Listed(rows) \subseteq Entries
  BY <1>3 DEF Listed
<1>5. \A g, h \in DOMAIN rows : g # h => Standing(rows[g]) \cap Standing(rows[h]) = {}
  BY DEF Standing, Laid
<1>6. \A h \in DOMAIN rows : Standing(rows[h]) \subseteq Covered(rows)
  BY DEF Covered, Listed
<1>7. DOMAIN rows \subseteq Heads
  BY DEF Laid
<1> QED BY <1>1, <1>3, <1>4, <1>5, <1>6, <1>7, NodesAssumption DEF Covered, Nodes

(***************************************************************************)
(* Every place of a row is its head or one of its entries.                 *)
(***************************************************************************)
LEMMA PlaceCovered ==
  ASSUME NEW l, NEW rows, Laid(l, rows), NEW h \in DOMAIN rows
  PROVE  /\ \A i \in 0..Len(rows[h]) + 1 : Place(h, rows[h], i) \in {h} \cup Standing(rows[h])
         /\ {h} \cup Standing(rows[h]) \subseteq Covered(rows)
<1>1. Len(rows[h]) \in Nat
  BY DEF Laid
<1>2. \A i \in Int : Place(h, rows[h], i) \in {h} \cup Standing(rows[h])
  BY DEF Place, Standing
<1> QED BY <1>1, <1>2 DEF Covered, Listed

(***************************************************************************)
(* A circle stays linked while the links of its own nodes stay as they     *)
(* are.                                                                    *)
(***************************************************************************)
LEMMA ChainFrame ==
  ASSUME NEW l, NEW m, NEW h, NEW r, Len(r) \in Nat, Chained(l, h, r),
         \A x \in {h} \cup Standing(r) : m.next[x] = l.next[x] /\ m.prev[x] = l.prev[x]
  PROVE  Chained(m, h, r)
<1>1. \A i \in 0..Len(r) + 1 : Place(h, r, i) \in {h} \cup Standing(r)
  BY DEF Place, Standing
<1>2. \A i \in 0..Len(r) : i \in 0..Len(r) + 1 /\ i + 1 \in 0..Len(r) + 1
  OBVIOUS
<1> QED BY <1>1, <1>2 DEF Chained

(***************************************************************************)
(* The rows stay laid out while the links of what they cover stay as they  *)
(* are: nothing else needs to be said of nodes that are on no list.        *)
(***************************************************************************)
LEMMA LaidFrame ==
  ASSUME NEW l, NEW rows, Laid(l, rows), NEW m \in LinksType,
         \A x \in Covered(rows) : m.next[x] = l.next[x] /\ m.prev[x] = l.prev[x]
  PROVE  Laid(m, rows)
<1>1. ASSUME NEW h \in DOMAIN rows PROVE Chained(m, h, rows[h])
  <2>1. {h} \cup Standing(rows[h]) \subseteq Covered(rows) /\ Len(rows[h]) \in Nat
    BY PlaceCovered, CoveredIs
  <2>2. Chained(l, h, rows[h])
    BY DEF Laid
  <2> QED BY <2>1, <2>2, ChainFrame
<1> QED BY <1>1 DEF Laid

(***************************************************************************)
(* One row may change on its own: if its new circle is linked, shares      *)
(* nothing with the others, and their links stay, then all rows are laid   *)
(* out.                                                                    *)
(***************************************************************************)
LEMMA LaidRow ==
  ASSUME NEW l, NEW rows, Laid(l, rows), NEW m \in LinksType,
         NEW h \in Heads, NEW r \in Seq(Entries), OneToOne(r), Chained(m, h, r),
         \A g \in DOMAIN rows \ {h} : Standing(rows[g]) \cap Standing(r) = {},
         \A g \in DOMAIN rows \ {h} : \A x \in {g} \cup Standing(rows[g]) :
           m.next[x] = l.next[x] /\ m.prev[x] = l.prev[x]
  PROVE  Laid(m, RowAt(rows, h, r))
<1> DEFINE new == RowAt(rows, h, r)
<1>1. /\ DOMAIN new = DOMAIN rows \cup {h}
      /\ new[h] = r
      /\ \A g \in DOMAIN rows \ {h} : new[g] = rows[g]
      /\ new = [g \in DOMAIN new |-> new[g]]
  BY DEF RowAt
<1> HIDE DEF new
<1>2. DOMAIN new \subseteq Heads
  BY <1>1 DEF Laid
<1>3. \A g \in DOMAIN new : new[g] \in Seq(Entries)
  BY <1>1 DEF Laid
<1>4. ASSUME NEW g \in DOMAIN new PROVE OneToOne(new[g]) /\ Chained(m, g, new[g])
  <2>1. CASE g = h
    BY <2>1, <1>1
  <2>2. CASE g # h
    <3>1. g \in DOMAIN rows \ {h} /\ new[g] = rows[g]
      BY <2>2, <1>1
    <3>2. OneToOne(rows[g]) /\ Chained(l, g, rows[g]) /\ Len(rows[g]) \in Nat
      BY <3>1 DEF Laid
    <3>3. Chained(m, g, rows[g])
      BY <3>1, <3>2, ChainFrame
    <3> QED BY <3>1, <3>2, <3>3
  <2> QED BY <2>1, <2>2
<1>5. \A f, g \in DOMAIN new : f # g => Standing(new[f]) \cap Standing(new[g]) = {}
  <2>1. \A f, g \in DOMAIN rows : f # g => Standing(rows[f]) \cap Standing(rows[g]) = {}
    BY CoveredIs
  <2>2. \A f \in DOMAIN new : f = h \/ f \in DOMAIN rows \ {h}
    BY <1>1
  <2>3. ASSUME NEW f \in DOMAIN new, NEW g \in DOMAIN new, f # g
        PROVE  Standing(new[f]) \cap Standing(new[g]) = {}
    <3>1. CASE f = h
      <4>1. new[f] = r /\ g \in DOMAIN rows \ {h} /\ new[g] = rows[g]
        BY <3>1, <2>3, <2>2, <1>1
      <4> QED BY <4>1
    <3>2. CASE g = h
      <4>1. new[g] = r /\ f \in DOMAIN rows \ {h} /\ new[f] = rows[f]
        BY <3>2, <2>3, <2>2, <1>1
      <4> QED BY <4>1
    <3>3. CASE f # h /\ g # h
      <4>1. /\ f \in DOMAIN rows /\ new[f] = rows[f]
            /\ g \in DOMAIN rows /\ new[g] = rows[g]
        BY <3>3, <2>2, <1>1
      <4> QED BY <4>1, <2>1, <2>3
    <3> QED BY <3>1, <3>2, <3>3
  <2> QED BY <2>3
<1>6. \A f, g \in DOMAIN new : \A i \in 1..Len(new[f]), j \in 1..Len(new[g]) :
         new[f][i] = new[g][j] => f = g
  <2> TAKE f, g \in DOMAIN new
  <2> TAKE i \in 1..Len(new[f]), j \in 1..Len(new[g])
  <2>1. new[f][i] \in Standing(new[f]) /\ new[g][j] \in Standing(new[g])
    BY DEF Standing
  <2> QED BY <2>1, <1>5
<1>7. new \in [DOMAIN new -> Seq(Entries)]
  BY <1>1, <1>3
<1> QED BY <1>2, <1>4, <1>6, <1>7 DEF Laid, new

\* How new differs from rows if only the row of h became r.
ChangedAt(new, rows, h, r) ==
  /\ DOMAIN new = DOMAIN rows \cup {h}
  /\ new[h] = r
  /\ \A g \in DOMAIN rows \ {h} : new[g] = rows[g]
  /\ Listed(new) = Standing(r) \cup Others(rows, h)
  /\ h \in DOMAIN rows => Listed(rows) = Standing(rows[h]) \cup Others(rows, h)
  /\ h \notin DOMAIN rows => Listed(rows) = Others(rows, h)

(***************************************************************************)
(* What is listed when one row is replaced.                                *)
(***************************************************************************)
LEMMA RowCovered ==
  ASSUME NEW rows, NEW h, NEW r
  PROVE  ChangedAt(RowAt(rows, h, r), rows, h, r)
BY DEF ChangedAt, RowAt, Listed, Others

\* What is left, and what is loose, after positions i to j of the row of h
\* went out.
CutsOut(l, rows, h, i, j) ==
  LET r   == rows[h]
      p   == Place(h, r, i - 1)
      q   == Place(h, r, j + 1)
      m   == Join(l, p, q)
      s   == Segment(r, i, j)
      new == RowAt(rows, h, Taken(r, i, j))
  IN  /\ Joined(m, l, p, q) /\ p \in Covered(rows) /\ q \in Covered(rows)
      /\ Laid(m, new)
      /\ Loose(m, s) /\ OneToOne(s) /\ s \in Seq(Entries) /\ Len(s) = j - i + 1
      /\ DOMAIN new = DOMAIN rows
      /\ Standing(s) \cap Listed(new) = {}
      /\ Listed(rows) = Listed(new) \cup Standing(s)

(***************************************************************************)
(* A segment goes out of the row of h; all other rows stay.                *)
(***************************************************************************)
LEMMA CutOut ==
  ASSUME NEW l, NEW rows, Laid(l, rows), NEW h \in DOMAIN rows,
         NEW i \in 1..Len(rows[h]), NEW j \in i..Len(rows[h])
  PROVE  CutsOut(l, rows, h, i, j)
<1> DEFINE r == rows[h]
           p == Place(h, r, i - 1)
           q == Place(h, r, j + 1)
           m == Join(l, p, q)
           s == Segment(r, i, j)
           t == Taken(r, i, j)
           new == RowAt(rows, h, t)
<1>1. /\ l \in LinksType /\ h \in Heads /\ r \in Seq(Entries) /\ OneToOne(r) /\ Chained(l, h, r)
      /\ i \in 1..Len(r) /\ j \in i..Len(r)
  BY DEF Laid
<1>2. m \in LinksType /\ Chained(m, h, t) /\ Loose(m, s) /\ p \in Nodes /\ q \in Nodes
  <2> HIDE DEF r
  <2> QED BY <1>1, ChainCut
<1>3. /\ t \in Seq(Entries) /\ OneToOne(t)
      /\ s \in Seq(Entries) /\ OneToOne(s) /\ Len(s) = j - i + 1
      /\ Standing(r) \cap Entries = (Standing(t) \cup Standing(s)) \cap Entries
      /\ Standing(t) \cap Standing(s) = {}
  <2> HIDE DEF r
  <2>0. r \in Seq(Entries) /\ OneToOne(r) /\ i \in 1..Len(r) /\ j \in i..Len(r)
    BY <1>1
  <2>1. /\ t \in Seq(Entries) /\ OneToOne(t)
        /\ s \in Seq(Entries) /\ OneToOne(s) /\ Len(s) = j - i + 1
    BY <2>0, TakenIs
  <2>2. \A x \in Entries :
          (\E k \in 1..Len(r) : r[k] = x)
            <=> (\E k \in 1..Len(t) : t[k] = x) \/ (\E k \in 1..Len(s) : s[k] = x)
    BY <2>0, TakenIs
  <2>3. \A k \in 1..Len(t), n \in 1..Len(s) : t[k] # s[n]
    BY <2>0, TakenIs
  <2> HIDE DEF t, s
  <2>4. Standing(r) \cap Entries = (Standing(t) \cup Standing(s)) \cap Entries
    BY <2>2 DEF Standing
  <2>5. Standing(t) \cap Standing(s) = {}
    BY <2>3 DEF Standing
  <2> QED BY <2>1, <2>4, <2>5
<1>4. Joined(m, l, p, q)
  BY <1>1, <1>2, JoinIs
<1>5. /\ p \in {h} \cup Standing(r) /\ q \in {h} \cup Standing(r)
      /\ {h} \cup Standing(r) \subseteq Covered(rows)
  BY <1>1, PlaceCovered
<1>6. /\ Standing(r) \subseteq Entries /\ Standing(t) \subseteq Entries
      /\ Standing(s) \subseteq Entries
  <2>1. \A x \in {r, t, s} : \A k \in 1..Len(x) : x[k] \in Entries
    BY <1>1, <1>3, ElementOfSeq
  <2> HIDE DEF r, t, s
  <2> QED BY <2>1 DEF Standing
<1>7. Standing(r) = Standing(t) \cup Standing(s)
  BY <1>3, <1>6
<1>8. \A g \in DOMAIN rows \ {h} : /\ Standing(rows[g]) \cap Standing(r) = {}
                                   /\ g \in Heads /\ Standing(rows[g]) \subseteq Nodes
                                   /\ h \notin Standing(rows[g]) /\ g \notin Standing(r)
  <2>1. \A g \in DOMAIN rows \ {h} : /\ Standing(rows[g]) \cap Standing(r) = {}
                                     /\ Standing(rows[g]) \subseteq Entries
    BY CoveredIs
  <2>2. DOMAIN rows \subseteq Heads
    BY DEF Laid
  <2> QED BY <2>1, <2>2, <1>1, <1>6, NodesAssumption DEF Nodes
<1> HIDE DEF CutsOut, r, p, q, m, s, t
<1>9. \A g \in DOMAIN rows \ {h} : \A x \in {g} \cup Standing(rows[g]) :
         m.next[x] = l.next[x] /\ m.prev[x] = l.prev[x]
  BY <1>4, <1>5, <1>8 DEF Joined, Nodes
<1>10. Laid(m, new)
  <2>1. \A g \in DOMAIN rows \ {h} : Standing(rows[g]) \cap Standing(t) = {}
    BY <1>7, <1>8
  <2> QED BY <2>1, <1>1, <1>2, <1>3, <1>9, LaidRow
<1>11. /\ DOMAIN new = DOMAIN rows
       /\ Listed(new) = Standing(t) \cup Others(rows, h)
       /\ Listed(rows) = Standing(r) \cup Others(rows, h)
  <2>1. ChangedAt(new, rows, h, t)
    BY RowCovered
  <2> HIDE DEF new
  <2> QED BY <2>1 DEF ChangedAt, r
<1>13. Standing(s) \cap Listed(new) = {} /\ Listed(rows) = Listed(new) \cup Standing(s)
  <2> HIDE DEF new
  <2> QED BY <1>3, <1>7, <1>8, <1>11 DEF Others
<1> QED BY <1>2, <1>3, <1>4, <1>5, <1>10, <1>11, <1>13 DEF CutsOut, r, p, q, m, s, t

\* The rows, and what they cover, after s was put in behind position k of the
\* row of h.
PutsIn(l, rows, h, k, s) ==
  LET r   == rows[h]
      p   == Place(h, r, k)
      q   == Place(h, r, k + 1)
      o   == Join(l, p, s[1])
      m   == Join(o, s[Len(s)], q)
      new == RowAt(rows, h, Put(r, k, s))
  IN  /\ Joined(o, l, p, s[1]) /\ Joined(m, o, s[Len(s)], q)
      /\ p \in Covered(rows) /\ q \in Covered(rows)
      /\ Laid(m, new)
      /\ DOMAIN new = DOMAIN rows
      /\ Listed(new) = Listed(rows) \cup Standing(s)

(***************************************************************************)
(* A segment that stands nowhere goes into the row of h; all other rows    *)
(* stay.                                                                   *)
(***************************************************************************)
LEMMA PutIn ==
  ASSUME NEW l, NEW rows, Laid(l, rows), NEW h \in DOMAIN rows, NEW k \in 0..Len(rows[h]),
         NEW s \in Seq(Entries), OneToOne(s), Loose(l, s), Len(s) > 0,
         Standing(s) \cap Listed(rows) = {}
  PROVE  PutsIn(l, rows, h, k, s)
<1> DEFINE r == rows[h]
           p == Place(h, r, k)
           q == Place(h, r, k + 1)
           a == s[1]
           b == s[Len(s)]
           o == Join(l, p, a)
           m == Join(o, b, q)
           t == Put(r, k, s)
           new == RowAt(rows, h, t)
<1>1. /\ l \in LinksType /\ h \in Heads /\ r \in Seq(Entries) /\ OneToOne(r) /\ Chained(l, h, r)
      /\ k \in 0..Len(r)
  BY DEF Laid
<1>2. /\ \A i \in 1..Len(r) : r[i] \in Standing(r)
      /\ \A i \in 1..Len(s) : s[i] \in Standing(s)
      /\ Standing(r) \subseteq Listed(rows)
      /\ 1 \in 1..Len(s) /\ Len(s) \in 1..Len(s)
  BY DEF Standing, Listed
<1>3. \A i \in 1..Len(r), j \in 1..Len(s) : r[i] # s[j]
  BY <1>2
<1>4. m \in LinksType /\ Chained(m, h, t)
  <2> HIDE DEF r
  <2> QED BY <1>1, <1>3, ChainPut
<1>5. /\ t \in Seq(Entries) /\ OneToOne(t) /\ Len(t) = Len(r) + Len(s)
      /\ \A x \in Entries :
              (\E i \in 1..Len(t) : t[i] = x)
                <=> (\E i \in 1..Len(r) : r[i] = x) \/ (\E i \in 1..Len(s) : s[i] = x)
  <2> HIDE DEF r, t
  <2>1. /\ t \in Seq(Entries)
        /\ OneToOne(t)
        /\ Len(t) = Len(r) + Len(s)
    BY <1>1, <1>3, PutIs DEF t
  <2>2. \A x \in Entries :
              (\E i \in 1..Len(r) + Len(s) : t[i] = x)
                <=> (\E i \in 1..Len(r) : r[i] = x) \/ (\E i \in 1..Len(s) : s[i] = x)
    BY <1>1, <1>3, PutIs DEF t
  <2> QED BY <2>1, <2>2
<1>6. /\ Standing(r) \subseteq Entries /\ Standing(t) \subseteq Entries
      /\ Standing(s) \subseteq Entries
  <2>1. \A x \in {r, t, s} : \A i \in 1..Len(x) : x[i] \in Entries
    BY <1>1, <1>5, ElementOfSeq
  <2> HIDE DEF r, t
  <2> QED BY <2>1 DEF Standing
<1>7. Standing(t) = Standing(r) \cup Standing(s)
  <2> HIDE DEF r, t
  <2> QED BY <1>5, <1>6 DEF Standing
<1>8. /\ p \in {h} \cup Standing(r) /\ q \in {h} \cup Standing(r)
      /\ {h} \cup Standing(r) \subseteq Covered(rows)
  BY <1>1, PlaceCovered
<1>9. p \in Nodes /\ q \in Nodes /\ a \in Nodes /\ b \in Nodes /\ h \in Nodes
  BY <1>1, <1>2, <1>6, <1>8 DEF Nodes
<1>10. Joined(o, l, p, a) /\ Joined(m, o, b, q)
  <2>1. Joined(o, l, p, a)
    BY <1>1, <1>9, JoinIs
  <2>2. o \in LinksType
    BY <2>1 DEF Joined
  <2> HIDE DEF o, a, b, p, q
  <2>3. Joined(Join(o, b, q), o, b, q)
    BY <2>2, <1>9, JoinIs
  <2> QED BY <2>1, <2>3
<1>11. \A g \in DOMAIN rows \ {h} : /\ Standing(rows[g]) \cap Standing(r) = {}
                                    /\ Standing(rows[g]) \cap Standing(s) = {}
                                    /\ g \in Heads /\ Standing(rows[g]) \subseteq Nodes
                                    /\ h \notin Standing(rows[g]) /\ g \notin Standing(r)
                                    /\ g \notin Standing(s)
  <2>1. \A g \in DOMAIN rows \ {h} : /\ Standing(rows[g]) \cap Standing(r) = {}
                                     /\ Standing(rows[g]) \subseteq Entries
    BY CoveredIs
  <2>2. DOMAIN rows \subseteq Heads
    BY DEF Laid
  <2>3. \A g \in DOMAIN rows : Standing(rows[g]) \subseteq Listed(rows)
    BY DEF Listed
  <2> QED BY <2>1, <2>2, <2>3, <1>1, <1>6, NodesAssumption DEF Nodes
<1>12. a \in Standing(s) /\ b \in Standing(s)
  BY <1>2
<1> HIDE DEF r, p, q, m, o, t, a, b
<1>13. \A g \in DOMAIN rows \ {h} : \A x \in {g} \cup Standing(rows[g]) :
         m.next[x] = l.next[x] /\ m.prev[x] = l.prev[x]
  <2>1. ASSUME NEW g \in DOMAIN rows \ {h}, NEW x \in {g} \cup Standing(rows[g])
        PROVE  x \in Nodes /\ x # p /\ x # q /\ x # a /\ x # b
    BY <1>8, <1>11, <1>12 DEF Nodes
  <2> QED BY <2>1, <1>10 DEF Joined
<1>14. Laid(m, new)
  <2>1. \A g \in DOMAIN rows \ {h} : Standing(rows[g]) \cap Standing(t) = {}
    BY <1>7, <1>11
  <2> QED BY <2>1, <1>1, <1>4, <1>5, <1>13, LaidRow
<1>15. /\ DOMAIN new = DOMAIN rows
       /\ Listed(new) = Standing(t) \cup Others(rows, h)
       /\ Listed(rows) = Standing(r) \cup Others(rows, h)
  <2>1. ChangedAt(new, rows, h, t)
    BY RowCovered
  <2> HIDE DEF new
  <2> QED BY <2>1 DEF ChangedAt, r
<1>16. Listed(new) = Listed(rows) \cup Standing(s)
  <2> HIDE DEF new
  <2> QED BY <1>7, <1>15
<1> QED BY <1>8, <1>10, <1>14, <1>15, <1>16 DEF PutsIn, r, p, q, o, m, t, a, b

\* The rows without that of g.
WithoutHead(rows, g) == [h \in DOMAIN rows \ {g} |-> rows[h]]

(***************************************************************************)
(* A head whose row is given up, as list_splice and list_replace do,       *)
(* leaves its entries linked to each other but on no list.                 *)
(***************************************************************************)
LEMMA HeadDropped ==
  ASSUME NEW l, NEW rows, Laid(l, rows), NEW g \in DOMAIN rows
  PROVE  /\ Laid(l, WithoutHead(rows, g))
         /\ DOMAIN WithoutHead(rows, g) = DOMAIN rows \ {g}
         /\ Loose(l, rows[g]) /\ OneToOne(rows[g]) /\ rows[g] \in Seq(Entries)
         /\ Standing(rows[g]) \cap Listed(WithoutHead(rows, g)) = {}
         /\ Listed(rows) = Listed(WithoutHead(rows, g)) \cup Standing(rows[g])
<1> DEFINE new == WithoutHead(rows, g)
           r   == rows[g]
<1>1. /\ DOMAIN new = DOMAIN rows \ {g}
      /\ \A h \in DOMAIN new : new[h] = rows[h]
      /\ new \in [DOMAIN new -> Seq(Entries)]
  BY DEF WithoutHead, Laid
<1>2. r \in Seq(Entries) /\ OneToOne(r) /\ Chained(l, g, r) /\ Len(r) \in Nat
  BY DEF Laid
<1> HIDE DEF new
<1>3. Laid(l, new)
  BY <1>1 DEF Laid
<1>4. Loose(l, r)
  <2> HIDE DEF r
  <2>1. ASSUME NEW i \in 1..Len(r) - 1
        PROVE  l.next[r[i]] = r[i + 1] /\ l.prev[r[i + 1]] = r[i]
    <3>1. i \in 0..Len(r) /\ i \in 1..Len(r) /\ i + 1 \in 1..Len(r)
      BY <1>2
    <3>2. Place(g, r, i) = r[i] /\ Place(g, r, i + 1) = r[i + 1]
      BY <3>1 DEF Place
    <3> QED BY <3>1, <3>2, <1>2 DEF Chained
  <2> QED BY <2>1 DEF Loose
<1>5. Listed(new) = Others(rows, g)
  BY <1>1 DEF Listed, Others
<1>6. Listed(rows) = Standing(r) \cup Others(rows, g)
  BY RowCovered DEF ChangedAt
<1>7. Standing(r) \cap Others(rows, g) = {}
  BY CoveredIs DEF Others
<1> HIDE DEF r
<1> QED BY <1>1, <1>2, <1>3, <1>4, <1>5, <1>6, <1>7 DEF new, r

(***************************************************************************)
(* INIT_LIST_HEAD gives a head without entries the empty row               *)
(* (list.h:48-52).                                                         *)
(***************************************************************************)
LEMMA HeadInitialized ==
  ASSUME NEW l, NEW rows, Laid(l, rows), NEW h \in Heads,
         h \in DOMAIN rows => rows[h] = <<>>
  PROVE  /\ Joined(INIT_LIST_HEAD(l, h), l, h, h)
         /\ Laid(INIT_LIST_HEAD(l, h), RowAt(rows, h, <<>>))
         /\ DOMAIN RowAt(rows, h, <<>>) = DOMAIN rows \cup {h}
         /\ RowAt(rows, h, <<>>)[h] = <<>>
         /\ Listed(RowAt(rows, h, <<>>)) = Listed(rows)
<1> DEFINE m == INIT_LIST_HEAD(l, h)
           new == RowAt(rows, h, <<>>)
<1>1. l \in LinksType /\ h \in Nodes /\ DOMAIN rows \subseteq Heads
  BY DEF Laid, Nodes
<1>2. Joined(m, l, h, h)
  BY <1>1, JoinIs DEF INIT_LIST_HEAD
<1> HIDE DEF m
<1>3. m \in LinksType /\ m.next[h] = h /\ m.prev[h] = h
  BY <1>1, <1>2 DEF Joined
<1>4. Chained(m, h, <<>>) /\ OneToOne(<<>>) /\ <<>> \in Seq(Entries) /\ Standing(<<>>) = {}
  BY <1>3 DEF Chained, OneToOne, Place, Standing
<1>5. \A g \in DOMAIN rows \ {h} : \A x \in {g} \cup Standing(rows[g]) :
         m.next[x] = l.next[x] /\ m.prev[x] = l.prev[x]
  <2>1. ASSUME NEW g \in DOMAIN rows \ {h}, NEW x \in {g} \cup Standing(rows[g])
        PROVE  x \in Nodes /\ x # h
    <3>1. Standing(rows[g]) \subseteq Entries
      BY CoveredIs
    <3> QED BY <3>1, <1>1, NodesAssumption DEF Nodes
  <2> QED BY <2>1, <1>2 DEF Joined
<1>6. Laid(m, new)
  <2>1. \A g \in DOMAIN rows \ {h} : Standing(rows[g]) \cap Standing(<<>>) = {}
    BY <1>4
  <2>2. <<>> \in Seq(Entries) /\ OneToOne(<<>>) /\ Chained(m, h, <<>>) /\ m \in LinksType
    BY <1>3, <1>4
  <2> DEFINE e == <<>>
  <2> HIDE DEF e
  <2>3. /\ \A g \in DOMAIN rows \ {h} : Standing(rows[g]) \cap Standing(e) = {}
        /\ e \in Seq(Entries) /\ OneToOne(e) /\ Chained(m, h, e)
    BY <2>1, <2>2 DEF e
  <2>4. Laid(m, RowAt(rows, h, e))
    BY <2>2, <2>3, <1>5, LaidRow
  <2> QED BY <2>4 DEF e
<1>7. ChangedAt(new, rows, h, <<>>)
  BY RowCovered
<1> HIDE DEF new
<1>8. Listed(new) = Listed(rows)
  <2>1. Listed(new) = Others(rows, h)
    BY <1>4, <1>7 DEF ChangedAt
  <2>2. Listed(rows) = Others(rows, h)
    BY <1>4, <1>7 DEF ChangedAt
  <2> QED BY <2>1, <2>2
<1> QED BY <1>2, <1>6, <1>7, <1>8 DEF m, new, ChangedAt

(***************************************************************************)
(* A row repeats nothing, so it is no longer than there are nodes.         *)
(***************************************************************************)
LEMMA RowIsShort ==
  ASSUME NEW r \in Seq(Entries), OneToOne(r)
  PROVE  Len(r) \in Nat /\ Cardinality(Nodes) \in Nat /\ Len(r) <= Cardinality(Nodes)
<1>1. Len(r) \in Nat /\ r \in [1..Len(r) -> Entries]
  BY LenProperties
<1>2. IsFiniteSet(Nodes) /\ Entries \in SUBSET Nodes
  BY NodesAssumption DEF Nodes
<1>3. IsFiniteSet(Entries) /\ Cardinality(Entries) <= Cardinality(Nodes)
  BY <1>2, FS_Subset
<1>4. r \in Injection(1..Len(r), Entries)
  BY <1>1 DEF Injection, IsInjective, OneToOne
<1>5. Cardinality(1..Len(r)) <= Cardinality(Entries)
  BY <1>3, <1>4, FS_Injection
<1>6. Cardinality(1..Len(r)) = Len(r)
  BY <1>1, FS_Interval
<1>7. Cardinality(Nodes) \in Nat /\ Cardinality(Entries) \in Nat
  BY <1>2, <1>3, FS_CardinalityType
<1> QED BY <1>1, <1>3, <1>5, <1>6, <1>7

(***************************************************************************)
(* From any place of a row the links next lead through the rest of the row *)
(* to its head.                                                            *)
(***************************************************************************)
LEMMA TrailForward ==
  ASSUME NEW l \in LinksType, NEW h \in Heads, NEW r \in Seq(Entries), OneToOne(r),
         Chained(l, h, r), NEW i \in 1..Len(r) + 1
  PROVE  Trail(l, "next", Place(h, r, i), h, SubSeq(r, i, Len(r)))
<1> DEFINE n == Len(r)
           c == SubSeq(r, i, n)
<1>1. n \in Nat /\ n <= Cardinality(Nodes) /\ Cardinality(Nodes) \in Nat /\ IsFiniteSet(Nodes)
  BY RowIsShort, NodesAssumption DEF Nodes
<1>2. /\ \A x \in 1..n : Place(h, r, x) = r[x] /\ r[x] \in Entries /\ r[x] # h
      /\ Place(h, r, n + 1) = h /\ h \in Nodes
  BY Places DEF Nodes
<1>3. \A x \in 0..n : l.next[Place(h, r, x)] = Place(h, r, x + 1)
  BY DEF Chained
<1> HIDE DEF n
<1>4. c \in Seq(Nodes \ {h}) /\ Len(c) = n - i + 1 /\ \A x \in 1..n - i + 1 : c[x] = r[i + x - 1]
  <2>1. \A x \in i..n : r[x] \in Nodes \ {h}
    BY <1>1, <1>2 DEF Nodes
  <2>2. i \in Int /\ n \in Int /\ i <= n + 1
    BY <1>1 DEF n
  <2>3. /\ c \in Seq(Nodes \ {h})
        /\ Len(c) = IF i <= n THEN n - i + 1 ELSE 0
        /\ \A x \in 1..n - i + 1 : c[x] = r[i + x - 1]
    BY <2>1, <2>2, SubSeqProperties
  <2> QED BY <2>2, <2>3
<1>5. i \in 1..n + 1
  BY DEF n
<1> HIDE DEF c
<1>6. Len(c) <= Cardinality(Nodes)
  BY <1>1, <1>4, <1>5
<1>7. ASSUME NEW x \in 1..Len(c)
      PROVE  l["next"][c[x]] = IF x < Len(c) THEN c[x + 1] ELSE h
  <2>1. /\ i + x - 1 \in 1..n /\ x \in 1..n - i + 1 /\ i + x - 1 \in 0..n
        /\ i + (x + 1) - 1 = (i + x - 1) + 1
    BY <1>1, <1>4, <1>5
  <2>2. l.next[c[x]] = Place(h, r, (i + x - 1) + 1)
    BY <2>1, <1>2, <1>3, <1>4
  <2>3. CASE x < Len(c)
    <3>1. x + 1 \in 1..n - i + 1 /\ (i + x - 1) + 1 \in 1..n
      BY <2>3, <1>1, <1>4, <1>5
    <3>2. c[x + 1] = r[(i + x - 1) + 1]
      BY <3>1, <2>1, <1>4
    <3> QED BY <2>2, <2>3, <3>1, <3>2, <1>2
  <2>4. CASE ~(x < Len(c))
    <3>1. (i + x - 1) + 1 = n + 1
      BY <2>4, <1>1, <1>4, <1>5
    <3> QED BY <2>2, <2>4, <3>1, <1>2
  <2> QED BY <2>3, <2>4
<1>8. Place(h, r, i) = IF Len(c) = 0 THEN h ELSE c[1]
  <2>1. CASE i = n + 1
    BY <2>1, <1>1, <1>2, <1>4
  <2>2. CASE i \in 1..n
    <3>1. 1 \in 1..n - i + 1 /\ i + 1 - 1 = i /\ Len(c) # 0
      BY <2>2, <1>1, <1>4
    <3> QED BY <2>2, <3>1, <1>2, <1>4
  <2> QED BY <2>1, <2>2, <1>1, <1>5
<1> DEFINE pos == Place(h, r, i)
<1> HIDE DEF pos
<1>9. Trail(l, "next", pos, h, c)
  BY <1>2, <1>4, <1>6, <1>7, <1>8 DEF Trail, pos
<1> QED BY <1>9 DEF c, n, pos

(***************************************************************************)
(* From any place of a row the links prev lead back through the beginning  *)
(* of the row to its head.                                                 *)
(***************************************************************************)
LEMMA TrailBackward ==
  ASSUME NEW l \in LinksType, NEW h \in Heads, NEW r \in Seq(Entries), OneToOne(r),
         Chained(l, h, r), NEW i \in 0..Len(r)
  PROVE  Trail(l, "prev", Place(h, r, i), h, Reverse(SubSeq(r, 1, i)))
<1> DEFINE n == Len(r)
           s == SubSeq(r, 1, i)
           c == Reverse(s)
<1>1. n \in Nat /\ n <= Cardinality(Nodes) /\ Cardinality(Nodes) \in Nat /\ IsFiniteSet(Nodes)
  BY RowIsShort, NodesAssumption DEF Nodes
<1>2. /\ \A x \in 1..n : Place(h, r, x) = r[x] /\ r[x] \in Entries /\ r[x] # h
      /\ Place(h, r, 0) = h /\ h \in Nodes
  BY Places DEF Nodes
<1>3. \A x \in 0..n : l.prev[Place(h, r, x + 1)] = Place(h, r, x)
  BY DEF Chained
<1>4. i \in 0..n /\ i \in Nat
  OBVIOUS
<1> HIDE DEF n
<1>5. s \in Seq(Nodes \ {h}) /\ Len(s) = i /\ \A x \in 1..i : s[x] = r[x]
  <2>1. \A x \in 1..i : r[x] \in Nodes \ {h}
    BY <1>1, <1>2, <1>4 DEF Nodes
  <2>2. /\ s \in Seq(Nodes \ {h})
        /\ Len(s) = IF 1 <= i THEN i - 1 + 1 ELSE 0
        /\ \A x \in 1..i - 1 + 1 : s[x] = r[1 + x - 1]
    BY <2>1, <1>4, SubSeqProperties
  <2> QED BY <2>2, <1>4
<1> HIDE DEF s
<1>6. c \in Seq(Nodes \ {h}) /\ Len(c) = i /\ \A x \in 1..i : c[x] = r[i - x + 1]
  <2>1. c = [x \in 1..i |-> s[i - x + 1]]
    BY <1>5 DEF Reverse
  <2>2. \A x \in 1..i : i - x + 1 \in 1..i
    BY <1>4
  <2>3. \A x \in 1..i : s[x] \in Nodes \ {h}
    BY <1>5, ElementOfSeq
  <2>4. c \in [1..i -> Nodes \ {h}]
    BY <2>1, <2>2, <2>3
  <2>5. c \in Seq(Nodes \ {h}) /\ Len(c) = i
    BY <2>4, <1>4, IndexedIsSeq
  <2>6. \A x \in 1..i : c[x] = s[i - x + 1]
    BY <2>1
  <2> HIDE DEF c
  <2> QED BY <2>2, <2>5, <2>6, <1>5
<1> HIDE DEF c
<1>7. Len(c) <= Cardinality(Nodes)
  BY <1>1, <1>4, <1>6
<1>8. ASSUME NEW x \in 1..Len(c)
      PROVE  l["prev"][c[x]] = IF x < Len(c) THEN c[x + 1] ELSE h
  <2> DEFINE y == i - x
  <2>1. x \in 1..i /\ y \in 0..n /\ y + 1 \in 1..n /\ i - x + 1 = y + 1
    BY <1>1, <1>4, <1>6
  <2>2. l.prev[c[x]] = Place(h, r, y)
    <3> HIDE DEF y
    <3> QED BY <2>1, <1>2, <1>3, <1>6
  <2>3. CASE x < Len(c)
    <3>1. x + 1 \in 1..i /\ y \in 1..n /\ i - (x + 1) + 1 = y
      BY <2>3, <1>1, <1>4, <1>6
    <3>2. c[x + 1] = r[y]
      <4> HIDE DEF y
      <4> QED BY <3>1, <1>6
    <3> QED BY <2>2, <2>3, <3>1, <3>2, <1>2
  <2>4. CASE ~(x < Len(c))
    <3>1. y = 0
      BY <2>4, <1>1, <1>4, <1>6
    <3> QED BY <2>2, <2>4, <3>1, <1>2
  <2> QED BY <2>3, <2>4
<1>9. Place(h, r, i) = IF Len(c) = 0 THEN h ELSE c[1]
  <2>1. CASE i = 0
    BY <2>1, <1>1, <1>2, <1>6
  <2>2. CASE i \in 1..n
    <3>1. 1 \in 1..i /\ i - 1 + 1 = i /\ Len(c) # 0
      BY <2>2, <1>1, <1>6
    <3> QED BY <2>2, <3>1, <1>2, <1>6
  <2> QED BY <2>1, <2>2, <1>1, <1>4
<1> DEFINE pos == Place(h, r, i)
<1> HIDE DEF pos
<1>10. Trail(l, "prev", pos, h, c)
  BY <1>2, <1>6, <1>7, <1>8, <1>9 DEF Trail, pos
<1> QED BY <1>10 DEF c, s, pos

\* The links m lay out the rows new, which have these heads and these
\* entries.
Becomes(m, new, heads, entries) ==
  Laid(m, new) /\ DOMAIN new = heads /\ Listed(new) = entries

\* e is at position i of the row of h.
Stands(rows, h, i, e) == h \in DOMAIN rows /\ i \in 1..Len(rows[h]) /\ rows[h][i] = e

\* The rows after positions i to j of the row of h went out.
RowOut(rows, h, i, j) == RowAt(rows, h, Taken(rows[h], i, j))

\* The rows after s went in behind position k of the row of h.
RowIn(rows, h, k, s)  == RowAt(rows, h, Put(rows[h], k, s))

(***************************************************************************)
(* What the links say of a row, place by place.                            *)
(***************************************************************************)
LEMMA Neighbours ==
  ASSUME NEW l, NEW rows, Laid(l, rows), NEW h \in DOMAIN rows
  PROVE  /\ Len(rows[h]) \in Nat /\ rows[h] \in Seq(Entries) /\ OneToOne(rows[h])
         /\ Place(h, rows[h], 0) = h /\ Place(h, rows[h], Len(rows[h]) + 1) = h
         /\ \A i \in 0..Len(rows[h]) : l.next[Place(h, rows[h], i)] = Place(h, rows[h], i + 1)
         /\ \A i \in 1..Len(rows[h]) + 1 : l.prev[Place(h, rows[h], i)] = Place(h, rows[h], i - 1)
         /\ \A i \in 1..Len(rows[h]) : Place(h, rows[h], i) = rows[h][i]
         /\ h \in Nodes /\ \A i \in 0..Len(rows[h]) + 1 : Place(h, rows[h], i) \in Nodes
<1> DEFINE r == rows[h]
<1>1. r \in Seq(Entries) /\ OneToOne(r) /\ Chained(l, h, r) /\ Len(r) \in Nat /\ h \in Heads
  BY DEF Laid
<1> HIDE DEF r
<1>2. /\ Place(h, r, 0) = h /\ Place(h, r, Len(r) + 1) = h
      /\ \A i \in 1..Len(r) : Place(h, r, i) = r[i]
      /\ \A i \in 0..Len(r) + 1 : Place(h, r, i) \in Nodes
  BY <1>1, Places
<1>3. /\ \A i \in 0..Len(r) : l.next[Place(h, r, i)] = Place(h, r, i + 1)
      /\ \A i \in 0..Len(r) : l.prev[Place(h, r, i + 1)] = Place(h, r, i)
  BY <1>1 DEF Chained
<1>4. \A i \in 1..Len(r) + 1 : i - 1 \in 0..Len(r) /\ (i - 1) + 1 = i
  BY <1>1
<1> QED BY <1>1, <1>2, <1>3, <1>4 DEF r, Nodes

(***************************************************************************)
(* Whatever is covered has a place in the circle of one of the heads.      *)
(***************************************************************************)
LEMMA CoveredHasPlace ==
  ASSUME NEW l, NEW rows, Laid(l, rows), NEW x \in Covered(rows)
  PROVE  /\ \E h \in DOMAIN rows : \E k \in 0..Len(rows[h]) : Place(h, rows[h], k) = x
         /\ \E h \in DOMAIN rows : \E k \in 1..Len(rows[h]) + 1 : Place(h, rows[h], k) = x
         /\ x \in Entries => \E h, i : Stands(rows, h, i, x)
<1>1. CASE x \in DOMAIN rows
  BY <1>1, Neighbours, CoveredIs, NodesAssumption DEF Laid
<1>2. CASE x \in Listed(rows)
  <2>0. PICK h \in DOMAIN rows : \E i \in 1..Len(rows[h]) : rows[h][i] = x
    BY <1>2 DEF Listed, Standing
  <2>1. PICK i \in 1..Len(rows[h]) : rows[h][i] = x
    BY <2>0
  <2>2. i \in 0..Len(rows[h]) /\ i \in 1..Len(rows[h]) + 1 /\ Place(h, rows[h], i) = x
    BY <2>1, Neighbours
  <2> QED BY <2>1, <2>2 DEF Stands
<1> QED BY <1>1, <1>2 DEF Covered

(***************************************************************************)
(* __list_del_entry takes one entry out of the row it stands in, wherever  *)
(* it stands (list.h:138-144).                                             *)
(***************************************************************************)
LEMMA EntryOut ==
  ASSUME NEW l, NEW rows, Laid(l, rows), NEW h, NEW i, NEW e, Stands(rows, h, i, e)
  PROVE  /\ Becomes(Unlink(l, e), RowOut(rows, h, i, i), DOMAIN rows, Listed(rows) \ {e})
         /\ Joined(Unlink(l, e), l, l.prev[e], l.next[e])
         /\ l.prev[e] = Place(h, rows[h], i - 1) /\ l.next[e] = Place(h, rows[h], i + 1)
         /\ l.prev[e] \in Covered(rows) \ {e} /\ l.next[e] \in Covered(rows) \ {e}
<1> DEFINE r == rows[h]
           s == Segment(r, i, i)
           p == Place(h, r, i - 1)
           q == Place(h, r, i + 1)
           m == Join(l, p, q)
           new == RowAt(rows, h, Taken(r, i, i))
<1>1. h \in DOMAIN rows /\ i \in 1..Len(r) /\ i \in i..Len(r) /\ r[i] = e /\ h \in Heads
  BY DEF Stands, Laid
<1>2. CutsOut(l, rows, h, i, i)
  BY <1>1, CutOut
<1>3. /\ Joined(m, l, p, q) /\ p \in Covered(rows) /\ q \in Covered(rows)
      /\ Laid(m, new) /\ DOMAIN new = DOMAIN rows
      /\ Standing(s) \cap Listed(new) = {}
      /\ Listed(rows) = Listed(new) \cup Standing(s)
  BY <1>2 DEF CutsOut
<1>4. l.prev[e] = p /\ l.next[e] = q /\ Len(r) \in Nat
  BY <1>1, Neighbours
<1>5. Standing(s) = {e}
  <2>1. s = [k \in 1..1 |-> r[i + k - 1]] /\ i + 1 - 1 = i
    BY <1>1 DEF Segment
  <2>2. Len(s) = 1 /\ s[1] = e
    BY <2>1, <1>1
  <2> HIDE DEF s
  <2> QED BY <2>2 DEF Standing
<1>6. p # e /\ q # e
  <2>1. /\ \A x, y \in 0..Len(r) : Place(h, r, x) = Place(h, r, y) => x = y
        /\ \A x, y \in 1..Len(r) + 1 : Place(h, r, x) = Place(h, r, y) => x = y
        /\ Place(h, r, i) = r[i]
    <3>1. r \in Seq(Entries) /\ OneToOne(r)
      BY <1>1, Neighbours
    <3> HIDE DEF r
    <3> QED BY <1>1, <3>1, Places
  <2> HIDE DEF r
  <2>2. i - 1 \in 0..Len(r) /\ i \in 0..Len(r) /\ i \in 1..Len(r) + 1 /\ i + 1 \in 1..Len(r) + 1
        /\ i - 1 # i /\ i + 1 # i
    BY <1>1, <1>4
  <2> QED BY <1>1, <2>1, <2>2
<1> HIDE DEF r, s, p, q, m, new
<1>7. Listed(new) = Listed(rows) \ {e}
  BY <1>3, <1>5
<1>8. Unlink(l, e) = m
  BY <1>4 DEF Unlink, m
<1> QED BY <1>3, <1>4, <1>6, <1>7, <1>8 DEF Becomes, RowOut, r, p, q, new

(***************************************************************************)
(* __list_add between two neighbours puts an entry that is on no list into *)
(* their row (list.h:71-82).                                               *)
(***************************************************************************)
LEMMA EntryIn ==
  ASSUME NEW l, NEW rows, Laid(l, rows), NEW h \in DOMAIN rows, NEW k \in 0..Len(rows[h]),
         NEW e \in Entries, e \notin Listed(rows),
         NEW p, NEW q, p = Place(h, rows[h], k), q = Place(h, rows[h], k + 1)
  PROVE  Becomes(Insert(l, e, p, q), RowIn(rows, h, k, <<e>>), DOMAIN rows, Listed(rows) \cup {e})
<1> DEFINE s == <<e>>
           o == Join(l, p, e)
           m == Join(o, e, q)
           new == RowIn(rows, h, k, s)
<1>1. /\ s \in Seq(Entries) /\ OneToOne(s) /\ Loose(l, s) /\ Len(s) = 1
      /\ Standing(s) = {e} /\ s[1] = e
  BY DEF OneToOne, Loose, Standing
<1>2. PutsIn(l, rows, h, k, s)
  <2> HIDE DEF s
  <2> QED BY <1>1, PutIn, SMTT(30)
<1> HIDE DEF s
<1>3. /\ Joined(o, l, p, e) /\ Joined(m, o, e, q)
      /\ p \in Covered(rows) /\ q \in Covered(rows)
      /\ Laid(m, new) /\ DOMAIN new = DOMAIN rows
      /\ Listed(new) = Listed(rows) \cup {e}
  BY <1>1, <1>2 DEF PutsIn, RowIn
<1>4. p \in Nodes /\ q \in Nodes /\ e \in Nodes /\ p # e /\ q # e /\ l \in LinksType
  <2>1. e \notin Covered(rows) /\ Covered(rows) \subseteq Nodes
    BY CoveredIs
  <2> QED BY <2>1, <1>3 DEF Laid, Nodes
<1> DEFINE o2 == Join(l, e, q)
           m2 == Join(o2, p, e)
<1>5. Joined(o2, l, e, q) /\ Joined(m2, o2, p, e)
  <2>1. Joined(o2, l, e, q)
    BY <1>4, JoinIs
  <2> HIDE DEF o2
  <2>2. o2 \in LinksType
    BY <2>1 DEF Joined
  <2>3. Joined(m2, o2, p, e)
    BY <1>4, <2>2, JoinIs
  <2> QED BY <2>1, <2>3
<1> HIDE DEF o, m, o2, m2, new
<1>6. m2 = m
  BY <1>3, <1>4, <1>5, SameLinks DEF Joined
<1>7. Insert(l, e, p, q) = m2
  BY DEF Insert, o2, m2
<1> QED BY <1>3, <1>6, <1>7 DEF Becomes, new, s

(***************************************************************************)
(* The links of a node that is on no list may be poisoned or made to point *)
(* to itself.                                                              *)
(***************************************************************************)
LEMMA Forgotten ==
  ASSUME NEW m, NEW new, NEW heads, NEW entries, Becomes(m, new, heads, entries),
         NEW x \in Nodes, x \notin heads, x \notin entries
  PROVE  Becomes(Unset(m, x), new, heads, entries) /\ Becomes(Join(m, x, x), new, heads, entries)
<1>1. Laid(m, new) /\ m \in LinksType /\ Covered(new) \subseteq Nodes \ {x}
  BY CoveredIs DEF Becomes, Laid, Covered
<1>2. /\ Unset(m, x) \in LinksType
      /\ \A y \in Nodes \ {x} : Unset(m, x).next[y] = m.next[y] /\ Unset(m, x).prev[y] = m.prev[y]
  BY <1>1, UnsetIs
<1>3. Joined(Join(m, x, x), m, x, x)
  BY <1>1, JoinIs
<1> DEFINE u == Unset(m, x)
           j == Join(m, x, x)
<1> HIDE DEF u, j
<1>4. u \in LinksType /\ \A y \in Covered(new) : u.next[y] = m.next[y] /\ u.prev[y] = m.prev[y]
  BY <1>1, <1>2 DEF u
<1>5. j \in LinksType /\ \A y \in Covered(new) : j.next[y] = m.next[y] /\ j.prev[y] = m.prev[y]
  BY <1>1, <1>3 DEF j, Joined
<1>6. Laid(u, new) /\ Laid(j, new)
  BY <1>1, <1>4, <1>5, LaidFrame
<1> QED BY <1>6 DEF Becomes, u, j

(***************************************************************************)
(* list_add puts a new entry right behind any place of a row, of which the *)
(* head is place 0 (list.h:92-95).                                         *)
(***************************************************************************)
LEMMA AddBehind ==
  ASSUME NEW l, NEW rows, Laid(l, rows), NEW h \in DOMAIN rows, NEW k \in 0..Len(rows[h]),
         NEW e \in Entries, e \notin Listed(rows), NEW x, x = Place(h, rows[h], k)
  PROVE  Becomes(list_add(l, e, x), RowIn(rows, h, k, <<e>>), DOMAIN rows, Listed(rows) \cup {e})
<1>1. l.next[x] = Place(h, rows[h], k + 1)
  BY Neighbours
<1> DEFINE q == l.next[x]
<1> HIDE DEF q
<1>2. Becomes(Insert(l, e, x, q), RowIn(rows, h, k, <<e>>), DOMAIN rows, Listed(rows) \cup {e})
  BY <1>1, EntryIn DEF q
<1> QED BY <1>2 DEF list_add, q

(***************************************************************************)
(* list_add_tail puts a new entry right before any place of a row, of      *)
(* which the head is the last (list.h:106-109).                            *)
(***************************************************************************)
LEMMA AddBefore ==
  ASSUME NEW l, NEW rows, Laid(l, rows), NEW h \in DOMAIN rows, NEW k \in 0..Len(rows[h]),
         NEW e \in Entries, e \notin Listed(rows), NEW x, x = Place(h, rows[h], k + 1)
  PROVE  Becomes(list_add_tail(l, e, x), RowIn(rows, h, k, <<e>>), DOMAIN rows, Listed(rows) \cup {e})
<1>1. l.prev[x] = Place(h, rows[h], k)
  <2>1. k + 1 \in 1..Len(rows[h]) + 1 /\ (k + 1) - 1 = k
    BY Neighbours
  <2> QED BY <2>1, Neighbours
<1> DEFINE p == l.prev[x]
<1> HIDE DEF p
<1>2. Becomes(Insert(l, e, p, x), RowIn(rows, h, k, <<e>>), DOMAIN rows, Listed(rows) \cup {e})
  BY <1>1, EntryIn DEF p
<1> QED BY <1>2 DEF list_add_tail, p

(***************************************************************************)
(* list_replace gives a new entry the place of an old one                  *)
(* (list.h:166-173).                                                       *)
(***************************************************************************)
LEMMA ReplaceEntry ==
  ASSUME NEW l, NEW rows, Laid(l, rows), NEW h, NEW i, NEW old, Stands(rows, h, i, old),
         NEW new \in Entries, new \notin Listed(rows)
  PROVE  Becomes(list_replace(l, old, new), RowIn(RowOut(rows, h, i, i), h, i - 1, <<new>>),
                 DOMAIN rows, (Listed(rows) \ {old}) \cup {new})
<1> DEFINE r   == rows[h]
           out == RowOut(rows, h, i, i)
           p   == l.prev[old]
           q   == l.next[old]
           u   == Unlink(l, old)
           m   == Insert(u, new, p, q)
<1>1. h \in DOMAIN rows /\ i \in 1..Len(r) /\ r[i] = old /\ r \in Seq(Entries) /\ OneToOne(r)
      /\ Len(r) \in Nat /\ i \in i..Len(r)
  BY Neighbours DEF Stands
<1>2. /\ Becomes(u, out, DOMAIN rows, Listed(rows) \ {old})
      /\ Joined(u, l, p, q)
      /\ p = Place(h, r, i - 1) /\ q = Place(h, r, i + 1)
      /\ p \in Covered(rows) \ {old} /\ q \in Covered(rows) \ {old}
  BY EntryOut
<1>3. out[h] = Taken(r, i, i)
  BY <1>1 DEF RowOut, RowAt
<1>4. /\ Len(out[h]) = Len(r) - 1
      /\ Place(h, out[h], i - 1) = p /\ Place(h, out[h], i) = q
  <2>1. /\ Len(Taken(r, i, i)) = Len(r) - (i - i + 1)
        /\ \A k \in 0..Len(r) - (i - i + 1) + 1 :
              Place(h, Taken(r, i, i), k) = Place(h, r, IF k < i THEN k ELSE k + (i - i + 1))
    <3> HIDE DEF r
    <3> QED BY <1>1, TakenIs
  <2>2. i - i + 1 = 1 /\ i - 1 \in 0..Len(r) /\ i \in 0..Len(r) /\ i - 1 < i
    BY <1>1
  <2> HIDE DEF r, out, p, q
  <2>3. Place(h, Taken(r, i, i), i - 1) = Place(h, r, i - 1)
    BY <1>1, <2>1, <2>2
  <2>4. Place(h, Taken(r, i, i), i) = Place(h, r, i + 1)
    BY <1>1, <2>1, <2>2
  <2> QED BY <1>1, <1>2, <1>3, <2>1, <2>2, <2>3, <2>4
<1> HIDE DEF r, out, p, q, u
<1>5. Becomes(m, RowIn(out, h, i - 1, <<new>>), DOMAIN rows, (Listed(rows) \ {old}) \cup {new})
  <2>1. Laid(u, out) /\ DOMAIN out = DOMAIN rows /\ Listed(out) = Listed(rows) \ {old}
    BY <1>2 DEF Becomes
  <2>2. h \in DOMAIN out /\ i - 1 \in 0..Len(out[h]) /\ new \notin Listed(out) /\ (i - 1) + 1 = i
    BY <1>1, <1>4, <2>1
  <2>3. Becomes(Insert(u, new, p, q), RowIn(out, h, i - 1, <<new>>), DOMAIN out,
                Listed(out) \cup {new})
    BY <1>4, <2>1, <2>2, EntryIn
  <2> QED BY <2>1, <2>3
<1>6. list_replace(l, old, new) = m
  <2>1. l \in LinksType /\ p \in Nodes /\ q \in Nodes /\ new \in Nodes /\ old \in Nodes
        /\ new # p /\ new # q
    <3>1. new \notin Covered(rows) /\ Covered(rows) \subseteq Nodes
      BY CoveredIs
    <3>2. old \in Entries
      BY <1>1, ElementOfSeq
    <3> QED BY <3>1, <3>2, <1>2 DEF Laid, Nodes
  <2>2. u \in LinksType
    BY <1>2 DEF Joined
  <2> DEFINE a1 == Join(l, new, q)
             a2 == Join(a1, p, new)
             b1 == Join(u, new, q)
             b2 == Join(b1, p, new)
  <2>3. Joined(a1, l, new, q) /\ Joined(b1, u, new, q)
    BY <2>1, <2>2, JoinIs
  <2>4. a1 \in LinksType /\ b1 \in LinksType
    BY <2>3 DEF Joined
  <2>5. Joined(a2, a1, p, new) /\ Joined(b2, b1, p, new)
    <3> HIDE DEF a1, b1
    <3> QED BY <2>1, <2>4, JoinIs
  <2> HIDE DEF a1, a2, b1, b2
  <2>6. a2 = b2
    BY <2>1, <2>3, <2>5, <1>2, SameLinks DEF Joined
  <2>7. a1.prev[old] = p
    <3>1. q # old /\ l.prev[old] = p
      BY <1>2 DEF p
    <3> QED BY <2>1, <2>3, <3>1 DEF Joined
  <2>8. list_replace(l, old, new) = Join(Join(l, new, q), Join(l, new, q).prev[old], new)
    BY DEF list_replace, q
  <2>9. m = b2
    BY DEF m, Insert, b1, b2
  <2> QED BY <2>6, <2>7, <2>8, <2>9 DEF a1, a2
<1> QED BY <1>5, <1>6 DEF out

\* m is l after three Joins.
Joined3(m, l, p1, q1, p2, q2, p3, q3) ==
  /\ m \in LinksType
  /\ \A x \in Nodes : m.next[x] = IF x = p3 THEN q3 ELSE IF x = p2 THEN q2
                                  ELSE IF x = p1 THEN q1 ELSE l.next[x]
  /\ \A x \in Nodes : m.prev[x] = IF x = q3 THEN p3 ELSE IF x = q2 THEN p2
                                  ELSE IF x = q1 THEN p1 ELSE l.prev[x]

(***************************************************************************)
(* What three Joins in a row do to the links: where they name a node       *)
(* twice, the last one holds.                                              *)
(***************************************************************************)
LEMMA ThreeJoins ==
  ASSUME NEW l \in LinksType, NEW p1 \in Nodes, NEW q1 \in Nodes, NEW p2 \in Nodes,
         NEW q2 \in Nodes, NEW p3 \in Nodes, NEW q3 \in Nodes
  PROVE  Joined3(Join(Join(Join(l, p1, q1), p2, q2), p3, q3), l, p1, q1, p2, q2, p3, q3)
<1> DEFINE a == Join(l, p1, q1)
           b == Join(a, p2, q2)
           c == Join(b, p3, q3)
<1>1. Joined(a, l, p1, q1)
  BY JoinIs
<1>2. a \in LinksType
  BY <1>1 DEF Joined
<1> HIDE DEF a
<1>3. Joined(b, a, p2, q2)
  BY <1>2, JoinIs
<1>4. b \in LinksType
  BY <1>3 DEF Joined
<1> HIDE DEF b
<1>5. Joined(c, b, p3, q3)
  BY <1>4, JoinIs
<1> HIDE DEF c
<1>6. Joined3(c, l, p1, q1, p2, q2, p3, q3)
  BY <1>1, <1>3, <1>5 DEF Joined, Joined3
<1> QED BY <1>6 DEF a, b, c

(***************************************************************************)
(* list_move and list_move_tail take an entry off its row and put it first *)
(* or last in a row, which may be the same (list.h:221-237).               *)
(***************************************************************************)
LEMMA MoveEntry ==
  ASSUME NEW l, NEW rows, Laid(l, rows), NEW h, NEW i, NEW e, Stands(rows, h, i, e),
         NEW g \in DOMAIN rows
  PROVE  LET out == RowOut(rows, h, i, i)
         IN  /\ Becomes(list_move(l, e, g), RowIn(out, g, 0, <<e>>),
                        DOMAIN rows, Listed(rows))
             /\ Becomes(list_move_tail(l, e, g), RowIn(out, g, Len(out[g]), <<e>>),
                        DOMAIN rows, Listed(rows))
<1> DEFINE out == RowOut(rows, h, i, i)
           u   == Unlink(l, e)
<1>1. Becomes(u, out, DOMAIN rows, Listed(rows) \ {e})
  BY EntryOut
<1> HIDE DEF out, u
<1>2. Laid(u, out) /\ g \in DOMAIN out /\ e \notin Listed(out) /\ DOMAIN out = DOMAIN rows
      /\ Listed(out) = Listed(rows) \ {e}
  BY <1>1 DEF Becomes
<1>3. e \in Entries /\ e \in Listed(rows)
  <2>1. h \in DOMAIN rows /\ e \in Standing(rows[h])
    BY DEF Stands, Standing
  <2>2. Standing(rows[h]) \subseteq Entries
    BY <2>1, CoveredIs
  <2> QED BY <2>1, <2>2 DEF Listed
<1>4. /\ Len(out[g]) \in Nat /\ 0 \in 0..Len(out[g]) /\ Len(out[g]) \in 0..Len(out[g])
      /\ Place(g, out[g], 0) = g /\ Place(g, out[g], Len(out[g]) + 1) = g
  BY <1>2, Neighbours
<1>5. Listed(rows) = Listed(out) \cup {e}
  BY <1>2, <1>3
<1>6. Becomes(list_add(u, e, g), RowIn(out, g, 0, <<e>>), DOMAIN out, Listed(out) \cup {e})
  BY <1>2, <1>3, <1>4, AddBehind
<1>7. Becomes(list_add_tail(u, e, g), RowIn(out, g, Len(out[g]), <<e>>),
              DOMAIN out, Listed(out) \cup {e})
  BY <1>2, <1>3, <1>4, AddBefore
<1> QED BY <1>2, <1>5, <1>6, <1>7 DEF out, u, list_move, list_move_tail

(***************************************************************************)
(* list_bulk_move_tail moves a segment to the end of its own row; it may   *)
(* be the end, or the whole row, already, because the tail is looked up    *)
(* after the segment was taken out (list.h:248-260).                       *)
(***************************************************************************)
LEMMA MoveSegment ==
  ASSUME NEW l, NEW rows, Laid(l, rows), NEW h \in DOMAIN rows,
         NEW i \in 1..Len(rows[h]), NEW j \in i..Len(rows[h])
  PROVE  LET r   == rows[h]
             out == RowOut(rows, h, i, j)
         IN  Becomes(list_bulk_move_tail(l, h, r[i], r[j]),
                     RowIn(out, h, Len(r) - (j - i + 1), Segment(r, i, j)),
                     DOMAIN rows, Listed(rows))
<1> DEFINE r   == rows[h]
           s   == Segment(r, i, j)
           out == RowOut(rows, h, i, j)
           k   == Len(r) - (j - i + 1)
           p   == Place(h, r, i - 1)
           q   == Place(h, r, j + 1)
           m   == Join(l, p, q)
<1>1. /\ r \in Seq(Entries) /\ OneToOne(r) /\ Len(r) \in Nat
      /\ i \in 1..Len(r) /\ j \in i..Len(r) /\ j \in 1..Len(r) /\ i <= j
      /\ p = l.prev[r[i]] /\ q = l.next[r[j]]
  <2>1. /\ r \in Seq(Entries) /\ OneToOne(r) /\ Len(r) \in Nat
        /\ \A x \in 0..Len(r) : l.next[Place(h, r, x)] = Place(h, r, x + 1)
        /\ \A x \in 1..Len(r) + 1 : l.prev[Place(h, r, x)] = Place(h, r, x - 1)
        /\ \A x \in 1..Len(r) : Place(h, r, x) = r[x]
    BY Neighbours
  <2>2. i \in 1..Len(r) /\ j \in i..Len(r) /\ j \in 1..Len(r) /\ i <= j /\ i \in 1..Len(r) + 1 /\ j \in 0..Len(r)
    BY <2>1
  <2> HIDE DEF r
  <2> QED BY <2>1, <2>2
<1>2. /\ Laid(m, out) /\ DOMAIN out = DOMAIN rows
      /\ Loose(m, s) /\ OneToOne(s) /\ s \in Seq(Entries) /\ Len(s) = j - i + 1
      /\ Standing(s) \cap Listed(out) = {}
      /\ Listed(rows) = Listed(out) \cup Standing(s)
  <2>1. CutsOut(l, rows, h, i, j)
    BY CutOut
  <2> QED BY <2>1 DEF CutsOut, RowOut
<1>3. /\ out[h] = Taken(r, i, j) /\ Len(out[h]) = k
      /\ s[1] = r[i] /\ s[Len(s)] = r[j] /\ Len(s) > 0
  <2>1. out[h] = Taken(r, i, j)
    BY DEF RowOut, RowAt
  <2>2. /\ Len(Taken(r, i, j)) = Len(r) - (j - i + 1)
        /\ \A x \in 1..j - i + 1 : Segment(r, i, j)[x] = r[i + x - 1]
    <3> HIDE DEF r
    <3>1. r \in Seq(Entries) /\ OneToOne(r) /\ i \in 1..Len(r) /\ j \in i..Len(r)
      BY <1>1
    <3>2. Len(Taken(r, i, j)) = Len(r) - (j - i + 1)
      BY <3>1, TakenIs
    <3>3. \A x \in 1..j - i + 1 : Segment(r, i, j)[x] = r[i + x - 1]
      BY <3>1, TakenIs
    <3> QED BY <3>2, <3>3
  <2>3. 1 \in 1..j - i + 1 /\ j - i + 1 \in 1..j - i + 1 /\ i + 1 - 1 = i /\ i + (j - i + 1) - 1 = j
        /\ j - i + 1 > 0
    BY <1>1
  <2> HIDE DEF r, out
  <2> QED BY <2>1, <2>2, <2>3, <1>2
<1> HIDE DEF r, s, out, p, q, m, k
<1>4. h \in DOMAIN out /\ k \in Nat /\ k \in 0..Len(out[h])
      /\ Place(h, out[h], k) = m.prev[h] /\ Place(h, out[h], k + 1) = h
  <2>1. h \in DOMAIN out
    BY <1>2
  <2>2. /\ Len(out[h]) \in Nat /\ Place(h, out[h], Len(out[h]) + 1) = h
        /\ \A x \in 1..Len(out[h]) + 1 : m.prev[Place(h, out[h], x)] = Place(h, out[h], x - 1)
    BY <1>2, <2>1, Neighbours
  <2>3. k \in Nat /\ Place(h, out[h], k + 1) = h /\ k + 1 \in 1..Len(out[h]) + 1 /\ k + 1 - 1 = k
    BY <1>3, <2>2
  <2> QED BY <1>3, <2>1, <2>2, <2>3
<1> DEFINE o == Join(Join(m, m.prev[h], r[i]), r[j], h)
<1>5. Becomes(o, RowIn(out, h, k, s), DOMAIN rows, Listed(rows))
  <2>1. PutsIn(m, out, h, k, s)
    BY <1>2, <1>3, <1>4, PutIn
  <2> HIDE DEF o
  <2>2. /\ Laid(o, RowIn(out, h, k, s)) /\ DOMAIN RowIn(out, h, k, s) = DOMAIN out
        /\ Listed(RowIn(out, h, k, s)) = Listed(out) \cup Standing(s)
    BY <2>1, <1>3, <1>4 DEF PutsIn, RowIn, o
  <2> QED BY <2>2, <1>2 DEF Becomes
<1>6. o = list_bulk_move_tail(l, h, r[i], r[j])
  BY <1>1 DEF list_bulk_move_tail, m
<1> HIDE DEF o
<1> QED BY <1>5, <1>6 DEF r, s, out, k

\* The rows after the first k entries of the row of h went to its end.
TurnedRow(rows, h, k) ==
  IF k = 0 THEN rows
  ELSE RowIn(RowOut(rows, h, 1, k), h, Len(rows[h]) - k, Segment(rows[h], 1, k))

(***************************************************************************)
(* list_rotate_to_front moves the head, not entries (list.h:314-323): the  *)
(* links are those of moving all that stands before the entry to the end.  *)
(***************************************************************************)
LEMMA RotateFront ==
  ASSUME NEW l, NEW rows, Laid(l, rows), NEW h, NEW k, NEW e, Stands(rows, h, k, e)
  PROVE  Becomes(list_move_tail(l, h, e), TurnedRow(rows, h, k - 1), DOMAIN rows, Listed(rows))
<1> DEFINE r == rows[h]
           n == Len(r)
           u == Unlink(l, h)
           o == list_move_tail(l, h, e)
<1>1. h \in DOMAIN rows /\ k \in 1..n /\ r[k] = e /\ l \in LinksType /\ h \in Heads /\ h \in Nodes
  BY DEF Stands, Laid, Nodes
<1>2. /\ n \in Nat /\ r \in Seq(Entries) /\ OneToOne(r)
      /\ Place(h, r, 0) = h /\ Place(h, r, n + 1) = h
      /\ \A x \in 0..n : l.next[Place(h, r, x)] = Place(h, r, x + 1)
      /\ \A x \in 1..n + 1 : l.prev[Place(h, r, x)] = Place(h, r, x - 1)
      /\ \A x \in 1..n : Place(h, r, x) = r[x]
  BY <1>1, Neighbours
<1>3. \A x \in 1..n : r[x] \in Entries /\ r[x] # h /\ r[x] \in Nodes
  <2> HIDE DEF r
  <2> QED BY <1>1, <1>2, Places DEF Nodes
<1>4. \A x, y \in 1..n : r[x] = r[y] => x = y
  BY <1>2 DEF OneToOne
<1> HIDE DEF r
<1>5. n \in 1..n /\ 1 \in 1..n /\ n \in 0..n /\ 0 \in 0..n /\ n + 1 \in 1..n + 1 /\ n + 1 - 1 = n
      /\ 1 \in 1..n + 1 /\ 0 + 1 = 1 /\ 1 - 1 = 0 /\ k \in 1..n + 1 /\ k \in 0..n
  BY <1>1, <1>2
<1> HIDE DEF n
<1>6. l.prev[h] = r[n] /\ l.next[h] = r[1] /\ l.prev[r[1]] = h /\ l.next[r[n]] = h
      /\ l.prev[e] = Place(h, r, k - 1)
  BY <1>1, <1>2, <1>5, SMTT(30)
<1>7. r[n] \in Nodes /\ r[1] \in Nodes /\ e \in Nodes /\ e # h /\ r[1] # h /\ r[n] # h
  BY <1>1, <1>3, <1>5
<1>8. Joined(u, l, r[n], r[1])
  BY <1>1, <1>6, <1>7, JoinIs DEF Unlink
<1> HIDE DEF o, u
<1>9. CASE k = 1
  <2>1. e = r[1] /\ u.prev[e] = r[n]
    BY <1>1, <1>7, <1>8, <1>9 DEF Joined
  <2>2. Joined3(o, l, r[n], r[1], h, e, r[n], h)
    <3>1. o = Join(Join(Join(l, r[n], r[1]), h, e), u.prev[e], h)
      BY <1>6 DEF o, u, list_move_tail, list_add_tail, Insert, Unlink
    <3>2. Joined3(Join(Join(Join(l, r[n], r[1]), h, e), r[n], h), l, r[n], r[1], h, e, r[n], h)
      BY <1>1, <1>7, ThreeJoins
    <3> QED BY <2>1, <3>1, <3>2
  <2>3. o = l
    <3>1. o \in LinksType /\ \A x \in Nodes : o.next[x] = l.next[x] /\ o.prev[x] = l.prev[x]
      BY <1>6, <1>7, <2>1, <2>2 DEF Joined3
    <3> QED BY <1>1, <3>1, SameLinks
  <2>4. TurnedRow(rows, h, k - 1) = rows
    BY <1>9 DEF TurnedRow
  <2> QED BY <2>3, <2>4 DEF Becomes, o
<1>10. CASE k # 1
  <2> DEFINE b == list_bulk_move_tail(l, h, r[1], r[k - 1])
             m == Join(l, l.prev[r[1]], l.next[r[k - 1]])
  <2>1. k - 1 \in 1..n /\ k - 1 \in 0..n /\ (k - 1) + 1 = k /\ k - 1 # n /\ k - 1 \in 1..n
    BY <1>1, <1>2, <1>10 DEF n
  <2>2. l.next[r[k - 1]] = e /\ l.prev[e] = r[k - 1] /\ r[k - 1] \in Nodes /\ r[k - 1] # h
        /\ r[k - 1] # r[n] /\ e # r[1]
    <3>1. Place(h, r, k - 1) = r[k - 1] /\ Place(h, r, k) = e
      BY <1>1, <1>2, <2>1
    <3>2. l.next[Place(h, r, k - 1)] = Place(h, r, k - 1 + 1)
      BY <1>2, <2>1
    <3>3. l.next[r[k - 1]] = e /\ l.prev[e] = r[k - 1]
      BY <1>6, <2>1, <3>1, <3>2
    <3>4. r[k - 1] \in Nodes /\ r[k - 1] # h
      BY <1>3, <2>1
    <3>5. r[k - 1] # r[n] /\ e # r[1]
      BY <1>1, <1>4, <1>5, <1>10, <2>1
    <3> QED BY <3>3, <3>4, <3>5
  <2>3. u.prev[e] = r[k - 1]
    BY <1>7, <1>8, <2>2 DEF Joined
  <2>4. Joined3(o, l, r[n], r[1], h, e, r[k - 1], h)
    <3>1. o = Join(Join(Join(l, r[n], r[1]), h, e), u.prev[e], h)
      BY <1>6 DEF o, u, list_move_tail, list_add_tail, Insert, Unlink
    <3>2. Joined3(Join(Join(Join(l, r[n], r[1]), h, e), r[k - 1], h), l, r[n], r[1], h, e, r[k - 1], h)
      BY <1>1, <1>7, <2>2, ThreeJoins
    <3> QED BY <2>3, <3>1, <3>2
  <2>5. Joined(m, l, h, e)
    BY <1>1, <1>6, <1>7, <2>2, JoinIs
  <2>6. m.prev[h] = r[n]
    BY <1>1, <1>6, <1>7, <2>5 DEF Joined
  <2>7. Joined3(b, l, h, e, r[n], r[1], r[k - 1], h)
    <3>1. b = Join(Join(Join(l, h, e), m.prev[h], r[1]), r[k - 1], h)
      BY <1>6, <2>2 DEF list_bulk_move_tail
    <3>2. Joined3(Join(Join(Join(l, h, e), r[n], r[1]), r[k - 1], h), l, h, e, r[n], r[1], r[k - 1], h)
      BY <1>1, <1>7, <2>2, ThreeJoins
    <3> QED BY <2>6, <3>1, <3>2
  <2> HIDE DEF m
  <2>8. Becomes(b, TurnedRow(rows, h, k - 1), DOMAIN rows, Listed(rows))
    <3>1. 1 \in 1..Len(rows[h]) /\ k - 1 \in 1..Len(rows[h])
      BY <1>5, <2>1 DEF n, r
    <3>2. k - 1 - 1 + 1 = k - 1 /\ k - 1 # 0
      BY <1>1, <1>2, <1>10
    <3>3. Becomes(b, RowIn(RowOut(rows, h, 1, k - 1), h, Len(rows[h]) - (k - 1 - 1 + 1),
                           Segment(rows[h], 1, k - 1)),
                  DOMAIN rows, Listed(rows))
      BY <1>1, <3>1, MoveSegment DEF r
    <3> QED BY <3>2, <3>3 DEF TurnedRow
  <2> HIDE DEF b
  <2>9. o = b
    <3>1. o \in LinksType /\ b \in LinksType
      BY <2>4, <2>7 DEF Joined3
    <3>2. \A x \in Nodes : o.next[x] = b.next[x]
      BY <1>7, <2>2, <2>4, <2>7 DEF Joined3
    <3>3. \A x \in Nodes : o.prev[x] = b.prev[x]
      BY <1>7, <2>2, <2>4, <2>7 DEF Joined3
    <3> QED BY <3>1, <3>2, <3>3, SameLinks
  <2> QED BY <2>8, <2>9 DEF o
<1> QED BY <1>9, <1>10

\* The rows after the first k entries of the row of h went to g.
FirstOver(rows, h, k, g) ==
  IF k = 0 THEN RowAt(rows, g, <<>>)
  ELSE RowIn(RowAt(RowOut(rows, h, 1, k), g, <<>>), g, 0, Segment(rows[h], 1, k))

(***************************************************************************)
(* __list_cut_position hands the beginning of a row, up to and including   *)
(* its k-th entry, to another head (list.h:334-344).                       *)
(***************************************************************************)
LEMMA CutBehind ==
  ASSUME NEW l, NEW rows, Laid(l, rows), NEW h \in DOMAIN rows, NEW k \in 1..Len(rows[h]),
         NEW g \in Heads, g # h, g \in DOMAIN rows => rows[g] = <<>>
  PROVE  Becomes(CutAfter(l, g, h, rows[h][k]), FirstOver(rows, h, k, g),
                 DOMAIN rows \cup {g}, Listed(rows))
<1> DEFINE r == rows[h]
           n == Len(r)
           s == Segment(r, 1, k)
           a == RowOut(rows, h, 1, k)
           q == Place(h, r, k + 1)
           m == Join(l, h, q)
           b == RowAt(a, g, <<>>)
           i == INIT_LIST_HEAD(m, g)
           o == Join(i, g, s[1])
           z == Join(o, s[Len(s)], g)
           c == CutAfter(l, g, h, r[k])
<1>1. /\ n \in Nat /\ r \in Seq(Entries) /\ OneToOne(r)
      /\ Place(h, r, 0) = h /\ Place(h, r, n + 1) = h
      /\ \A x \in 0..n : l.next[Place(h, r, x)] = Place(h, r, x + 1)
      /\ \A x \in 1..n : Place(h, r, x) = r[x]
      /\ h \in Nodes /\ \A x \in 0..n + 1 : Place(h, r, x) \in Nodes
      /\ l \in LinksType /\ h \in Heads /\ g \in Nodes
  BY Neighbours DEF Laid, Nodes
<1>2. 1 \in 1..n /\ k \in 1..n /\ k \in 0..n /\ 1 \in 0..n + 1 /\ 0 \in 0..n /\ k + 1 \in 0..n + 1
      /\ 0 + 1 = 1 /\ k \in 1..n /\ k - 1 + 1 = k /\ k > 0 /\ 1 - 1 = 0 /\ 1 + k - 1 = k
      /\ 1 \in 1..k /\ k \in 1..k /\ 1 + 1 - 1 = 1
      /\ k \in 0..n + 1 /\ k + 1 \in 1..n + 1 /\ 1 \in 1..n + 1 /\ 1 # k + 1
  BY <1>1
<1>3. /\ \A x \in 1..n : r[x] \in Entries /\ r[x] # h
      /\ \A x, y \in 1..n + 1 : Place(h, r, x) = Place(h, r, y) => x = y
  <2> HIDE DEF r
  <2> QED BY <1>1, Places
<1>4. /\ Laid(m, a) /\ DOMAIN a = DOMAIN rows /\ Joined(m, l, h, q)
      /\ Loose(m, s) /\ OneToOne(s) /\ s \in Seq(Entries) /\ Len(s) = k
      /\ Standing(s) \cap Listed(a) = {}
      /\ Listed(rows) = Listed(a) \cup Standing(s)
  <2>1. CutsOut(l, rows, h, 1, k)
    <3>1. 1 \in 1..Len(rows[h])
      BY <1>2
    <3> QED BY <3>1, CutOut
  <2>2. k - 1 + 1 = k /\ 1 - 1 = 0 /\ Place(h, rows[h], 1 - 1) = h
    BY <1>1, <1>2
  <2> QED BY <2>1, <2>2 DEF CutsOut, RowOut
<1>5. g \in DOMAIN a => a[g] = <<>>
  BY <1>4 DEF RowOut, RowAt
<1>6. \A x \in 1..k : s[x] = r[x]
  <2>1. \A x \in 1..k - 1 + 1 : s[x] = r[1 + x - 1]
    <3>1. r \in Seq(Entries) /\ OneToOne(r) /\ 1 \in 1..Len(r) /\ k \in 1..Len(r)
      BY <1>1, <1>2
    <3> HIDE DEF r
    <3> QED BY <3>1, TakenIs
  <2>2. k - 1 + 1 = k /\ \A x \in 1..k : 1 + x - 1 = x
    BY <1>2
  <2> HIDE DEF r, s
  <2> QED BY <2>1, <2>2
<1> HIDE DEF r, s, a, m
<1>7. s[1] = r[1] /\ s[Len(s)] = r[k] /\ Len(s) > 0
  BY <1>2, <1>4, <1>6
<1>8. Joined(i, m, g, g) /\ Laid(i, b) /\ DOMAIN b = DOMAIN rows \cup {g} /\ b[g] = <<>>
      /\ Listed(b) = Listed(a)
  BY <1>4, <1>5, HeadInitialized
<1> HIDE DEF i, b
<1>9. Loose(i, s)
  <2>1. \A x \in 1..Len(s) : s[x] \in Nodes /\ s[x] # g
    <3>1. \A x \in 1..Len(s) : s[x] \in Entries
      BY <1>4, ElementOfSeq
    <3> QED BY <3>1, NodesAssumption DEF Nodes
  <2>2. \A x \in 1..Len(s) - 1 : x \in 1..Len(s) /\ x + 1 \in 1..Len(s)
    BY <1>2, <1>4
  <2>3. \A x \in Nodes \ {g} : i.next[x] = m.next[x] /\ i.prev[x] = m.prev[x]
    BY <1>8 DEF Joined
  <2> QED BY <1>4, <2>1, <2>2, <2>3 DEF Loose
<1>10. /\ Joined(o, i, g, s[1]) /\ Joined(z, o, s[Len(s)], g)
       /\ Laid(z, RowIn(b, g, 0, s)) /\ DOMAIN RowIn(b, g, 0, s) = DOMAIN rows \cup {g}
       /\ Listed(RowIn(b, g, 0, s)) = Listed(rows)
  <2>1. 0 \in 0..Len(b[g]) /\ Place(g, b[g], 0) = g /\ Place(g, b[g], 0 + 1) = g /\ g \in DOMAIN b
    BY <1>8 DEF Place
  <2>2. Standing(s) \cap Listed(b) = {}
    BY <1>4, <1>8
  <2>3. PutsIn(i, b, g, 0, s)
    BY <1>4, <1>7, <1>8, <1>9, <2>1, <2>2, PutIn
  <2> QED BY <1>4, <1>8, <2>1, <2>3 DEF PutsIn, RowIn
<1>14. RowIn(b, g, 0, s) = FirstOver(rows, h, k, g)
  BY <1>2 DEF FirstOver, b, a, s, r
<1> HIDE DEF o, z
<1>11. /\ l.next[h] = r[1] /\ l.next[r[k]] = q /\ r[1] \in Nodes /\ r[k] \in Nodes /\ q \in Nodes
       /\ r[k] # h /\ r[1] # h /\ r[1] # q /\ r[1] # g /\ r[k] # g /\ q # g
  <2>1. l.next[h] = r[1] /\ l.next[r[k]] = q
    BY <1>1, <1>2
  <2>2. r[1] = Place(h, r, 1) /\ r[k] = Place(h, r, k)
    BY <1>1, <1>2
  <2>3. r[1] \in Nodes /\ r[k] \in Nodes /\ q \in Nodes
    BY <1>1, <1>2, <2>2
  <2>4. r[k] # h /\ r[1] # h /\ r[1] # g /\ r[k] # g
    BY <1>2, <1>3, NodesAssumption
  <2>5. r[1] # q
    BY <1>2, <1>3, <2>2
  <2>6. q # g
    <3>1. q = h \/ q \in Entries
      BY <1>3 DEF Place, n
    <3> QED BY <3>1, NodesAssumption
  <2> QED BY <2>1, <2>3, <2>4, <2>5, <2>6
<1> HIDE DEF q
<1>12. Joined3(c, l, g, r[1], r[k], g, h, q)
  <2>1. c = Join(Join(Join(l, g, r[1]), r[k], g), h, q)
    BY <1>11 DEF CutAfter
  <2> HIDE DEF c
  <2> QED BY <1>1, <1>11, <2>1, ThreeJoins
<1> HIDE DEF c
<1>13. c = z
  <2>1. c \in LinksType /\ z \in LinksType
    BY <1>10, <1>12 DEF Joined3, Joined
  <2>2. \A x \in Nodes : c.next[x] = z.next[x]
    BY <1>4, <1>7, <1>8, <1>10, <1>11, <1>12 DEF Joined3, Joined
  <2>3. \A x \in Nodes : c.prev[x] = z.prev[x]
    BY <1>4, <1>7, <1>8, <1>10, <1>11, <1>12 DEF Joined3, Joined
  <2> QED BY <2>1, <2>2, <2>3, SameLinks
<1> QED BY <1>10, <1>13, <1>14 DEF c, Becomes, r

(***************************************************************************)
(* list_empty and list_is_singular tell whether a row has no entry and     *)
(* exactly one (list.h:288-291, 329-332).                                  *)
(***************************************************************************)
LEMMA EmptyRow ==
  ASSUME NEW l, NEW rows, Laid(l, rows), NEW h \in DOMAIN rows
  PROVE  /\ list_empty(l, h) <=> rows[h] = <<>>
         /\ list_empty(l, h) <=> Len(rows[h]) = 0
         /\ list_is_singular(l, h) <=> Len(rows[h]) = 1
<1> DEFINE r == rows[h]
           n == Len(r)
<1>1. /\ n \in Nat /\ r \in Seq(Entries) /\ OneToOne(r)
      /\ Place(h, r, 0) = h /\ Place(h, r, n + 1) = h
      /\ \A x \in 0..n : l.next[Place(h, r, x)] = Place(h, r, x + 1)
      /\ \A x \in 1..n + 1 : l.prev[Place(h, r, x)] = Place(h, r, x - 1)
      /\ \A x \in 1..n : Place(h, r, x) = r[x]
      /\ h \in Heads
  BY Neighbours DEF Laid
<1> HIDE DEF r
<1>2. \A x \in 1..n : r[x] # h
  BY <1>1, Places
<1>3. \A x, y \in 1..n : r[x] = r[y] => x = y
  BY <1>1 DEF OneToOne
<1>4. r = <<>> <=> n = 0
  BY <1>1, EmptySeq
<1> HIDE DEF n
<1>5. l.next[h] = Place(h, r, 1) /\ l.prev[h] = Place(h, r, n)
  <2>1. 0 \in 0..n /\ n + 1 \in 1..n + 1 /\ 0 + 1 = 1 /\ n + 1 - 1 = n
    BY <1>1
  <2> QED BY <1>1, <2>1
<1>6. CASE n = 0
  BY <1>1, <1>4, <1>5, <1>6 DEF list_empty, list_is_singular, n, r
<1>7. CASE n # 0
  <2>1. 1 \in 1..n /\ n \in 1..n
    BY <1>1, <1>7
  <2>2. l.next[h] = r[1] /\ l.prev[h] = r[n] /\ r[1] # h
    BY <1>1, <1>2, <1>5, <2>1
  <2>3. ~list_empty(l, h)
    BY <2>2 DEF list_empty
  <2>4. (r[1] = r[n]) <=> n = 1
    BY <1>3, <2>1
  <2> QED BY <1>4, <1>7, <2>2, <2>3, <2>4 DEF list_is_singular, n, r
<1> QED BY <1>6, <1>7

(***************************************************************************)
(* list_cut_position, when it cuts: the other head gets the entries up to  *)
(* e, or becomes empty if e is the head (list.h:360-372).                  *)
(***************************************************************************)
LEMMA CutPosition ==
  ASSUME NEW l, NEW rows, Laid(l, rows), NEW h \in DOMAIN rows,
         NEW g \in Heads, g # h, g \in DOMAIN rows => rows[g] = <<>>,
         NEW e \in {h} \cup Standing(rows[h]), ~CannotCut(l, h, e)
  PROVE  \E k \in 0..Len(rows[h]) :
           /\ IF k = 0 THEN e = h ELSE e = rows[h][k]
           /\ Becomes(list_cut_position(l, g, h, e), FirstOver(rows, h, k, g),
                      DOMAIN rows \cup {g}, Listed(rows))
<1>0. Len(rows[h]) \in Nat
  BY Neighbours
<1>1. CASE e = h
  <2>1. Becomes(INIT_LIST_HEAD(l, g), FirstOver(rows, h, 0, g), DOMAIN rows \cup {g}, Listed(rows))
    BY HeadInitialized DEF Becomes, FirstOver
  <2>2. list_cut_position(l, g, h, e) = INIT_LIST_HEAD(l, g)
    BY <1>1 DEF list_cut_position
  <2>3. 0 \in 0..Len(rows[h])
    BY <1>0
  <2> QED BY <1>1, <2>1, <2>2, <2>3
<1>2. CASE e # h
  <2>1. PICK k \in 1..Len(rows[h]) : e = rows[h][k]
    BY <1>2 DEF Standing
  <2>2. list_cut_position(l, g, h, e) = CutAfter(l, g, h, e)
    BY <1>2 DEF list_cut_position
  <2>3. Becomes(CutAfter(l, g, h, e), FirstOver(rows, h, k, g), DOMAIN rows \cup {g}, Listed(rows))
    BY <2>1, CutBehind
  <2>4. k \in 0..Len(rows[h]) /\ k # 0
    BY <1>0, <2>1
  <2> QED BY <2>1, <2>2, <2>3, <2>4
<1> QED BY <1>1, <1>2

(***************************************************************************)
(* list_cut_before: the other head gets the entries before e, all of them  *)
(* if e is the head, none if e is the first (list.h:388-402).              *)
(***************************************************************************)
LEMMA CutBefore ==
  ASSUME NEW l, NEW rows, Laid(l, rows), NEW h \in DOMAIN rows,
         NEW g \in Heads, g # h, g \in DOMAIN rows => rows[g] = <<>>,
         NEW e \in {h} \cup Standing(rows[h])
  PROVE  \E j \in 1..Len(rows[h]) + 1 :
           /\ Place(h, rows[h], j) = e
           /\ Becomes(list_cut_before(l, g, h, e), FirstOver(rows, h, j - 1, g),
                      DOMAIN rows \cup {g}, Listed(rows))
<1> DEFINE r == rows[h]
           n == Len(r)
<1>1. /\ n \in Nat /\ r \in Seq(Entries) /\ OneToOne(r)
      /\ Place(h, r, 0) = h /\ Place(h, r, n + 1) = h
      /\ \A x \in 0..n : l.next[Place(h, r, x)] = Place(h, r, x + 1)
      /\ \A x \in 1..n + 1 : l.prev[Place(h, r, x)] = Place(h, r, x - 1)
      /\ \A x \in 1..n : Place(h, r, x) = r[x]
      /\ h \in Heads /\ h \in Nodes /\ g \in Nodes /\ l \in LinksType
      /\ \A x \in 0..n + 1 : Place(h, r, x) \in Nodes
  BY Neighbours DEF Laid, Nodes
<1>2. PICK j \in 1..n + 1 : Place(h, r, j) = e
  <2>1. CASE e = h
    <3>1. n + 1 \in 1..n + 1
      BY <1>1
    <3> QED BY <1>1, <2>1, <3>1
  <2>2. CASE e # h
    <3>1. PICK k \in 1..n : e = r[k]
      BY <2>2 DEF Standing
    <3>2. k \in 1..n + 1
      BY <1>1, <3>1
    <3> QED BY <1>1, <3>1, <3>2
  <2> QED BY <2>1, <2>2
<1>3. l.next[h] = Place(h, r, 1)
  <2>1. 0 \in 0..n /\ 0 + 1 = 1
    BY <1>1
  <2> QED BY <1>1, <2>1
<1>4. \A x, y \in 1..n + 1 : Place(h, r, x) = Place(h, r, y) => x = y
  <2> HIDE DEF r
  <2> QED BY <1>1, Places
<1>5. CASE j = 1
  <2>1. Becomes(INIT_LIST_HEAD(l, g), FirstOver(rows, h, j - 1, g),
                DOMAIN rows \cup {g}, Listed(rows))
    <3>1. FirstOver(rows, h, j - 1, g) = RowAt(rows, g, <<>>)
      BY <1>5 DEF FirstOver
    <3>2. Becomes(INIT_LIST_HEAD(l, g), RowAt(rows, g, <<>>), DOMAIN rows \cup {g}, Listed(rows))
      BY HeadInitialized DEF Becomes
    <3> QED BY <3>1, <3>2
  <2>2. list_cut_before(l, g, h, e) = INIT_LIST_HEAD(l, g)
    BY <1>2, <1>3, <1>5 DEF list_cut_before
  <2> QED BY <1>2, <2>1, <2>2
<1>6. CASE j # 1
  <2>1. j - 1 \in 1..n /\ j - 1 \in 0..n /\ j - 1 + 1 = j /\ 1 \in 1..n + 1 /\ 1 \in 0..n + 1 /\ j \in 0..n + 1
    BY <1>1, <1>6
  <2>2. l.next[h] # e /\ l.prev[e] = r[j - 1] /\ l.next[r[j - 1]] = e
    BY <1>1, <1>2, <1>3, <1>4, <1>6, <2>1
  <2> DEFINE m == Join(l, g, l.next[h])
  <2>3. m.prev[e] = r[j - 1]
    <3>1. Joined(m, l, g, l.next[h])
      BY <1>1, <1>3, <2>1, JoinIs
    <3>2. e \in Nodes
      BY <1>1, <1>2, <2>1
    <3> QED BY <2>2, <3>1, <3>2 DEF Joined
  <2>4. list_cut_before(l, g, h, e) = CutAfter(l, g, h, r[j - 1])
    BY <2>2, <2>3 DEF list_cut_before, CutAfter
  <2>5. Becomes(CutAfter(l, g, h, r[j - 1]), FirstOver(rows, h, j - 1, g),
                DOMAIN rows \cup {g}, Listed(rows))
    BY <2>1, CutBehind
  <2> QED BY <1>2, <2>4, <2>5
<1> QED BY <1>5, <1>6

(***************************************************************************)
(* list_splice and list_splice_tail put all entries of one list into       *)
(* another (list.h:423-440); the head they came from has no row until it   *)
(* is initialized.                                                         *)
(***************************************************************************)
LEMMA Grafted ==
  ASSUME NEW l, NEW rows, Laid(l, rows), NEW g \in DOMAIN rows, NEW h \in DOMAIN rows, g # h,
         ~list_empty(l, g), NEW tail \in BOOLEAN
  PROVE  Becomes(list_splice(l, g, h, tail),
                 RowIn(WithoutHead(rows, g), h, IF tail THEN Len(rows[h]) ELSE 0, rows[g]),
                 DOMAIN rows \ {g}, Listed(rows))
<1> DEFINE s == rows[g]
           a == WithoutHead(rows, g)
           n == Len(rows[h])
           k == IF tail THEN n ELSE 0
           p == Place(h, a[h], k)
           q == Place(h, a[h], k + 1)
<1>1. s \in Seq(Entries) /\ Len(s) \in Nat /\ Len(s) # 0
  BY EmptyRow, Neighbours
<1>2. /\ Laid(l, a) /\ DOMAIN a = DOMAIN rows \ {g} /\ Loose(l, s) /\ OneToOne(s)
      /\ Standing(s) \cap Listed(a) = {} /\ Listed(rows) = Listed(a) \cup Standing(s)
  BY HeadDropped
<1>3. h \in DOMAIN a /\ a[h] = rows[h] /\ n \in Nat
  BY Neighbours DEF WithoutHead
<1>4. /\ l.next[h] = Place(h, rows[h], 1) /\ l.prev[h] = Place(h, rows[h], n)
      /\ Place(h, rows[h], 0) = h /\ Place(h, rows[h], n + 1) = h
  <2>1. 0 \in 0..n /\ n + 1 \in 1..n + 1 /\ 0 + 1 = 1 /\ n + 1 - 1 = n
    BY <1>3
  <2> QED BY <2>1, Neighbours
<1>5. l.next[g] = s[1] /\ l.prev[g] = s[Len(s)]
  <2>1. 0 \in 0..Len(s) /\ Len(s) + 1 \in 1..Len(s) + 1 /\ 0 + 1 = 1 /\ Len(s) + 1 - 1 = Len(s)
        /\ 1 \in 1..Len(s) /\ Len(s) \in 1..Len(s)
    BY <1>1
  <2>2. /\ Place(g, s, 0) = g /\ Place(g, s, Len(s) + 1) = g
        /\ \A i \in 0..Len(s) : l.next[Place(g, s, i)] = Place(g, s, i + 1)
        /\ \A i \in 1..Len(s) + 1 : l.prev[Place(g, s, i)] = Place(g, s, i - 1)
        /\ \A i \in 1..Len(s) : Place(g, s, i) = s[i]
    BY Neighbours
  <2> HIDE DEF s
  <2> QED BY <2>1, <2>2
<1>6. k \in 0..Len(a[h]) /\ Len(s) > 0
  BY <1>1, <1>3
<1>7. PutsIn(l, a, h, k, s)
  <2> HIDE DEF s, a, k
  <2> QED BY <1>1, <1>2, <1>3, <1>6, PutIn
<1>8. Becomes(Graft(l, g, p, q), RowIn(a, h, k, s), DOMAIN rows \ {g}, Listed(rows))
  <2> HIDE DEF s, a, k
  <2> QED BY <1>2, <1>5, <1>7 DEF PutsIn, RowIn, Becomes, Graft
<1>9. list_splice(l, g, h, tail) = Graft(l, g, p, q)
  <2>1. CASE tail
    <3>1. k = n /\ p = l.prev[h] /\ q = h
      BY <1>3, <1>4, <2>1
    <3> HIDE DEF p, q, k
    <3> QED BY <2>1, <3>1 DEF list_splice
  <2>2. CASE ~tail
    <3>1. k = 0 /\ k + 1 = 1
      BY <2>2
    <3>2. p = h /\ q = l.next[h]
      BY <1>3, <1>4, <3>1
    <3> HIDE DEF p, q, k
    <3> QED BY <2>2, <3>2 DEF list_splice
  <2> QED BY <2>1, <2>2
<1> QED BY <1>8, <1>9

(***************************************************************************)
(* A segment that goes into an empty row is the row.                       *)
(***************************************************************************)
LEMMA PutInEmpty ==
  ASSUME NEW rows, NEW h, NEW s \in Seq(Entries)
  PROVE  /\ Put(<<>>, 0, s) = s
         /\ RowIn(RowAt(rows, h, <<>>), h, 0, s) = RowAt(rows, h, s)
<1>1. Put(<<>>, 0, s) = s
  <2>1. Len(s) \in Nat /\ s = [x \in 1..Len(s) |-> s[x]]
    BY LenProperties
  <2>2. Len(<<>>) = 0 /\ Len(<<>>) + Len(s) = Len(s) /\ 0 + Len(s) = Len(s)
    BY <2>1
  <2>3. \A x \in 1..Len(s) : ~(x <= 0) /\ x <= 0 + Len(s) /\ x - 0 = x
    BY <2>1
  <2> QED BY <2>1, <2>2, <2>3 DEF Put
<1>2. RowAt(rows, h, <<>>)[h] = <<>> /\ DOMAIN RowAt(rows, h, <<>>) = DOMAIN rows \cup {h}
      /\ \A g \in DOMAIN rows \ {h} : RowAt(rows, h, <<>>)[g] = rows[g]
  BY DEF RowAt
<1>3. RowIn(RowAt(rows, h, <<>>), h, 0, s) = RowAt(RowAt(rows, h, <<>>), h, s)
  BY <1>1, <1>2 DEF RowIn
<1>4. RowAt(RowAt(rows, h, <<>>), h, s) = RowAt(rows, h, s)
  BY <1>2 DEF RowAt
<1> QED BY <1>1, <1>3, <1>4

(***************************************************************************)
(* list_replace of a head: the new head takes over the row, and an empty   *)
(* row too, which must not leave the new head linked to the old one        *)
(* (list.h:166-173).                                                       *)
(***************************************************************************)
LEMMA HeadReplaced ==
  ASSUME NEW l, NEW rows, Laid(l, rows), NEW g \in DOMAIN rows, NEW h \in Heads, h \notin DOMAIN rows
  PROVE  Becomes(list_replace(l, g, h), RowAt(WithoutHead(rows, g), h, rows[g]),
                 (DOMAIN rows \ {g}) \cup {h}, Listed(rows))
<1> DEFINE s == rows[g]
           n == Len(s)
           a == WithoutHead(rows, g)
           b == RowAt(a, h, <<>>)
           i == INIT_LIST_HEAD(l, h)
           m == Join(l, h, l.next[g])
           z == list_replace(l, g, h)
<1>1. /\ s \in Seq(Entries) /\ n \in Nat /\ OneToOne(s)
      /\ Place(g, s, 0) = g /\ Place(g, s, n + 1) = g
      /\ \A x \in 0..n : l.next[Place(g, s, x)] = Place(g, s, x + 1)
      /\ \A x \in 1..n + 1 : l.prev[Place(g, s, x)] = Place(g, s, x - 1)
      /\ \A x \in 1..n : Place(g, s, x) = s[x]
      /\ \A x \in 0..n + 1 : Place(g, s, x) \in Nodes
      /\ l \in LinksType /\ g \in Heads /\ g \in Nodes /\ h \in Nodes /\ g # h
  BY Neighbours DEF Laid, Nodes
<1>2. /\ Laid(l, a) /\ DOMAIN a = DOMAIN rows \ {g} /\ Loose(l, s) /\ OneToOne(s)
      /\ Standing(s) \cap Listed(a) = {} /\ Listed(rows) = Listed(a) \cup Standing(s)
  BY HeadDropped
<1> HIDE DEF s, a
<1>3. /\ Joined(i, l, h, h) /\ Laid(i, b) /\ DOMAIN b = DOMAIN a \cup {h} /\ b[h] = <<>>
      /\ Listed(b) = Listed(a)
  BY <1>2, HeadInitialized
<1> HIDE DEF i, b
<1>4. l.next[g] = Place(g, s, 1) /\ l.prev[g] = Place(g, s, n)
  <2>1. 0 \in 0..n /\ n + 1 \in 1..n + 1 /\ 0 + 1 = 1 /\ n + 1 - 1 = n
    BY <1>1
  <2> QED BY <1>1, <2>1
<1>5. l.next[g] \in Nodes
  <2>1. 1 \in 0..n + 1
    BY <1>1
  <2> QED BY <1>1, <1>4, <2>1
<1>6. Joined(m, l, h, l.next[g])
  BY <1>1, <1>5, JoinIs
<1>7. z = Join(m, m.prev[g], h)
  BY DEF list_replace
<1> HIDE DEF m, z
<1>8. CASE n = 0
  <2>1. l.next[g] = g /\ m.prev[g] = h
    <3>1. 1 = n + 1
      BY <1>8
    <3>2. l.next[g] = g
      BY <1>1, <1>4, <3>1
    <3> QED BY <1>1, <1>6, <3>2 DEF Joined
  <2>2. m \in LinksType
    BY <1>6 DEF Joined
  <2>3. Joined(z, m, h, h)
    BY <1>1, <1>7, <2>1, <2>2, JoinIs
  <2>4. \A x \in Nodes \ {g} : z.next[x] = i.next[x] /\ z.prev[x] = i.prev[x]
    BY <1>3, <1>6, <2>1, <2>3 DEF Joined
  <2>5. Covered(b) \subseteq Nodes \ {g}
    <3>1. Covered(b) \subseteq Nodes /\ Covered(b) \cap Heads = DOMAIN b
      BY <1>3, CoveredIs
    <3> QED BY <1>1, <1>2, <1>3, <3>1
  <2>6. Laid(z, b)
    <3>1. z \in LinksType
      BY <2>3 DEF Joined
    <3> QED BY <1>3, <2>4, <2>5, <3>1, LaidFrame
  <2>7. Standing(s) = {} /\ s = <<>>
    BY <1>1, <1>8, EmptySeq DEF Standing
  <2>8. Becomes(z, b, (DOMAIN rows \ {g}) \cup {h}, Listed(rows))
    BY <1>2, <1>3, <2>6, <2>7 DEF Becomes
  <2>9. b = RowAt(a, h, s)
    BY <2>7 DEF b
  <2> QED BY <2>8, <2>9 DEF z, a, s
<1>9. CASE n # 0
  <2> DEFINE o == Join(i, h, s[1])
             y == Join(o, s[Len(s)], h)
  <2>1. 1 \in 1..n /\ n \in 1..n /\ Len(s) > 0
    BY <1>1, <1>9
  <2>2. l.next[g] = s[1] /\ l.prev[g] = s[n] /\ s[1] \in Entries /\ s[n] \in Entries
        /\ s[1] # g /\ s[1] # h /\ s[n] # h /\ s[n] # g /\ s[n] \in Nodes /\ s[1] \in Nodes
    <3>1. s[1] \in Entries /\ s[n] \in Entries
      BY <1>1, <2>1, ElementOfSeq
    <3> QED BY <1>1, <1>4, <2>1, <3>1, NodesAssumption DEF Nodes
  <2>3. Loose(i, s)
    <3>1. \A x \in 1..n : s[x] \in Nodes /\ s[x] # h
      <4>1. \A x \in 1..n : s[x] \in Entries
        BY <1>1, ElementOfSeq
      <4> QED BY <4>1, NodesAssumption DEF Nodes
    <3>2. \A x \in 1..n - 1 : x \in 1..n /\ x + 1 \in 1..n
      BY <1>1
    <3>3. \A x \in Nodes \ {h} : i.next[x] = l.next[x] /\ i.prev[x] = l.prev[x]
      BY <1>3 DEF Joined
    <3> QED BY <1>2, <3>1, <3>2, <3>3 DEF Loose
  <2>4. /\ Joined(o, i, h, s[1]) /\ Joined(y, o, s[Len(s)], h)
        /\ Becomes(y, RowIn(b, h, 0, s), (DOMAIN rows \ {g}) \cup {h}, Listed(rows))
    <3>1. 0 \in 0..Len(b[h]) /\ Place(h, b[h], 0) = h /\ Place(h, b[h], 0 + 1) = h /\ h \in DOMAIN b
      BY <1>3 DEF Place
    <3>2. Standing(s) \cap Listed(b) = {}
      BY <1>2, <1>3
    <3>3. PutsIn(i, b, h, 0, s)
      BY <1>1, <1>2, <1>3, <2>1, <2>3, <3>1, <3>2, PutIn
    <3> QED BY <1>2, <1>3, <3>1, <3>3 DEF PutsIn, RowIn, Becomes
  <2> HIDE DEF o, y
  <2>5. m.prev[g] = s[n] /\ m \in LinksType
    BY <1>1, <1>6, <2>2 DEF Joined
  <2>6. Joined(z, m, s[n], h)
    BY <1>1, <1>7, <2>2, <2>5, JoinIs
  <2>7. z = y
    <3>1. z \in LinksType /\ y \in LinksType
      BY <2>4, <2>6 DEF Joined
    <3>2. \A x \in Nodes : z.next[x] = y.next[x]
      BY <1>3, <1>6, <2>2, <2>4, <2>6 DEF Joined
    <3>3. \A x \in Nodes : z.prev[x] = y.prev[x]
      BY <1>3, <1>6, <2>2, <2>4, <2>6 DEF Joined
    <3> QED BY <3>1, <3>2, <3>3, SameLinks
  <2>8. RowIn(b, h, 0, s) = RowAt(a, h, s)
    BY <1>1, PutInEmpty DEF b
  <2> QED BY <2>4, <2>7, <2>8 DEF z, a, s
<1> QED BY <1>8, <1>9

\* There are rows that the links l lay out and that cover exactly now.
Ordered(l, now) == \E rows : Laid(l, rows) /\ now = Covered(rows)

\* The loop w has a trail ahead of it, all of which is on a list, and its
\* second cursor is one step ahead of the first.
OnItsWay(l, now, w) ==
  /\ w \in [head : Heads, dir : Dirs, due : Seq(Entries), at : [pos : Nodes, n : Nodes]]
  /\ w.head \in now /\ OneToOne(w.due) /\ Standing(w.due) \subseteq now
  /\ Trail(l, w.dir, w.at.pos, w.head, w.due)
  /\ w.at.n = l[w.dir][w.at.pos]

\* The inductive invariant.
IInv == /\ Ordered(links, linked)
        /\ walk # NoLoop => OnItsWay(links, linked, walk)

(***************************************************************************)
(* The rows that an operation leads to are what the invariant asks for.    *)
(***************************************************************************)
LEMMA BecomesOrdered ==
  ASSUME NEW m, NEW new, NEW heads, NEW entries, Becomes(m, new, heads, entries)
  PROVE  Ordered(m, heads \cup entries)
BY DEF Becomes, Ordered, Covered

(***************************************************************************)
(* In a state whose rows are laid out, next and prev of whatever is on a   *)
(* list undo each other and lead to what is on a list.                     *)
(***************************************************************************)
LEMMA OrderedAgrees ==
  ASSUME NEW l, NEW now, Ordered(l, now)
  PROVE  /\ l \in LinksType /\ now \subseteq Nodes
         /\ \A n \in now : /\ l.next[n] \in now /\ l.prev[l.next[n]] = n
                           /\ l.prev[n] \in now /\ l.next[l.prev[n]] = n
<1>1. PICK rows : Laid(l, rows) /\ now = Covered(rows)
  BY DEF Ordered
<1>2. l \in LinksType /\ now \subseteq Nodes
  BY <1>1, CoveredIs DEF Laid
<1>3. ASSUME NEW n \in now
      PROVE  l.next[n] \in now /\ l.prev[l.next[n]] = n
  <2>1. PICK h \in DOMAIN rows : \E k \in 0..Len(rows[h]) : Place(h, rows[h], k) = n
    BY <1>1, <1>3, CoveredHasPlace
  <2>2. PICK k \in 0..Len(rows[h]) : Place(h, rows[h], k) = n
    BY <2>1
  <2>3. /\ Len(rows[h]) \in Nat
        /\ l.next[n] = Place(h, rows[h], k + 1)
        /\ \A i \in 1..Len(rows[h]) + 1 : l.prev[Place(h, rows[h], i)] = Place(h, rows[h], i - 1)
    BY <1>1, <2>2, Neighbours
  <2>4. k + 1 \in 1..Len(rows[h]) + 1 /\ k + 1 \in 0..Len(rows[h]) + 1 /\ k + 1 - 1 = k
    BY <2>3
  <2>5. Place(h, rows[h], k + 1) \in now
    BY <1>1, <2>4, PlaceCovered
  <2> QED BY <2>2, <2>3, <2>4, <2>5
<1>4. ASSUME NEW n \in now
      PROVE  l.prev[n] \in now /\ l.next[l.prev[n]] = n
  <2>1. PICK h \in DOMAIN rows : \E k \in 1..Len(rows[h]) + 1 : Place(h, rows[h], k) = n
    BY <1>1, <1>4, CoveredHasPlace
  <2>2. PICK k \in 1..Len(rows[h]) + 1 : Place(h, rows[h], k) = n
    BY <2>1
  <2>3. /\ Len(rows[h]) \in Nat
        /\ l.prev[n] = Place(h, rows[h], k - 1)
        /\ \A i \in 0..Len(rows[h]) : l.next[Place(h, rows[h], i)] = Place(h, rows[h], i + 1)
    BY <1>1, <2>2, Neighbours
  <2>4. k - 1 \in 0..Len(rows[h]) /\ k - 1 \in 0..Len(rows[h]) + 1 /\ k - 1 + 1 = k
    BY <2>3
  <2>5. Place(h, rows[h], k - 1) \in now
    BY <1>1, <2>4, PlaceCovered
  <2> QED BY <2>2, <2>3, <2>4, <2>5
<1> QED BY <1>2, <1>3, <1>4

\* d for e and e for d.
Exchanged(d, e, x) == IF x = d THEN e ELSE IF x = e THEN d ELSE x

\* The rows after d and e took each other's place.
SwappedRows(rows, d, e) ==
  [h \in DOMAIN rows |-> [i \in 1..Len(rows[h]) |-> Exchanged(d, e, rows[h][i])]]

(***************************************************************************)
(* Two entries change places if the links change as the names do: whoever  *)
(* was next to one of them is next to the other.                           *)
(***************************************************************************)
LEMMA SwappedLaid ==
  ASSUME NEW l, NEW rows, Laid(l, rows), NEW d \in Listed(rows), NEW e \in Listed(rows),
         NEW m \in LinksType,
         \A x \in Covered(rows) :
           /\ m.next[Exchanged(d, e, x)] = Exchanged(d, e, l.next[x])
           /\ m.prev[Exchanged(d, e, x)] = Exchanged(d, e, l.prev[x])
  PROVE  Becomes(m, SwappedRows(rows, d, e), DOMAIN rows, Listed(rows))
<1> DEFINE new == SwappedRows(rows, d, e)
           F(x) == Exchanged(d, e, x)
<1>1. d \in Entries /\ e \in Entries /\ DOMAIN rows \subseteq Heads
  BY CoveredIs DEF Laid
<1>2. /\ \A x : F(F(x)) = x
      /\ \A x \in Entries : F(x) \in Entries
      /\ \A x \in Listed(rows) : F(x) \in Listed(rows)
      /\ \A x \in Heads : F(x) = x
      /\ \A x, y : F(x) = F(y) => x = y
  BY <1>1, NodesAssumption DEF Exchanged
<1>3. DOMAIN new = DOMAIN rows
  BY DEF SwappedRows
<1>4. ASSUME NEW h \in DOMAIN rows
      PROVE  /\ new[h] \in Seq(Entries) /\ Len(new[h]) = Len(rows[h]) /\ Len(rows[h]) \in Nat
             /\ \A i \in 1..Len(rows[h]) : new[h][i] = F(rows[h][i]) /\ rows[h][i] \in Listed(rows)
             /\ OneToOne(new[h])
             /\ Chained(m, h, new[h])
  <2> DEFINE r == rows[h]
             t == new[h]
             N == Len(r)
  <2>1. /\ N \in Nat /\ r \in Seq(Entries) /\ OneToOne(r) /\ Chained(l, h, r) /\ h \in Heads
    BY Neighbours DEF Laid
  <2>2. \A i \in 1..N : r[i] \in Entries /\ r[i] \in Listed(rows)
    <3>1. \A i \in 1..N : r[i] \in Standing(r)
      BY DEF Standing
    <3>2. Standing(r) \subseteq Entries
      BY CoveredIs
    <3> QED BY <3>1, <3>2 DEF Listed
  <2>3. t = [i \in 1..N |-> F(r[i])]
    BY DEF SwappedRows
  <2>0. \A i \in 0..N + 1 : Place(h, r, i) \in Covered(rows)
    BY PlaceCovered
  <2> HIDE DEF r, t, N, F, new
  <2>4. t \in [1..N -> Entries] /\ \A i \in 1..N : t[i] = F(r[i])
    BY <1>2, <2>2, <2>3
  <2>5. t \in Seq(Entries) /\ Len(t) = N
    BY <2>1, <2>4, IndexedIsSeq
  <2>6. OneToOne(t)
    <3>1. \A i, j \in 1..N : r[i] = r[j] => i = j
      BY <2>1 DEF OneToOne, N
    <3>2. \A i, j \in 1..N : t[i] = t[j] => i = j
      BY <1>2, <2>4, <3>1
    <3> QED BY <2>5, <3>2 DEF OneToOne
  <2>7. \A i \in 0..N + 1 : Place(h, t, i) = F(Place(h, r, i))
    <3>1. \A i \in 1..N : Place(h, t, i) = F(Place(h, r, i))
      BY <2>4, <2>5 DEF Place, N
    <3>2. \A i : i \notin 1..N => Place(h, t, i) = h /\ Place(h, r, i) = h
      BY <2>5 DEF Place, N
    <3>3. F(h) = h
      BY <1>2, <2>1
    <3> QED BY <3>1, <3>2, <3>3
  <2>8. Chained(m, h, t)
    <3> SUFFICES ASSUME NEW i \in 0..N
                 PROVE  /\ m.next[Place(h, t, i)] = Place(h, t, i + 1)
                        /\ m.prev[Place(h, t, i + 1)] = Place(h, t, i)
      BY <2>5 DEF Chained
    <3>1. i \in 0..N + 1 /\ i + 1 \in 0..N + 1
      BY <2>1
    <3>2. Place(h, t, i) = F(Place(h, r, i)) /\ Place(h, t, i + 1) = F(Place(h, r, i + 1))
      BY <2>7, <3>1
    <3>3. l.next[Place(h, r, i)] = Place(h, r, i + 1) /\ l.prev[Place(h, r, i + 1)] = Place(h, r, i)
      BY <2>1 DEF Chained, N
    <3>4. Place(h, r, i) \in Covered(rows) /\ Place(h, r, i + 1) \in Covered(rows)
      BY <2>0, <3>1
    <3>5. /\ m.next[F(Place(h, r, i))] = F(l.next[Place(h, r, i)])
          /\ m.prev[F(Place(h, r, i + 1))] = F(l.prev[Place(h, r, i + 1)])
      BY <3>4 DEF F
    <3> QED BY <3>2, <3>3, <3>5
  <2> QED BY <2>1, <2>2, <2>4, <2>5, <2>6, <2>8 DEF r, t, N
<1> HIDE DEF new, F
<1>5. \A g, h \in DOMAIN new : \A i \in 1..Len(new[g]), j \in 1..Len(new[h]) :
        new[g][i] = new[h][j] => g = h
  <2> SUFFICES ASSUME NEW g \in DOMAIN rows, NEW h \in DOMAIN rows,
                      NEW i \in 1..Len(rows[g]), NEW j \in 1..Len(rows[h]),
                      new[g][i] = new[h][j]
               PROVE  g = h
    BY <1>3, <1>4
  <2>1. rows[g][i] = rows[h][j]
    BY <1>2, <1>4
  <2> QED BY <2>1 DEF Laid
<1>6. Listed(new) = Listed(rows)
  <2>1. ASSUME NEW x \in Listed(rows) PROVE x \in Listed(new)
    <3>1. F(x) \in Listed(rows)
      BY <1>2
    <3>2. PICK h \in DOMAIN rows : F(x) \in Standing(rows[h])
      BY <3>1 DEF Listed
    <3>3. PICK i \in 1..Len(rows[h]) : rows[h][i] = F(x)
      BY <3>2 DEF Standing
    <3>4. new[h][i] = x /\ i \in 1..Len(new[h])
      BY <1>2, <1>4, <3>3
    <3>5. x \in Standing(new[h])
      BY <3>4 DEF Standing
    <3> QED BY <1>3, <3>5 DEF Listed
  <2>2. ASSUME NEW x \in Listed(new) PROVE x \in Listed(rows)
    <3>1. PICK h \in DOMAIN rows : x \in Standing(new[h])
      BY <1>3 DEF Listed
    <3>2. PICK i \in 1..Len(new[h]) : new[h][i] = x
      BY <3>1 DEF Standing
    <3> QED BY <1>2, <1>4, <3>2
  <2> QED BY <2>1, <2>2
<1>7. new \in [DOMAIN new -> Seq(Entries)]
  <2>1. new = [h \in DOMAIN new |-> new[h]]
    BY DEF new, SwappedRows
  <2> QED BY <1>3, <1>4, <2>1
<1>8. Laid(m, new)
  BY <1>1, <1>3, <1>4, <1>5, <1>7 DEF Laid
<1> QED BY <1>3, <1>6, <1>8 DEF Becomes, new

(***************************************************************************)
(* An entry is not its own neighbour, and has the head on one side if it   *)
(* has the same neighbour on both.                                         *)
(***************************************************************************)
LEMMA NotBetween ==
  ASSUME NEW l, NEW rows, Laid(l, rows), NEW e \in Listed(rows)
  PROVE  l.prev[e] # e /\ l.next[e] # e /\ \A d \in Entries : ~(l.prev[e] = d /\ l.next[e] = d)
<1>1. e \in Covered(rows) /\ e \in Entries
  BY CoveredIs DEF Covered
<1>2. PICK h, i : Stands(rows, h, i, e)
  BY <1>1, CoveredHasPlace
<1>3. /\ l.prev[e] = Place(h, rows[h], i - 1) /\ l.next[e] = Place(h, rows[h], i + 1)
      /\ l.prev[e] \in Covered(rows) \ {e} /\ l.next[e] \in Covered(rows) \ {e}
      /\ Becomes(Unlink(l, e), RowOut(rows, h, i, i), DOMAIN rows, Listed(rows) \ {e})
  BY <1>2, EntryOut
<1>4. /\ h \in DOMAIN rows /\ h \in Heads /\ Len(rows[h]) \in Nat /\ i \in 1..Len(rows[h])
      /\ OneToOne(rows[h])
  BY <1>2, Neighbours DEF Stands, Laid
<1>5. ASSUME NEW d \in Entries, l.prev[e] = d, l.next[e] = d PROVE FALSE
  <2>1. h # d
    BY <1>4, <1>5, NodesAssumption
  <2>2. i - 1 \in 1..Len(rows[h]) /\ i + 1 \in 1..Len(rows[h])
    BY <1>3, <1>5, <2>1 DEF Place
  <2>3. rows[h][i - 1] = d /\ rows[h][i + 1] = d
    BY <1>3, <1>5, <2>2 DEF Place
  <2>4. i - 1 = i + 1
    BY <1>4, <2>2, <2>3 DEF OneToOne
  <2> QED BY <1>4, <2>4
<1> QED BY <1>3, <1>5

(***************************************************************************)
(* The links of list_swap are those of two entries that changed places,    *)
(* also where the two are neighbours, in either order (list.h:194-204).    *)
(***************************************************************************)
LEMMA SwapLinks ==
  ASSUME NEW l, NEW rows, Laid(l, rows), NEW d \in Listed(rows), NEW e \in Listed(rows), d # e
  PROVE  /\ list_swap(l, d, e) \in LinksType
         /\ \A x \in Covered(rows) :
              /\ list_swap(l, d, e).next[Exchanged(d, e, x)] = Exchanged(d, e, l.next[x])
              /\ list_swap(l, d, e).prev[Exchanged(d, e, x)] = Exchanged(d, e, l.prev[x])
<1> DEFINE C == Covered(rows)
           p == l.prev[e]
           q == l.next[e]
           a == l.prev[d]
           b == l.next[d]
           u == Join(l, p, q)
           v == Unset(u, e)
           m1 == Join(v, e, v.next[d])
           m2 == Join(m1, m1.prev[d], e)
           x == IF p = d THEN e ELSE p
           n == m2.next[x]
           m3 == Join(m2, d, n)
           m == Join(m3, x, d)
<1>1. m = list_swap(l, d, e)
  BY DEF list_swap, Unlink, list_replace, list_add, Insert
<1>2. /\ C \subseteq Nodes /\ l \in LinksType /\ d \in C /\ e \in C /\ d \in Entries /\ e \in Entries
      /\ \A y \in C : /\ l.next[y] \in C /\ l.prev[l.next[y]] = y
                      /\ l.prev[y] \in C /\ l.next[l.prev[y]] = y
  <2>1. Ordered(l, Covered(rows))
    BY DEF Ordered
  <2>2. d \in Covered(rows) /\ e \in Covered(rows) /\ d \in Entries /\ e \in Entries
    BY CoveredIs DEF Covered
  <2> QED BY <2>1, <2>2, OrderedAgrees
<1>3. p # e /\ q # e /\ a # d /\ b # d /\ ~(p = d /\ q = d)
  BY <1>2, NotBetween
<1> HIDE DEF C
<1>4. /\ p \in C /\ q \in C /\ a \in C /\ b \in C
      /\ p \in Nodes /\ q \in Nodes /\ a \in Nodes /\ b \in Nodes /\ d \in Nodes /\ e \in Nodes
      /\ l.next[p] = e /\ l.prev[q] = e /\ l.next[a] = d /\ l.prev[b] = d
      /\ (p = d <=> b = e) /\ (q = d <=> a = e) /\ p # a /\ q # b
      /\ x \in Nodes
  BY <1>2
<1> HIDE DEF p, q, a, b, x, n
<1>5. Joined(u, l, p, q)
  BY <1>2, <1>4, JoinIs
<1> HIDE DEF u
<1>6. v \in LinksType /\ \A y \in Nodes \ {e} : v.next[y] = u.next[y] /\ v.prev[y] = u.prev[y]
  BY <1>4, <1>5, UnsetIs DEF Joined
<1> HIDE DEF v
<1>7. v.next[d] = IF p = d THEN q ELSE b
  BY <1>3, <1>4, <1>5, <1>6, <1>2 DEF Joined, b
<1>8. Joined(m1, v, e, v.next[d]) /\ m1 \in LinksType
  <2>1. Joined(m1, v, e, v.next[d])
    BY <1>4, <1>6, <1>7, JoinIs
  <2> QED BY <2>1 DEF Joined
<1> HIDE DEF m1
<1>9. m1.prev[d] = IF q = d THEN p ELSE a
  BY <1>2, <1>3, <1>4, <1>5, <1>6, <1>7, <1>8 DEF Joined, a
<1>10. Joined(m2, m1, m1.prev[d], e) /\ m2 \in LinksType
  <2>1. Joined(m2, m1, m1.prev[d], e)
    BY <1>4, <1>8, <1>9, JoinIs
  <2> QED BY <2>1 DEF Joined
<1> HIDE DEF m2
<1>11. n = IF q = d THEN e ELSE q
  BY <1>2, <1>3, <1>4, <1>5, <1>6, <1>7, <1>8, <1>9, <1>10 DEF Joined, n, x
<1>12. Joined(m3, m2, d, n) /\ m3 \in LinksType
  <2>1. Joined(m3, m2, d, n)
    BY <1>4, <1>10, <1>11, JoinIs
  <2> QED BY <2>1 DEF Joined
<1> HIDE DEF m3
<1>13. Joined(m, m3, x, d)
  BY <1>4, <1>12, JoinIs
<1> HIDE DEF m
<1>14. /\ \A y \in Nodes \ {e} :
            /\ m.next[y] = IF y = x THEN d ELSE IF y = d THEN n
                           ELSE IF y = m1.prev[d] THEN e ELSE IF y = p THEN q ELSE l.next[y]
            /\ m.prev[y] = IF y = d THEN x ELSE IF y = n THEN d
                           ELSE IF y = v.next[d] THEN e ELSE IF y = q THEN p ELSE l.prev[y]
       /\ m.next[e] = IF e = x THEN d ELSE v.next[d]
       /\ m.prev[e] = IF e = n THEN d ELSE m1.prev[d]
  <2>1. m1.prev[d] # e /\ v.next[d] # e
    BY <1>3, <1>4, <1>7, <1>9
  <2>2. /\ m.next[e] = IF e = x THEN d ELSE v.next[d]
        /\ m.prev[e] = IF e = n THEN d ELSE m1.prev[d]
    BY <1>4, <1>8, <1>10, <1>12, <1>13, <2>1 DEF Joined
  <2>3. ASSUME NEW y \in Nodes \ {e}
        PROVE  m.next[y] = IF y = x THEN d ELSE IF y = d THEN n
                           ELSE IF y = m1.prev[d] THEN e ELSE IF y = p THEN q ELSE l.next[y]
    BY <1>4, <1>5, <1>6, <1>8, <1>10, <1>12, <1>13 DEF Joined
  <2>4. ASSUME NEW y \in Nodes \ {e}
        PROVE  m.prev[y] = IF y = d THEN x ELSE IF y = n THEN d
                           ELSE IF y = v.next[d] THEN e ELSE IF y = q THEN p ELSE l.prev[y]
    BY <1>4, <1>5, <1>6, <1>8, <1>10, <1>12, <1>13 DEF Joined
  <2> QED BY <2>2, <2>3, <2>4
<1>15. ASSUME NEW y \in C
       PROVE  m.next[Exchanged(d, e, y)] = Exchanged(d, e, l.next[y])
  <2>1. /\ y \in Nodes /\ l.next[y] \in C
        /\ l.next[y] = d <=> y = a
        /\ l.next[y] = e <=> y = p
        /\ l.next[d] = b /\ l.next[e] = q
    BY <1>2, <1>4, <1>15 DEF b, q, a, p
  <2>2. CASE y = d
    <3>1. CASE p = d
      BY <1>3, <1>4, <1>14, <2>1, <2>2, <3>1 DEF Exchanged, x
    <3>2. CASE p # d
      BY <1>3, <1>4, <1>7, <1>14, <2>1, <2>2, <3>2 DEF Exchanged, x
    <3> QED BY <3>1, <3>2
  <2>3. CASE y = e
    <3>1. Exchanged(d, e, y) = d
      BY <2>3 DEF Exchanged
    <3>2. CASE q = d
      BY <1>3, <1>4, <1>11, <1>14, <2>1, <2>3, <3>1, <3>2 DEF Exchanged, x
    <3>3. CASE q # d
      BY <1>3, <1>4, <1>11, <1>14, <2>1, <2>3, <3>1, <3>3 DEF Exchanged, x
    <3> QED BY <3>2, <3>3
  <2>4. CASE y # d /\ y # e
    <3>1. Exchanged(d, e, y) = y
      BY <2>4 DEF Exchanged
    <3>2. CASE y = p
      BY <1>3, <1>4, <1>14, <2>1, <2>4, <3>1, <3>2 DEF Exchanged, x
    <3>3. CASE y = a
      BY <1>3, <1>4, <1>9, <1>14, <2>1, <2>4, <3>1, <3>3 DEF Exchanged, x
    <3>4. CASE y # p /\ y # a
      BY <1>3, <1>4, <1>9, <1>14, <2>1, <2>4, <3>1, <3>4 DEF Exchanged, x
    <3> QED BY <3>2, <3>3, <3>4
  <2> QED BY <2>2, <2>3, <2>4
<1>16. ASSUME NEW y \in C
       PROVE  m.prev[Exchanged(d, e, y)] = Exchanged(d, e, l.prev[y])
  <2>1. /\ y \in Nodes /\ l.prev[y] \in C
        /\ l.prev[y] = d <=> y = b
        /\ l.prev[y] = e <=> y = q
        /\ l.prev[d] = a /\ l.prev[e] = p
    BY <1>2, <1>4, <1>16 DEF b, q, a, p
  <2>2. CASE y = d
    <3>0. Exchanged(d, e, y) = e
      BY <2>2 DEF Exchanged
    <3>1. CASE q = d
      BY <1>3, <1>4, <1>9, <1>11, <1>14, <2>1, <2>2, <3>0, <3>1 DEF Exchanged, x
    <3>2. CASE q # d
      BY <1>3, <1>4, <1>9, <1>11, <1>14, <2>1, <2>2, <3>0, <3>2 DEF Exchanged, x
    <3> QED BY <3>1, <3>2
  <2>3. CASE y = e
    <3>1. Exchanged(d, e, y) = d
      BY <2>3 DEF Exchanged
    <3> QED BY <1>3, <1>4, <1>14, <2>1, <2>3, <3>1 DEF Exchanged, x
  <2>4. CASE y # d /\ y # e
    <3>1. Exchanged(d, e, y) = y
      BY <2>4 DEF Exchanged
    <3>2. CASE y = q
      BY <1>3, <1>4, <1>11, <1>14, <2>1, <2>4, <3>1, <3>2 DEF Exchanged, x
    <3>3. CASE y = b
      BY <1>3, <1>4, <1>7, <1>11, <1>14, <2>1, <2>4, <3>1, <3>3 DEF Exchanged, x
    <3>4. CASE y # q /\ y # b
      BY <1>3, <1>4, <1>7, <1>11, <1>14, <2>1, <2>4, <3>1, <3>4 DEF Exchanged, x
    <3> QED BY <3>2, <3>3, <3>4
  <2> QED BY <2>2, <2>3, <2>4
<1>17. m \in LinksType
  BY <1>13 DEF Joined
<1> QED BY <1>1, <1>15, <1>16, <1>17 DEF C

(***************************************************************************)
(* list_swap exchanges two entries, neighbours and entries of two lists    *)
(* included (list.h:194-204).                                              *)
(***************************************************************************)
LEMMA SwapEntries ==
  ASSUME NEW l, NEW rows, Laid(l, rows), NEW d \in Listed(rows), NEW e \in Listed(rows), d # e
  PROVE  Becomes(list_swap(l, d, e), SwappedRows(rows, d, e), DOMAIN rows, Listed(rows))
<1> DEFINE m == list_swap(l, d, e)
<1>1. /\ m \in LinksType
      /\ \A x \in Covered(rows) :
           /\ m.next[Exchanged(d, e, x)] = Exchanged(d, e, l.next[x])
           /\ m.prev[Exchanged(d, e, x)] = Exchanged(d, e, l.prev[x])
  BY SwapLinks
<1> HIDE DEF m
<1>2. Becomes(m, SwappedRows(rows, d, e), DOMAIN rows, Listed(rows))
  BY <1>1, SwappedLaid
<1> QED BY <1>2 DEF m

(***************************************************************************)
(* A row read backwards is a row of the same entries.                      *)
(***************************************************************************)
LEMMA ReversedIs ==
  ASSUME NEW r \in Seq(Entries), OneToOne(r)
  PROVE  /\ Reverse(r) \in Seq(Entries) /\ OneToOne(Reverse(r))
         /\ Len(Reverse(r)) = Len(r) /\ Standing(Reverse(r)) = Standing(r)
<1> DEFINE n == Len(r)
           c == Reverse(r)
<1>1. n \in Nat /\ \A x \in 1..n : r[x] \in Entries
  BY LenProperties, ElementOfSeq
<1>2. c = [x \in 1..n |-> r[n - x + 1]]
  BY DEF Reverse
<1>3. \A x \in 1..n : n - x + 1 \in 1..n /\ n - (n - x + 1) + 1 = x
  BY <1>1
<1>4. \A x, y \in 1..n : n - x + 1 = n - y + 1 => x = y
  BY <1>1
<1> HIDE DEF n, c
<1>5. c \in [1..n -> Entries] /\ \A x \in 1..n : c[x] = r[n - x + 1]
  BY <1>1, <1>2, <1>3
<1>6. c \in Seq(Entries) /\ Len(c) = n
  BY <1>1, <1>5, IndexedIsSeq
<1>7. OneToOne(c)
  <2>1. \A x, y \in 1..n : r[x] = r[y] => x = y
    BY DEF OneToOne, n
  <2>2. ASSUME NEW x \in 1..n, NEW y \in 1..n, c[x] = c[y]
        PROVE  x = y
    <3>1. r[n - x + 1] = r[n - y + 1]
      BY <1>5, <2>2
    <3>2. n - x + 1 = n - y + 1
      BY <1>3, <2>1, <3>1
    <3> QED BY <1>4, <3>2
  <2> QED BY <1>6, <2>2 DEF OneToOne
<1>8. Standing(c) = Standing(r)
  <2>1. ASSUME NEW x \in 1..n
        PROVE  c[x] \in Standing(r) /\ r[x] \in Standing(c)
    <3>1. c[x] = r[n - x + 1] /\ c[n - x + 1] = r[x]
      BY <1>3, <1>5
    <3> QED BY <3>1, <1>3, <1>6 DEF Standing, n
  <2>2. Standing(c) = {c[i] : i \in 1..n} /\ Standing(r) = {r[i] : i \in 1..n}
    BY <1>6 DEF Standing, n
  <2> QED BY <2>1, <2>2
<1> QED BY <1>6, <1>7, <1>8 DEF c, n

(***************************************************************************)
(* A loop from a head passes through its whole row, forward and backward.  *)
(***************************************************************************)
LEMMA WholeTrails ==
  ASSUME NEW l, NEW rows, Laid(l, rows), NEW h \in DOMAIN rows
  PROVE  /\ Trail(l, "next", l["next"][h], h, rows[h])
         /\ Trail(l, "prev", l["prev"][h], h, Reverse(rows[h]))
<1> DEFINE r == rows[h]
           n == Len(r)
<1>1. /\ n \in Nat /\ r \in Seq(Entries) /\ OneToOne(r)
      /\ Place(h, r, 0) = h /\ Place(h, r, n + 1) = h
      /\ \A x \in 0..n : l.next[Place(h, r, x)] = Place(h, r, x + 1)
      /\ \A x \in 1..n + 1 : l.prev[Place(h, r, x)] = Place(h, r, x - 1)
      /\ h \in Heads /\ l \in LinksType /\ Chained(l, h, r)
  BY Neighbours DEF Laid
<1>2. 0 \in 0..n /\ n + 1 \in 1..n + 1 /\ 0 + 1 = 1 /\ n + 1 - 1 = n /\ n \in 0..n /\ 1 \in 1..n + 1
  BY <1>1
<1>3. l.next[h] = Place(h, r, 1) /\ l.prev[h] = Place(h, r, n)
  BY <1>1, <1>2
<1> HIDE DEF r
<1>4. SubSeq(r, 1, n) = r
  BY <1>1, SubSeqFull
<1>5. Trail(l, "next", Place(h, r, 1), h, SubSeq(r, 1, n))
  BY <1>1, <1>2, TrailForward
<1>6. Trail(l, "prev", Place(h, r, n), h, Reverse(SubSeq(r, 1, n)))
  BY <1>1, <1>2, TrailBackward
<1> QED BY <1>3, <1>4, <1>5, <1>6 DEF r

(***************************************************************************)
(* The row that the invariant speaks of is the one that the loops of       *)
(* list.h visit (list.h:598-612).                                          *)
(***************************************************************************)
LEMMA RowIs ==
  ASSUME NEW rows, Laid(links, rows), linked = Covered(rows), NEW h \in DOMAIN rows
  PROVE  /\ Row(h) = rows[h] /\ ForEach("next", h) = rows[h]
         /\ ForEach("prev", h) = Reverse(rows[h])
<1>1. Visits(links, "next", links["next"][h], h) = rows[h]
  BY WholeTrails, VisitsIs
<1>2. Visits(links, "prev", links["prev"][h], h) = Reverse(rows[h])
  BY WholeTrails, VisitsIs
<1>3. h \in linked
  BY DEF Covered
<1> QED BY <1>1, <1>2, <1>3 DEF Row, ForEach

(***************************************************************************)
(* No head is initialized at first, and no row is laid out.                *)
(***************************************************************************)
LEMMA InitialOrder == Init => IInv
<1> SUFFICES ASSUME Init PROVE IInv
  OBVIOUS
<1> DEFINE none == [h \in {} |-> <<>>]
<1>1. links \in LinksType
  BY DEF Init, LinksType
<1>2. DOMAIN none = {} /\ none \in [{} -> Seq(Entries)]
  OBVIOUS
<1> HIDE DEF none
<1>3. Laid(links, none) /\ Covered(none) = {}
  BY <1>1, <1>2 DEF Laid, Covered, Listed
<1> QED BY <1>3 DEF IInv, Ordered, Init

(***************************************************************************)
(* An operation that lays its rows out keeps the invariant: no loop is     *)
(* under way meanwhile.                                                    *)
(***************************************************************************)
LEMMA DoesKeeps ==
  ASSUME NEW name, NEW args, NEW l, NEW now, Does(name, args, l, now), Ordered(l, now)
  PROVE  IInv'
BY DEF Does, IInv

(***************************************************************************)
(* INIT_LIST_HEAD keeps the invariant.                                     *)
(***************************************************************************)
LEMMA InitHeadKeeps ==
  ASSUME IInv, NEW h \in Heads, InitHead(h)
  PROVE  IInv'
<1>1. PICK rows : Laid(links, rows) /\ linked = Covered(rows)
  BY DEF IInv, Ordered
<1>2. h \in DOMAIN rows => rows[h] = <<>>
  BY <1>1, EmptyRow DEF InitHead, Covered
<1>3. Becomes(INIT_LIST_HEAD(links, h), RowAt(rows, h, <<>>), DOMAIN rows \cup {h}, Listed(rows))
  BY <1>1, <1>2, HeadInitialized DEF Becomes
<1>4. Ordered(INIT_LIST_HEAD(links, h), linked \cup {h})
  <2>1. (DOMAIN rows \cup {h}) \cup Listed(rows) = linked \cup {h}
    BY <1>1 DEF Covered
  <2> QED BY <1>3, <2>1, BecomesOrdered
<1> QED BY <1>4, DoesKeeps DEF InitHead

(***************************************************************************)
(* list_add and list_add_tail keep the invariant.                          *)
(***************************************************************************)
LEMMA AddKeeps ==
  ASSUME IInv, NEW e \in Entries, NEW h \in Heads, Add(e, h)
  PROVE  IInv'
<1>1. PICK rows : Laid(links, rows) /\ linked = Covered(rows)
  BY DEF IInv, Ordered
<1>2. h \in DOMAIN rows /\ e \notin Listed(rows)
  BY <1>1, CoveredIs DEF Add, Covered
<1>3. /\ Len(rows[h]) \in Nat /\ 0 \in 0..Len(rows[h]) /\ Len(rows[h]) \in 0..Len(rows[h])
      /\ Place(h, rows[h], 0) = h /\ Place(h, rows[h], Len(rows[h]) + 1) = h
  BY <1>1, <1>2, Neighbours
<1>4. DOMAIN rows \cup (Listed(rows) \cup {e}) = linked \cup {e}
  BY <1>1 DEF Covered
<1>5. Ordered(list_add(links, e, h), linked \cup {e})
  <2>1. Becomes(list_add(links, e, h), RowIn(rows, h, 0, <<e>>),
                DOMAIN rows, Listed(rows) \cup {e})
    BY <1>1, <1>2, <1>3, AddBehind
  <2> QED BY <1>4, <2>1, BecomesOrdered
<1>6. Ordered(list_add_tail(links, e, h), linked \cup {e})
  <2>1. Becomes(list_add_tail(links, e, h), RowIn(rows, h, Len(rows[h]), <<e>>),
                DOMAIN rows, Listed(rows) \cup {e})
    BY <1>1, <1>2, <1>3, AddBefore
  <2> QED BY <1>4, <2>1, BecomesOrdered
<1> QED BY <1>5, <1>6, DoesKeeps DEF Add

(***************************************************************************)
(* An entry taken off its list, whether its links are then poisoned        *)
(* (list_del), left wild or initialized (list_del_init).                   *)
(***************************************************************************)
LEMMA TakenOff ==
  ASSUME NEW l, NEW now, Ordered(l, now), NEW e \in Entries, e \in now
  PROVE  /\ Ordered(Unset(Unlink(l, e), e), now \ {e})
         /\ Ordered(INIT_LIST_HEAD(Unlink(l, e), e), now \ {e})
         /\ Joined(Unlink(l, e), l, l.prev[e], l.next[e])
<1>1. PICK rows : Laid(l, rows) /\ now = Covered(rows)
  BY DEF Ordered
<1>2. PICK h, i : Stands(rows, h, i, e)
  BY <1>1, CoveredHasPlace
<1>3. /\ Becomes(Unlink(l, e), RowOut(rows, h, i, i), DOMAIN rows, Listed(rows) \ {e})
      /\ Joined(Unlink(l, e), l, l.prev[e], l.next[e])
  BY <1>1, <1>2, EntryOut
<1> DEFINE u   == Unlink(l, e)
           out == RowOut(rows, h, i, i)
<1>4. e \in Nodes /\ e \notin DOMAIN rows
  BY <1>1, NodesAssumption DEF Laid, Nodes
<1>5. DOMAIN rows \cup (Listed(rows) \ {e}) = now \ {e}
  BY <1>1, <1>4 DEF Covered
<1>6. /\ Becomes(Unset(u, e), out, DOMAIN rows, Listed(rows) \ {e})
      /\ Becomes(Join(u, e, e), out, DOMAIN rows, Listed(rows) \ {e})
  <2>1. e \notin Listed(rows) \ {e}
    OBVIOUS
  <2> HIDE DEF u, out
  <2> QED BY <1>3, <1>4, <2>1, Forgotten DEF u, out
<1>7. Ordered(Unset(u, e), now \ {e}) /\ Ordered(Join(u, e, e), now \ {e})
  BY <1>5, <1>6, BecomesOrdered
<1> QED BY <1>3, <1>7 DEF INIT_LIST_HEAD

(***************************************************************************)
(* list_del, list_del_init and __list_del_clearprev keep the invariant.    *)
(***************************************************************************)
LEMMA DelKeeps ==
  ASSUME IInv, NEW e \in Entries, Del(e)
  PROVE  IInv'
<1>1. /\ Ordered(Unset(Unlink(links, e), e), linked \ {e})
      /\ Ordered(INIT_LIST_HEAD(Unlink(links, e), e), linked \ {e})
  BY TakenOff DEF IInv, Del
<1> QED BY <1>1, DoesKeeps DEF Del

(***************************************************************************)
(* list_replace and list_replace_init of an entry keep the invariant.      *)
(***************************************************************************)
LEMMA ReplaceEntryKeeps ==
  ASSUME IInv, NEW old \in Entries, NEW new \in Entries, Replace(old, new)
  PROVE  IInv'
<1>1. PICK rows : Laid(links, rows) /\ linked = Covered(rows)
  BY DEF IInv, Ordered
<1>2. /\ old \in linked /\ new \notin Listed(rows) /\ new # old
      /\ old \in Nodes /\ old \notin DOMAIN rows /\ new \notin DOMAIN rows
  BY <1>1, NodesAssumption DEF Replace, Covered, Laid, Nodes
<1>3. PICK h, i : Stands(rows, h, i, old)
  BY <1>1, <1>2, CoveredHasPlace
<1> DEFINE m   == list_replace(links, old, new)
           ent == (Listed(rows) \ {old}) \cup {new}
<1>4. Becomes(m, RowIn(RowOut(rows, h, i, i), h, i - 1, <<new>>), DOMAIN rows, ent)
  BY <1>1, <1>2, <1>3, ReplaceEntry
<1> HIDE DEF m
<1>5. Ordered(Unset(m, old), DOMAIN rows \cup ent) /\ Ordered(Join(m, old, old), DOMAIN rows \cup ent)
  <2>1. old \notin ent
    BY <1>2
  <2> HIDE DEF ent
  <2> QED BY <1>2, <1>4, <2>1, Forgotten, BecomesOrdered
<1>6. /\ DOMAIN rows \cup ent = (linked \ {old}) \cup {new}
      /\ DOMAIN rows \cup ent = (linked \ ({old} \cap Entries)) \cup {new}
  BY <1>1, <1>2 DEF Covered
<1> HIDE DEF ent
<1>7. /\ Ordered(Unset(m, old), (linked \ {old}) \cup {new})
      /\ Ordered(INIT_LIST_HEAD(m, old), (linked \ ({old} \cap Entries)) \cup {new})
  BY <1>5, <1>6 DEF INIT_LIST_HEAD
<1> QED BY <1>7, DoesKeeps DEF Replace, m

(***************************************************************************)
(* list_replace and list_replace_init of a head keep the invariant.        *)
(***************************************************************************)
LEMMA ReplaceHeadKeeps ==
  ASSUME IInv, NEW g \in Heads, NEW h \in Heads, Replace(g, h)
  PROVE  IInv'
<1>1. PICK rows : Laid(links, rows) /\ linked = Covered(rows)
  BY DEF IInv, Ordered
<1>2. g \in DOMAIN rows /\ h \notin DOMAIN rows /\ g # h /\ g \in Nodes
  BY <1>1, CoveredIs DEF Replace, Covered, Nodes
<1> DEFINE m     == list_replace(links, g, h)
           heads == (DOMAIN rows \ {g}) \cup {h}
<1>3. PICK new : Becomes(m, new, heads, Listed(rows))
  BY <1>1, <1>2, HeadReplaced
<1> HIDE DEF m
<1>4. g \notin heads /\ g \notin Listed(rows)
  BY <1>1, <1>2, CoveredIs, NodesAssumption
<1>5. Ordered(Unset(m, g), heads \cup Listed(rows))
  <2> HIDE DEF heads
  <2> QED BY <1>2, <1>3, <1>4, Forgotten, BecomesOrdered
<1>6. Ordered(INIT_LIST_HEAD(m, g), (heads \cup {g}) \cup Listed(rows))
  <2>1. Laid(m, new) /\ DOMAIN new = heads /\ Listed(new) = Listed(rows) /\ g \notin DOMAIN new
    BY <1>3, <1>4 DEF Becomes
  <2> HIDE DEF heads
  <2>2. Becomes(INIT_LIST_HEAD(m, g), RowAt(new, g, <<>>), heads \cup {g}, Listed(rows))
    BY <2>1, HeadInitialized DEF Becomes
  <2> QED BY <2>2, BecomesOrdered
<1>7. /\ heads \cup Listed(rows) = (linked \ {g}) \cup {h}
      /\ (heads \cup {g}) \cup Listed(rows) = (linked \ ({g} \cap Entries)) \cup {h}
  BY <1>1, <1>2, <1>4, NodesAssumption DEF Covered
<1> QED BY <1>5, <1>6, <1>7, DoesKeeps DEF Replace, m

(***************************************************************************)
(* list_swap keeps the invariant.                                          *)
(***************************************************************************)
LEMMA SwapKeeps ==
  ASSUME IInv, NEW d \in Entries, NEW e \in Entries, Swap(d, e)
  PROVE  IInv'
<1>1. PICK rows : Laid(links, rows) /\ linked = Covered(rows)
  BY DEF IInv, Ordered
<1>2. d \in Listed(rows) /\ e \in Listed(rows) /\ d # e
  BY <1>1, CoveredIs DEF Swap
<1>3. PICK new : Becomes(list_swap(links, d, e), new, DOMAIN rows, Listed(rows))
  BY <1>1, <1>2, SwapEntries
<1>4. Ordered(list_swap(links, d, e), linked)
  BY <1>1, <1>3, BecomesOrdered DEF Covered
<1> QED BY <1>4, DoesKeeps DEF Swap

(***************************************************************************)
(* An entry moved to the beginning or the end of a list.                   *)
(***************************************************************************)
LEMMA MovedOn ==
  ASSUME NEW l, NEW now, Ordered(l, now), NEW e \in Entries, NEW h \in Heads, e \in now, h \in now
  PROVE  Ordered(list_move(l, e, h), now) /\ Ordered(list_move_tail(l, e, h), now)
<1>1. PICK rows : Laid(l, rows) /\ now = Covered(rows)
  BY DEF Ordered
<1>2. h \in DOMAIN rows
  BY <1>1, CoveredIs
<1>3. PICK g, i : Stands(rows, g, i, e)
  BY <1>1, CoveredHasPlace
<1> DEFINE out == RowOut(rows, g, i, i)
<1>4. /\ Becomes(list_move(l, e, h), RowIn(out, h, 0, <<e>>), DOMAIN rows, Listed(rows))
      /\ Becomes(list_move_tail(l, e, h), RowIn(out, h, Len(out[h]), <<e>>),
                 DOMAIN rows, Listed(rows))
  BY <1>1, <1>2, <1>3, MoveEntry
<1> QED BY <1>1, <1>4, BecomesOrdered DEF Covered

(***************************************************************************)
(* list_move and list_move_tail keep the invariant.                        *)
(***************************************************************************)
LEMMA MoveKeeps ==
  ASSUME IInv, NEW e \in Entries, NEW h \in Heads, Move(e, h)
  PROVE  IInv'
<1>1. Ordered(list_move(links, e, h), linked) /\ Ordered(list_move_tail(links, e, h), linked)
  BY MovedOn DEF IInv, Move
<1> QED BY <1>1, DoesKeeps DEF Move

(***************************************************************************)
(* list_bulk_move_tail keeps the invariant.                                *)
(***************************************************************************)
LEMMA BulkMoveTailKeeps ==
  ASSUME IInv, NEW h \in Heads, NEW first \in Entries, NEW last \in Entries,
         BulkMoveTail(h, first, last)
  PROVE  IInv'
<1>1. PICK rows : Laid(links, rows) /\ linked = Covered(rows)
  BY DEF IInv, Ordered
<1>2. h \in DOMAIN rows
  BY <1>1, CoveredIs DEF BulkMoveTail
<1>3. PICK i \in DOMAIN rows[h], j \in DOMAIN rows[h] :
        i <= j /\ rows[h][i] = first /\ rows[h][j] = last
  BY <1>1, <1>2, RowIs DEF BulkMoveTail
<1>4. i \in 1..Len(rows[h]) /\ j \in i..Len(rows[h])
  <2>1. rows[h] \in Seq(Entries)
    BY <1>1, <1>2, Neighbours
  <2> QED BY <1>3, <2>1
<1>5. Becomes(list_bulk_move_tail(links, h, first, last),
              RowIn(RowOut(rows, h, i, j), h, Len(rows[h]) - (j - i + 1), Segment(rows[h], i, j)),
              DOMAIN rows, Listed(rows))
  BY <1>1, <1>2, <1>3, <1>4, MoveSegment
<1>6. Ordered(list_bulk_move_tail(links, h, first, last), linked)
  BY <1>1, <1>5, BecomesOrdered DEF Covered
<1> QED BY <1>6, DoesKeeps DEF BulkMoveTail

(***************************************************************************)
(* list_rotate_left keeps the invariant, also of an empty list.            *)
(***************************************************************************)
LEMMA RotateLeftKeeps ==
  ASSUME IInv, NEW h \in Heads, RotateLeft(h)
  PROVE  IInv'
<1>1. Ordered(links, linked) /\ h \in linked
  BY DEF IInv, RotateLeft
<1>2. CASE list_empty(links, h)
  BY <1>1, <1>2, DoesKeeps DEF RotateLeft
<1>3. CASE ~list_empty(links, h)
  <2>1. PICK rows : Laid(links, rows) /\ linked = Covered(rows)
    BY <1>1 DEF Ordered
  <2>2. h \in DOMAIN rows /\ Len(rows[h]) # 0
    BY <1>1, <1>3, <2>1, CoveredIs, EmptyRow
  <2>3. /\ Len(rows[h]) \in Nat /\ rows[h] \in Seq(Entries) /\ Place(h, rows[h], 0) = h
        /\ \A x \in 0..Len(rows[h]) : links.next[Place(h, rows[h], x)] = Place(h, rows[h], x + 1)
        /\ \A x \in 1..Len(rows[h]) : Place(h, rows[h], x) = rows[h][x]
    BY <2>1, <2>2, Neighbours, SMTT(30)
  <2>4. 0 \in 0..Len(rows[h]) /\ 1 \in 1..Len(rows[h]) /\ 0 + 1 = 1
    BY <2>2, <2>3
  <2>5. links.next[h] = rows[h][1]
    BY <2>3, <2>4
  <2>6. links.next[h] \in Entries /\ links.next[h] \in linked
    <3>1. rows[h][1] \in Standing(rows[h])
      BY <2>4 DEF Standing
    <3> QED BY <2>1, <2>2, <2>5, <3>1, CoveredIs
  <2>7. Ordered(list_move_tail(links, links.next[h], h), linked)
    BY <1>1, <2>6, MovedOn
  <2> QED BY <1>3, <2>7, DoesKeeps DEF RotateLeft
<1> QED BY <1>2, <1>3

(***************************************************************************)
(* The entries of a row, as a set.                                         *)
(***************************************************************************)
LEMMA StandsIn ==
  ASSUME NEW r \in Seq(Entries)
  PROVE  ToSet(r) = Standing(r) /\ DOMAIN r = 1..Len(r)
<1>1. DOMAIN r = 1..Len(r)
  BY LenProperties
<1> QED BY <1>1 DEF ToSet, Standing

(***************************************************************************)
(* list_rotate_to_front keeps the invariant.                               *)
(***************************************************************************)
LEMMA RotateToFrontKeeps ==
  ASSUME IInv, NEW e \in Entries, NEW h \in Heads, RotateToFront(e, h)
  PROVE  IInv'
<1>1. PICK rows : Laid(links, rows) /\ linked = Covered(rows)
  BY DEF IInv, Ordered
<1>2. h \in DOMAIN rows
  BY <1>1, CoveredIs DEF RotateToFront
<1>3. PICK k \in 1..Len(rows[h]) : rows[h][k] = e
  <2>1. rows[h] \in Seq(Entries) /\ Row(h) = rows[h]
    BY <1>1, <1>2, Neighbours, RowIs
  <2>2. e \in Standing(rows[h])
    BY <2>1, StandsIn DEF RotateToFront
  <2> QED BY <2>2 DEF Standing
<1>4. Stands(rows, h, k, e)
  BY <1>2, <1>3 DEF Stands
<1>5. PICK new : Becomes(list_move_tail(links, h, e), new, DOMAIN rows, Listed(rows))
  BY <1>1, <1>4, RotateFront
<1>6. Ordered(list_move_tail(links, h, e), linked)
  BY <1>1, <1>5, BecomesOrdered DEF Covered
<1> QED BY <1>6, DoesKeeps DEF RotateToFront

(***************************************************************************)
(* list_cut_position and list_cut_before keep the invariant, also where    *)
(* list_cut_position notices that the entry is not on the list.            *)
(***************************************************************************)
LEMMA CutKeeps ==
  ASSUME IInv, NEW g \in Heads, NEW h \in Heads, NEW e \in Entries \cup {h}, Cut(g, h, e)
  PROVE  IInv'
<1>1. PICK rows : Laid(links, rows) /\ linked = Covered(rows)
  BY DEF IInv, Ordered
<1>2. /\ h \in DOMAIN rows /\ g # h
      /\ g \in DOMAIN rows => rows[g] = <<>>
  BY <1>1, CoveredIs, EmptyRow DEF Cut, Covered
<1> DEFINE on == e \in ToSet(Row(h)) \cup {h}
<1>3. on => e \in {h} \cup Standing(rows[h])
  <2>1. rows[h] \in Seq(Entries) /\ Row(h) = rows[h]
    BY <1>1, <1>2, Neighbours, RowIs
  <2> QED BY <2>1, StandsIn
<1>4. (DOMAIN rows \cup {g}) \cup Listed(rows) = linked \cup {g}
  BY <1>1 DEF Covered
<1> HIDE DEF on
<1>5. CannotCut(links, h, e) => Ordered(list_cut_position(links, g, h, e), linked)
  BY DEF list_cut_position, IInv
<1>6. on /\ ~CannotCut(links, h, e) => Ordered(list_cut_position(links, g, h, e), linked \cup {g})
  <2> SUFFICES ASSUME on, ~CannotCut(links, h, e)
               PROVE  Ordered(list_cut_position(links, g, h, e), linked \cup {g})
    OBVIOUS
  <2>1. PICK new : Becomes(list_cut_position(links, g, h, e), new, DOMAIN rows \cup {g}, Listed(rows))
    BY <1>1, <1>2, <1>3, CutPosition
  <2> QED BY <1>4, <2>1, BecomesOrdered
<1>7. on => Ordered(list_cut_before(links, g, h, e), linked \cup {g})
  <2> SUFFICES ASSUME on PROVE  Ordered(list_cut_before(links, g, h, e), linked \cup {g})
    OBVIOUS
  <2>1. PICK new : Becomes(list_cut_before(links, g, h, e), new, DOMAIN rows \cup {g}, Listed(rows))
    BY <1>1, <1>2, <1>3, CutBefore
  <2> QED BY <1>4, <2>1, BecomesOrdered
<1>8. \/ /\ on \/ CannotCut(links, h, e)
         /\ Does("cut_position", <<g, h, e>>, list_cut_position(links, g, h, e),
                 IF CannotCut(links, h, e) THEN linked ELSE linked \cup {g})
      \/ /\ on
         /\ Does("cut_before", <<g, h, e>>, list_cut_before(links, g, h, e), linked \cup {g})
  BY DEF Cut, on
<1>9. CASE /\ on \/ CannotCut(links, h, e)
           /\ Does("cut_position", <<g, h, e>>, list_cut_position(links, g, h, e),
                   IF CannotCut(links, h, e) THEN linked ELSE linked \cup {g})
  BY <1>5, <1>6, <1>9, DoesKeeps
<1>10. CASE /\ on
            /\ Does("cut_before", <<g, h, e>>, list_cut_before(links, g, h, e), linked \cup {g})
  BY <1>7, <1>10, DoesKeeps
<1> QED BY <1>8, <1>9, <1>10

(***************************************************************************)
(* The four forms of list_splice keep the invariant.                       *)
(***************************************************************************)
LEMMA SpliceKeeps ==
  ASSUME IInv, NEW g \in Heads, NEW h \in Heads, Splice(g, h)
  PROVE  IInv'
<1>1. PICK rows : Laid(links, rows) /\ linked = Covered(rows)
  BY DEF IInv, Ordered
<1>2. g \in DOMAIN rows /\ h \in DOMAIN rows /\ g # h /\ g \in Nodes
  BY <1>1, CoveredIs DEF Splice, Nodes
<1>3. PICK tail \in BOOLEAN :
        LET m == list_splice(links, g, h, tail)
            full == ~list_empty(links, g)
        IN  \/ Does(IF tail THEN "splice_tail" ELSE "splice", <<g, h>>,
                    IF full THEN Unset(m, g) ELSE m,
                    IF full THEN linked \ {g} ELSE linked)
            \/ Does(IF tail THEN "splice_tail_init" ELSE "splice_init", <<g, h>>,
                    IF full THEN INIT_LIST_HEAD(m, g) ELSE m, linked)
  BY DEF Splice
<1> DEFINE m == list_splice(links, g, h, tail)
<1>4. CASE list_empty(links, g)
  <2>1. Ordered(m, linked)
    BY <1>4 DEF list_splice, IInv
  <2> HIDE DEF m
  <2>2. \/ Does(IF tail THEN "splice_tail" ELSE "splice", <<g, h>>, m, linked)
        \/ Does(IF tail THEN "splice_tail_init" ELSE "splice_init", <<g, h>>, m, linked)
    BY <1>3, <1>4 DEF m
  <2> QED BY <2>1, <2>2, DoesKeeps
<1>5. CASE ~list_empty(links, g)
  <2>1. PICK new : Becomes(m, new, DOMAIN rows \ {g}, Listed(rows))
    BY <1>1, <1>2, <1>5, Grafted
  <2>2. g \notin Listed(rows)
    BY <1>1, <1>2, CoveredIs, NodesAssumption
  <2>3. \/ Does(IF tail THEN "splice_tail" ELSE "splice", <<g, h>>, Unset(m, g), linked \ {g})
        \/ Does(IF tail THEN "splice_tail_init" ELSE "splice_init", <<g, h>>,
                INIT_LIST_HEAD(m, g), linked)
    BY <1>3, <1>5
  <2> HIDE DEF m
  <2>4. Ordered(Unset(m, g), linked \ {g})
    <3>1. (DOMAIN rows \ {g}) \cup Listed(rows) = linked \ {g}
      BY <1>1, <2>2 DEF Covered
    <3>2. Becomes(Unset(m, g), new, DOMAIN rows \ {g}, Listed(rows))
      BY <1>2, <2>1, <2>2, Forgotten
    <3> QED BY <3>1, <3>2, BecomesOrdered
  <2>5. Ordered(INIT_LIST_HEAD(m, g), linked)
    <3>1. Laid(m, new) /\ DOMAIN new = DOMAIN rows \ {g} /\ Listed(new) = Listed(rows)
      BY <2>1 DEF Becomes
    <3>2. Becomes(INIT_LIST_HEAD(m, g), RowAt(new, g, <<>>), DOMAIN rows, Listed(rows))
      <4>1. (DOMAIN rows \ {g}) \cup {g} = DOMAIN rows
        BY <1>2
      <4>2. g \notin DOMAIN new
        BY <3>1
      <4>3. /\ Laid(INIT_LIST_HEAD(m, g), RowAt(new, g, <<>>))
            /\ DOMAIN RowAt(new, g, <<>>) = DOMAIN new \cup {g}
            /\ Listed(RowAt(new, g, <<>>)) = Listed(new)
        BY <3>1, <4>2, HeadInitialized
      <4> QED BY <3>1, <4>1, <4>3 DEF Becomes
    <3> QED BY <1>1, <3>2, BecomesOrdered DEF Covered
  <2> QED BY <2>3, <2>4, <2>5, DoesKeeps
<1> QED BY <1>4, <1>5

(***************************************************************************)
(* A loop that begins has all of the list ahead of it, whichever way it    *)
(* goes.                                                                   *)
(***************************************************************************)
LEMMA LoopKeeps ==
  ASSUME IInv, NEW dir \in Dirs, NEW h \in Heads, Loop(dir, h)
  PROVE  IInv'
<1>1. PICK rows : Laid(links, rows) /\ linked = Covered(rows)
  BY DEF IInv, Ordered
<1>2. h \in DOMAIN rows /\ h \in linked /\ links' = links /\ linked' = linked
  BY <1>1, CoveredIs DEF Loop
<1> DEFINE r   == rows[h]
           due == ForEach(dir, h)
           pos == links[dir][h]
           w   == [head |-> h, dir |-> dir, due |-> due, at |-> Cursors(links, dir, pos)]
<1>3. r \in Seq(Entries) /\ OneToOne(r) /\ Standing(r) \subseteq linked
  BY <1>1, <1>2, Neighbours, CoveredIs
<1>4. /\ due \in Seq(Entries) /\ OneToOne(due) /\ Standing(due) \subseteq linked
      /\ Trail(links, dir, pos, h, due)
  <2> HIDE DEF r
  <2>1. CASE dir = "next"
    <3>1. due = r /\ Trail(links, "next", links["next"][h], h, r)
      BY <1>1, <1>2, <2>1, RowIs, WholeTrails DEF r
    <3> QED BY <1>3, <2>1, <3>1
  <2>2. CASE dir = "prev"
    <3>1. due = Reverse(r) /\ Trail(links, "prev", links["prev"][h], h, Reverse(r))
      BY <1>1, <1>2, <2>2, RowIs, WholeTrails DEF r
    <3>2. Reverse(r) \in Seq(Entries) /\ OneToOne(Reverse(r)) /\ Standing(Reverse(r)) = Standing(r)
      BY <1>3, ReversedIs
    <3> QED BY <1>3, <2>2, <3>1, <3>2
  <2> QED BY <2>1, <2>2 DEF Dirs
<1> HIDE DEF r, due
<1>5. \A x \in linked : links[dir][x] \in linked /\ x \in Nodes
  BY OrderedAgrees DEF IInv, Dirs
<1>6. pos \in linked /\ pos \in Nodes /\ links[dir][pos] \in Nodes
  BY <1>2, <1>5
<1>7. OnItsWay(links, linked, w)
  <2>1. Cursors(links, dir, pos) = [pos |-> pos, n |-> links[dir][pos]]
    BY <1>6 DEF Cursors
  <2> HIDE DEF pos
  <2> QED BY <1>2, <1>4, <1>6, <2>1 DEF OnItsWay
<1>8. walk' = w
  BY DEF Loop, due
<1> HIDE DEF w
<1> QED BY <1>2, <1>7, <1>8 DEF IInv

(***************************************************************************)
(* What the body of a safe loop does not touch: deleting the entry the     *)
(* loop is at changes no link that the loop has still to follow            *)
(* (transform.c:101, transform.c:150).                                     *)
(***************************************************************************)
LEMMA DueUntouched ==
  ASSUME NEW l, NEW now, Ordered(l, now), NEW w, OnItsWay(l, now, w), w.at.pos # w.head
  PROVE  /\ Len(w.due) \in Nat \ {0} /\ w.due[1] = w.at.pos
         /\ w.at.pos \in now /\ w.at.pos \in Entries
         /\ w.at.n \in now \ {w.at.pos}
         /\ \A i \in 2..Len(w.due) :
              Unset(Unlink(l, w.at.pos), w.at.pos)[w.dir][w.due[i]] = l[w.dir][w.due[i]]
<1> DEFINE c == w.due
           e == w.at.pos
           d == w.dir
           g == w.head
<1>1. /\ c \in Seq(Entries) /\ OneToOne(c) /\ Standing(c) \subseteq now
      /\ d \in Dirs /\ g \in Heads /\ g \in now /\ e \in Nodes
      /\ \A i \in 1..Len(c) : l[d][c[i]] = IF i < Len(c) THEN c[i + 1] ELSE g
      /\ e = IF Len(c) = 0 THEN g ELSE c[1]
      /\ w.at.n = l[d][e] /\ e # g
  BY DEF OnItsWay, Trail
<1> HIDE DEF c, e, d, g
<1>2. /\ Len(c) \in Nat \ {0} /\ c[1] = e /\ 1 \in 1..Len(c)
      /\ \A i \in 1..Len(c) : c[i] \in Entries /\ c[i] \in now
  <2>1. Len(c) \in Nat /\ \A i \in 1..Len(c) : c[i] \in Entries
    BY <1>1, LenProperties, ElementOfSeq
  <2> QED BY <1>1, <2>1 DEF Standing
<1>3. /\ l \in LinksType /\ now \subseteq Nodes
      /\ \A n \in now : /\ l.next[n] \in now /\ l.prev[l.next[n]] = n
                        /\ l.prev[n] \in now /\ l.next[l.prev[n]] = n
  BY OrderedAgrees
<1>4. e \in Entries /\ e \in now
  BY <1>2
<1>5. \A i \in 1..Len(c) : l[d][c[i]] # e
  <2>1. ASSUME NEW i \in 1..Len(c)
        PROVE  l[d][c[i]] # e
    <3>1. CASE i < Len(c)
      <4>1. i + 1 \in 1..Len(c) /\ i + 1 # 1
        BY <1>2, <3>1
      <4>2. c[i + 1] # c[1]
        BY <1>1, <1>2, <4>1 DEF OneToOne
      <4> QED BY <1>1, <1>2, <3>1, <4>2
    <3>2. CASE ~(i < Len(c))
      BY <1>1, <3>2
    <3> QED BY <3>1, <3>2
  <2> QED BY <2>1
<1>6. l[d][e] \in now /\ l[d][e] # e
  <2>1. l[d][e] \in now
    BY <1>1, <1>3, <1>4 DEF Dirs
  <2> QED BY <1>2, <1>5, <2>1
<1> DEFINE u == Unlink(l, e)
           m == Unset(u, e)
<1>7. Joined(u, l, l.prev[e], l.next[e])
  BY <1>4, TakenOff
<1>8. u \in LinksType
  BY <1>7 DEF Joined
<1> HIDE DEF u
<1>9. \A x \in Nodes \ {e} : m.next[x] = u.next[x] /\ m.prev[x] = u.prev[x]
  BY <1>1, <1>8, UnsetIs
<1> HIDE DEF m
<1>10. ASSUME NEW i \in 2..Len(c)
       PROVE  m[d][c[i]] = l[d][c[i]]
  <2>1. i \in 1..Len(c) /\ i # 1
    BY <1>2
  <2>2. c[i] \in Nodes \ {e} /\ c[i] \in now
    <3>1. c[i] # c[1]
      BY <1>1, <1>2, <2>1 DEF OneToOne
    <3> QED BY <1>2, <1>3, <2>1, <3>1
  <2>3. CASE d = "next"
    <3>1. c[i] # l.prev[e]
      BY <1>3, <1>4, <1>5, <2>1, <2>3
    <3> QED BY <1>7, <1>9, <2>2, <2>3, <3>1 DEF Joined
  <2>4. CASE d = "prev"
    <3>1. c[i] # l.next[e]
      BY <1>3, <1>4, <1>5, <2>1, <2>4
    <3> QED BY <1>7, <1>9, <2>2, <2>4, <3>1 DEF Joined
  <2> QED BY <1>1, <2>3, <2>4 DEF Dirs
<1> QED BY <1>1, <1>2, <1>4, <1>6, <1>10 DEF c, e, d, u, m

(***************************************************************************)
(* One step of a safe loop: if what is still due is linked as before, the  *)
(* loop goes on to the next entry that is due, or has come to the head.    *)
(***************************************************************************)
LEMMA StepOn ==
  ASSUME NEW l, NEW now, NEW w, OnItsWay(l, now, w), w.at.pos # w.head,
         Len(w.due) \in Nat \ {0},
         NEW m, NEW left, Ordered(m, left), w.at.n \in left, w.head \in left,
         \A i \in 2..Len(w.due) : w.due[i] \in left /\ m[w.dir][w.due[i]] = l[w.dir][w.due[i]]
  PROVE  OnItsWay(m, left, [w EXCEPT !.due = SubSeq(@, 2, Len(@)),
                                     !.at = Advance(m, w.dir, @)])
<1> DEFINE c == w.due
           e == w.at.pos
           d == w.dir
           g == w.head
           k == Len(c)
           t == SubSeq(c, 2, k)
           n == w.at.n
           v == [w EXCEPT !.due = SubSeq(@, 2, Len(@)), !.at = Advance(m, w.dir, @)]
<1>1. /\ w \in [head : Heads, dir : Dirs, due : Seq(Entries), at : [pos : Nodes, n : Nodes]]
      /\ c \in Seq(Entries) /\ OneToOne(c) /\ d \in Dirs /\ g \in Heads /\ n \in Nodes
      /\ g \in Nodes /\ c \in Seq(Nodes \ {g}) /\ k <= Cardinality(Nodes)
      /\ \A i \in 1..k : l[d][c[i]] = IF i < k THEN c[i + 1] ELSE g
      /\ e = c[1] /\ n = l[d][e]
  BY DEF OnItsWay, Trail
<1>2. m[d][n] \in Nodes
  <2>1. \A x \in left : m.next[x] \in Nodes /\ m.prev[x] \in Nodes
    BY OrderedAgrees
  <2> QED BY <1>1, <2>1 DEF Dirs
<1>3. v = [head |-> g, dir |-> d, due |-> t, at |-> [pos |-> n, n |-> m[d][n]]]
  <2>1. Advance(m, d, w.at) = [pos |-> n, n |-> m[d][n]]
    BY <1>1 DEF Advance, Cursors
  <2>2. v = [w EXCEPT !.due = t, !.at = [pos |-> n, n |-> m[d][n]]]
    BY <2>1
  <2> HIDE DEF v, t
  <2> QED BY <1>1, <2>2
<1>4. \A i \in 2..k : c[i] \in left /\ m[d][c[i]] = l[d][c[i]]
  OBVIOUS
<1>5. k \in Nat /\ k > 0 /\ Cardinality(Nodes) \in Nat /\ n \in left /\ g \in left
  <2>1. IsFiniteSet(Nodes)
    BY NodesAssumption DEF Nodes
  <2> QED BY <2>1, FS_CardinalityType
<1>6. /\ \A i \in 1..k : c[i] \in Entries /\ c[i] \in Nodes \ {g}
      /\ \A i, j \in 1..k : c[i] = c[j] => i = j
  BY <1>1, ElementOfSeq DEF OneToOne
<1> HIDE DEF c, e, d, g, n, k
<1>7. /\ t \in Seq(Entries) /\ t \in Seq(Nodes \ {g}) /\ Len(t) = k - 1
      /\ \A i \in 1..k - 1 : t[i] = c[i + 1]
  <2>1. /\ 2 \in Int /\ k \in Int /\ k - 2 + 1 = k - 1
        /\ ~(2 <= k) => k - 1 = 0
        /\ \A i \in Int : 2 + i - 1 = i + 1
        /\ \A i \in 2..k : i \in 1..k
    BY <1>5
  <2>2. \A i \in 2..k : c[i] \in Entries /\ c[i] \in Nodes \ {g}
    BY <1>6, <2>1
  <2>3. /\ t \in Seq(Entries) /\ Len(t) = IF 2 <= k THEN k - 2 + 1 ELSE 0
        /\ \A i \in 1..k - 2 + 1 : t[i] = c[2 + i - 1]
    BY <2>1, <2>2, SubSeqProperties
  <2>4. t \in Seq(Nodes \ {g})
    BY <2>1, <2>2, SubSeqProperties
  <2> HIDE DEF t
  <2>5. Len(t) = k - 1
    BY <1>5, <2>1, <2>3
  <2> QED BY <2>1, <2>3, <2>4, <2>5
<1> HIDE DEF t
<1>8. \A i \in 1..Len(t) : i + 1 \in 2..k /\ i + 1 \in 1..k
  BY <1>5, <1>7
<1>9. OneToOne(t)
  <2>1. ASSUME NEW i \in 1..Len(t), NEW j \in 1..Len(t), t[i] = t[j]
        PROVE  i = j
    <3>1. c[i + 1] = c[j + 1]
      BY <1>7, <2>1
    <3>2. i + 1 = j + 1
      BY <1>6, <1>8, <3>1
    <3> QED BY <3>2
  <2> QED BY <2>1 DEF OneToOne
<1>10. Standing(t) \subseteq left
  <2>1. \A i \in 1..Len(t) : t[i] \in left
    BY <1>4, <1>7, <1>8
  <2> QED BY <2>1 DEF Standing
<1>11. Trail(m, d, n, g, t)
  <2>1. ASSUME NEW i \in 1..Len(t)
        PROVE  m[d][t[i]] = IF i < Len(t) THEN t[i + 1] ELSE g
    <3>1. m[d][t[i]] = IF i + 1 < k THEN c[(i + 1) + 1] ELSE g
      BY <1>1, <1>4, <1>7, <1>8
    <3>2. i + 1 < k <=> i < Len(t)
      BY <1>5, <1>7
    <3>3. i < Len(t) => t[i + 1] = c[(i + 1) + 1]
      <4>1. i < Len(t) => i + 1 \in 1..k - 1
        BY <1>5, <1>7
      <4> QED BY <1>7, <4>1
    <3> QED BY <3>1, <3>2, <3>3
  <2>2. n = IF Len(t) = 0 THEN g ELSE t[1]
    <3>1. n = IF 1 < k THEN c[1 + 1] ELSE g
      BY <1>1, <1>5
    <3>2. CASE Len(t) = 0
      <4>1. ~(1 < k)
        BY <1>5, <1>7, <3>2
      <4> QED BY <3>1, <3>2, <4>1
    <3>3. CASE Len(t) # 0
      <4>1. 1 < k /\ 1 \in 1..k - 1
        BY <1>5, <1>7, <3>3
      <4> QED BY <1>7, <3>1, <3>3, <4>1
    <3> QED BY <3>2, <3>3
  <2>3. Len(t) <= Cardinality(Nodes)
    BY <1>1, <1>5, <1>7
  <2> QED BY <1>1, <1>7, <2>1, <2>2, <2>3 DEF Trail
<1> HIDE DEF v
<1>12. OnItsWay(m, left, v)
  BY <1>1, <1>2, <1>3, <1>5, <1>7, <1>9, <1>10, <1>11 DEF OnItsWay
<1> QED BY <1>12 DEF v

(***************************************************************************)
(* An iteration keeps the invariant, whether its body deletes the entry it *)
(* is at or not.                                                           *)
(***************************************************************************)
LEMMA IterateKeeps ==
  ASSUME IInv, Iterate
  PROVE  IInv'
<1> DEFINE e == walk.at.pos
           m == Unset(Unlink(links, e), e)
<1>1. /\ walk # NoLoop /\ e # walk.head
      /\ Ordered(links, linked) /\ OnItsWay(links, linked, walk)
      /\ walk' = [walk EXCEPT !.due = SubSeq(@, 2, Len(@)), !.at = Advance(links', walk.dir, @)]
  BY DEF IInv, Iterate
<1>2. /\ Len(walk.due) \in Nat \ {0} /\ walk.due[1] = e /\ e \in linked /\ e \in Entries
      /\ walk.at.n \in linked \ {e}
      /\ \A i \in 2..Len(walk.due) : m[walk.dir][walk.due[i]] = links[walk.dir][walk.due[i]]
  BY <1>1, DueUntouched
<1>3. /\ walk.head \in linked /\ walk.head \in Heads /\ OneToOne(walk.due)
      /\ walk.due \in Seq(Entries) /\ Standing(walk.due) \subseteq linked
  BY <1>1 DEF OnItsWay
<1>4. \A i \in 2..Len(walk.due) : walk.due[i] \in linked \ {e}
  <2>1. \A i \in 2..Len(walk.due) : i \in 1..Len(walk.due) /\ 1 \in 1..Len(walk.due) /\ i # 1
    BY <1>2
  <2>2. \A i \in 2..Len(walk.due) : walk.due[i] \in linked
    BY <1>3, <2>1 DEF Standing
  <2>3. \A i \in 2..Len(walk.due) : walk.due[i] # walk.due[1]
    BY <1>3, <2>1 DEF OneToOne
  <2> QED BY <1>2, <2>2, <2>3
<1>5. \/ links' = links /\ linked' = linked
      \/ links' = m /\ linked' = linked \ {e}
  BY DEF Iterate
<1> HIDE DEF e, m
<1>6. CASE links' = links /\ linked' = linked
  <2>1. OnItsWay(links', linked', walk')
    BY <1>1, <1>2, <1>3, <1>4, <1>6, StepOn DEF e
  <2> QED BY <1>1, <1>6, <2>1 DEF IInv
<1>7. CASE links' = m /\ linked' = linked \ {e}
  <2>1. Ordered(m, linked \ {e})
    BY <1>1, <1>2, TakenOff DEF m
  <2>2. walk.head \in linked \ {e}
    BY <1>1, <1>3
  <2>3. OnItsWay(m, linked \ {e},
                 [walk EXCEPT !.due = SubSeq(@, 2, Len(@)), !.at = Advance(m, walk.dir, @)])
    BY <1>1, <1>2, <1>4, <2>1, <2>2, StepOn DEF e
  <2> QED BY <1>1, <1>7, <2>1, <2>3 DEF IInv
<1> QED BY <1>5, <1>6, <1>7

(***************************************************************************)
(* The end of a loop keeps the invariant.                                  *)
(***************************************************************************)
LEMMA EndLoopKeeps == IInv /\ EndLoop => IInv'
BY DEF IInv, EndLoop

(***************************************************************************)
(* The inductive invariant, for any heads and entries: at every moment     *)
(* there are rows that the links lay out, of exactly the heads that are    *)
(* initialized and the entries that are on a list; and a loop that is      *)
(* under way has a trail ahead of it that is what it has still to visit.   *)
(***************************************************************************)
THEOREM Keeps == Spec => []IInv
<1>1. Init => IInv
  BY InitialOrder
<1>2. IInv /\ [Next]_vars => IInv'
  <2> SUFFICES ASSUME IInv, [Next]_vars PROVE IInv'
    OBVIOUS
  <2>1. CASE \E h \in Heads : InitHead(h) \/ RotateLeft(h)
    BY <2>1, InitHeadKeeps, RotateLeftKeeps
  <2>2. CASE \E e \in Entries, h \in Heads : Add(e, h) \/ Move(e, h) \/ RotateToFront(e, h)
    BY <2>2, AddKeeps, MoveKeeps, RotateToFrontKeeps
  <2>3. CASE \E e \in Entries : Del(e)
    BY <2>3, DelKeeps
  <2>4. CASE \E d, e \in Entries : Replace(d, e) \/ Swap(d, e)
    BY <2>4, ReplaceEntryKeeps, SwapKeeps
  <2>5. CASE \E h \in Heads, d, e \in Entries : BulkMoveTail(h, d, e)
    BY <2>5, BulkMoveTailKeeps
  <2>6. CASE \E g, h \in Heads : Replace(g, h) \/ Splice(g, h)
    BY <2>6, ReplaceHeadKeeps, SpliceKeeps
  <2>7. CASE \E g, h \in Heads : \E e \in Entries \cup {h} : Cut(g, h, e)
    BY <2>7, CutKeeps
  <2>8. CASE \E h \in Heads, dir \in Dirs : Loop(dir, h)
    BY <2>8, LoopKeeps
  <2>9. CASE Walk
    BY <2>9, IterateKeeps, EndLoopKeeps DEF Walk
  <2>10. CASE UNCHANGED vars
    BY <2>10 DEF vars, IInv
  <2> QED BY <2>1, <2>2, <2>3, <2>4, <2>5, <2>6, <2>7, <2>8, <2>9, <2>10 DEF Next
<1> QED BY <1>1, <1>2, PTL DEF Spec

(***************************************************************************)
(* Type correctness: what a loop or an operation follows is always a node. *)
(***************************************************************************)
THEOREM TypesKept == Spec => []TypeOK
<1>1. IInv => TypeOK
  <2> SUFFICES ASSUME IInv PROVE TypeOK
    OBVIOUS
  <2>1. links \in LinksType /\ linked \subseteq Nodes
    BY OrderedAgrees DEF IInv
  <2>2. walk # NoLoop => /\ walk.head \in linked \cap Heads /\ walk.dir \in Dirs
                         /\ walk.due \in Seq(Entries)
                         /\ walk.at \in [pos : Nodes, n : Nodes]
    BY DEF IInv, OnItsWay
  <2> QED BY <2>1, <2>2 DEF TypeOK, LinksType
<1> QED BY <1>1, Keeps, PTL

(***************************************************************************)
(* No function of list.h, in any order of calls its comments allow, leaves *)
(* a one-sided link, or a link from what is on a list to what is not and   *)
(* may be freed.                                                           *)
(***************************************************************************)
THEOREM LinksAlwaysAgree == Spec => []LinksAgree
<1>1. IInv => LinksAgree
  BY OrderedAgrees DEF IInv, LinksAgree
<1> QED BY <1>1, Keeps, PTL

(***************************************************************************)
(* The loops that empty a list while they go over it (transform.c:101,     *)
(* transform.c:150) visit all that stood in it: nothing is skipped, and no *)
(* deleted entry is read.                                                  *)
(***************************************************************************)
THEOREM LoopsSeeAll == Spec => []LoopSeesAll
<1>1. IInv => LoopSeesAll
  <2> SUFFICES ASSUME IInv, walk # NoLoop
               PROVE  Visits(links, walk.dir, walk.at.pos, walk.head) = walk.due
    BY DEF LoopSeesAll
  <2>1. Trail(links, walk.dir, walk.at.pos, walk.head, walk.due)
    BY DEF IInv, OnItsWay
  <2> QED BY <2>1, VisitsIs
<1> QED BY <1>1, Keeps, PTL

(***************************************************************************)
(* Why such a loop comes to its end: each iteration is at the first entry  *)
(* that is still due and strikes it out, nothing else happens to the loop  *)
(* meanwhile, and it is over exactly when none is due.  A loop over n      *)
(* entries therefore has n iterations, whatever its body deletes           *)
(* (list.h:568-588, transform.c:101, transform.c:150).                     *)
(***************************************************************************)
OneEntryFewer ==
  /\ walk.due # <<>>
  /\ walk.at.pos = walk.due[1] /\ walk'.due = Tail(walk.due)
  /\ walk'.head = walk.head /\ walk'.dir = walk.dir

LoopsCountDown ==
  walk # NoLoop => OneEntryFewer \/ (walk.due = <<>> /\ walk' = NoLoop)

THEOREM LoopsComeToAnEnd == Spec => [][LoopsCountDown]_vars
<1>1. ASSUME IInv, Next, walk # NoLoop
      PROVE  OneEntryFewer \/ (walk.due = <<>> /\ walk' = NoLoop)
  <2>1. Iterate \/ EndLoop
    BY <1>1 DEF Next, Walk, Does, InitHead, RotateLeft, Add, Move, RotateToFront, Del,
       Replace, Swap, BulkMoveTail, Splice, Cut, Loop
  <2>2. Ordered(links, linked) /\ OnItsWay(links, linked, walk)
    BY <1>1 DEF IInv
  <2>3. CASE Iterate
    <3>1. /\ walk.at.pos # walk.head
          /\ walk' = [walk EXCEPT !.due = SubSeq(@, 2, Len(@)),
                                  !.at = Advance(links', walk.dir, @)]
      BY <2>3 DEF Iterate
    <3>2. Len(walk.due) \in Nat \ {0} /\ walk.due[1] = walk.at.pos
      BY <2>2, <3>1, DueUntouched
    <3>3. /\ walk \in [head : Heads, dir : Dirs, due : Seq(Entries),
                       at : [pos : Nodes, n : Nodes]]
      BY <2>2 DEF OnItsWay
    <3>4. /\ walk'.due = SubSeq(walk.due, 2, Len(walk.due))
          /\ walk'.head = walk.head /\ walk'.dir = walk.dir
      BY <3>1, <3>3
    <3>5. walk.due # <<>> /\ Tail(walk.due) = SubSeq(walk.due, 2, Len(walk.due))
      BY <3>2, <3>3
    <3> QED BY <3>2, <3>4, <3>5 DEF OneEntryFewer
  <2>4. CASE EndLoop
    <3>1. walk.at.pos = walk.head /\ walk' = NoLoop
      BY <2>4 DEF EndLoop
    <3>2. walk.due \in Seq(Nodes \ {walk.head})
          /\ walk.at.pos = IF Len(walk.due) = 0 THEN walk.head ELSE walk.due[1]
      BY <2>2 DEF OnItsWay, Trail
    <3>3. Len(walk.due) = 0
      <4>1. ASSUME Len(walk.due) # 0 PROVE walk.due[1] # walk.head
        BY <3>2, <4>1
      <4> QED BY <3>1, <3>2, <4>1
    <3> QED BY <3>1, <3>2, <3>3
  <2> QED BY <2>1, <2>3, <2>4
<1>2. IInv /\ [Next]_vars => [LoopsCountDown]_vars
  BY <1>1 DEF LoopsCountDown
<1> QED BY <1>2, Keeps, PTL DEF Spec

(***************************************************************************)
(* An entry that is on a list is on one list only.                         *)
(***************************************************************************)
LEMMA OnOneList ==
  ASSUME NEW rows, Laid(links, rows), linked = Covered(rows), NEW e \in OnList
  PROVE  Cardinality({h \in Heads \cap linked : e \in ToSet(Row(h))}) = 1
<1>1. PICK g \in DOMAIN rows : e \in Standing(rows[g])
  <2>1. e \in Listed(rows)
    BY CoveredIs DEF OnList
  <2> QED BY <2>1 DEF Listed
<1>2. /\ Heads \cap linked = DOMAIN rows
      /\ \A h \in DOMAIN rows : ToSet(Row(h)) = Standing(rows[h])
  BY CoveredIs, RowIs, StandsIn
<1>3. \A h \in DOMAIN rows : e \in Standing(rows[h]) => h = g
  BY <1>1, CoveredIs
<1>4. {h \in Heads \cap linked : e \in ToSet(Row(h))} = {g}
  BY <1>1, <1>2, <1>3
<1> QED BY <1>4, FS_Singleton

(***************************************************************************)
(* list_is_first, list_is_last, and the loops that go on from an entry or  *)
(* begin with it, at any position of a row (list.h:267-282, 634-676).      *)
(***************************************************************************)
LEMMA QueriesAt ==
  ASSUME NEW rows, Laid(links, rows), linked = Covered(rows), NEW h \in DOMAIN rows,
         NEW i \in 1..Len(rows[h])
  PROVE  LET r == rows[h]
         IN  /\ list_is_first(links, r[i], h) <=> i = 1
             /\ list_is_last(links, r[i], h) <=> i = Len(r)
             /\ Continue("next", r[i], h) = SubSeq(r, i + 1, Len(r))
             /\ From("prev", r[i], h) = Reverse(SubSeq(r, 1, i))
<1> DEFINE r == rows[h]
           n == Len(r)
<1>1. /\ n \in Nat /\ r \in Seq(Entries) /\ OneToOne(r)
      /\ Place(h, r, 0) = h /\ Place(h, r, n + 1) = h
      /\ \A x \in 0..n : links.next[Place(h, r, x)] = Place(h, r, x + 1)
      /\ \A x \in 1..n + 1 : links.prev[Place(h, r, x)] = Place(h, r, x - 1)
      /\ \A x \in 1..n : Place(h, r, x) = r[x]
      /\ h \in Heads /\ links \in LinksType /\ Chained(links, h, r)
  BY Neighbours DEF Laid
<1>2. i \in 1..n
  OBVIOUS
<1> HIDE DEF r
<1>3. \A x \in 1..n : r[x] # h
  BY <1>1, Places
<1>4. /\ i \in 0..n /\ i \in 1..n + 1 /\ i + 1 \in 1..n + 1
      /\ i # n => i + 1 \in 1..n
      /\ i = n => i + 1 = n + 1
      /\ i # 1 => i - 1 \in 1..n
      /\ i = 1 => i - 1 = 0
  BY <1>1, <1>2
<1>5. links.next[r[i]] = Place(h, r, i + 1) /\ links.prev[r[i]] = Place(h, r, i - 1) /\ r[i] = Place(h, r, i)
  BY <1>1, <1>2, <1>4
<1>6. list_is_first(links, r[i], h) <=> i = 1
  BY <1>1, <1>3, <1>4, <1>5 DEF list_is_first
<1>7. list_is_last(links, r[i], h) <=> i = n
  BY <1>1, <1>3, <1>4, <1>5 DEF list_is_last
<1>8. Continue("next", r[i], h) = SubSeq(r, i + 1, n)
  <2>1. Trail(links, "next", Place(h, r, i + 1), h, SubSeq(r, i + 1, n))
    BY <1>1, <1>4, TrailForward
  <2>2. Trail(links, "next", links["next"][r[i]], h, SubSeq(r, i + 1, n))
    BY <1>5, <2>1
  <2> QED BY <2>2, VisitsIs DEF Continue
<1>9. From("prev", r[i], h) = Reverse(SubSeq(r, 1, i))
  <2>1. Trail(links, "prev", Place(h, r, i), h, Reverse(SubSeq(r, 1, i)))
    BY <1>1, <1>4, TrailBackward
  <2>2. Trail(links, "prev", r[i], h, Reverse(SubSeq(r, 1, i)))
    BY <1>5, <2>1
  <2> QED BY <2>2, VisitsIs DEF From
<1> QED BY <1>6, <1>7, <1>8, <1>9 DEF r, n

(***************************************************************************)
(* Every listed entry is on one list, and the backward loops, the loops    *)
(* that go on from an entry and the queries of list.h tell of the same     *)
(* lists as the forward loop does, for lists of any length.                *)
(***************************************************************************)
THEOREM QueriesAlwaysAgree == Spec => []QueriesAgree
<1>1. IInv => QueriesAgree
  <2> SUFFICES ASSUME IInv PROVE QueriesAgree
    OBVIOUS
  <2>1. PICK rows : Laid(links, rows) /\ linked = Covered(rows)
    BY DEF IInv, Ordered
  <2>2. \A e \in OnList : Cardinality({h \in Heads \cap linked : e \in ToSet(Row(h))}) = 1
    BY <2>1, OnOneList
  <2>3. ASSUME NEW h \in Heads \cap linked
        PROVE  LET r == Row(h)
               IN  /\ ToSet(r) \subseteq OnList /\ IsInjective(r)
                   /\ ForEach("prev", h) = Reverse(r)
                   /\ list_empty(links, h) <=> r = <<>>
                   /\ list_is_singular(links, h) <=> Len(r) = 1
                   /\ \A i \in DOMAIN r :
                        /\ list_is_first(links, r[i], h) <=> i = 1
                        /\ list_is_last(links, r[i], h) <=> i = Len(r)
                        /\ Continue("next", r[i], h) = SubSeq(r, i + 1, Len(r))
                        /\ From("prev", r[i], h) = Reverse(SubSeq(r, 1, i))
    <3> DEFINE r == rows[h]
    <3>1. h \in DOMAIN rows
      BY <2>1, CoveredIs
    <3>2. Row(h) = r /\ ForEach("prev", h) = Reverse(r)
      BY <2>1, <3>1, RowIs
    <3>3. r \in Seq(Entries) /\ OneToOne(r)
      BY <2>1, <3>1, Neighbours
    <3>4. /\ list_empty(links, h) <=> r = <<>>
          /\ list_is_singular(links, h) <=> Len(r) = 1
      BY <2>1, <3>1, EmptyRow
    <3>5. ToSet(r) = Standing(r) /\ DOMAIN r = 1..Len(r)
      BY <3>3, StandsIn
    <3>6. Standing(r) \subseteq OnList
      BY <2>1, <3>1, CoveredIs DEF OnList
    <3>7. IsInjective(r)
      BY <3>3, <3>5 DEF IsInjective, OneToOne
    <3>8. \A i \in 1..Len(r) :
            /\ list_is_first(links, r[i], h) <=> i = 1
            /\ list_is_last(links, r[i], h) <=> i = Len(r)
            /\ Continue("next", r[i], h) = SubSeq(r, i + 1, Len(r))
            /\ From("prev", r[i], h) = Reverse(SubSeq(r, 1, i))
      BY <2>1, <3>1, QueriesAt
    <3> HIDE DEF r
    <3> QED BY <3>2, <3>4, <3>5, <3>6, <3>7, <3>8
  <2> QED BY <2>2, <2>3 DEF QueriesAgree
<1> QED BY <1>1, Keeps, PTL

(***************************************************************************)
(* The parts of a row that the proofs speak of, as Rows writes them.       *)
(***************************************************************************)
LEMMA PartsOfRow ==
  ASSUME NEW r \in Seq(Entries), NEW i \in 1..Len(r), NEW j \in i..Len(r)
  PROVE  /\ Taken(r, i, j) = SubSeq(r, 1, i - 1) \o SubSeq(r, j + 1, Len(r))
         /\ Segment(r, i, j) = SubSeq(r, i, j)
         /\ Taken(r, i, j) \in Seq(Entries) /\ Len(Taken(r, i, j)) = Len(r) - (j - i + 1)
         /\ Segment(r, i, j) \in Seq(Entries) /\ Len(Segment(r, i, j)) = j - i + 1
<1> DEFINE n == Len(r)
           d == j - i + 1
           t == Taken(r, i, j)
           s == Segment(r, i, j)
           a == SubSeq(r, 1, i - 1)
           b == SubSeq(r, j + 1, n)
           c == SubSeq(r, i, j)
<1>1. /\ n \in Nat /\ i \in 1..n /\ j \in 1..n /\ i <= j /\ d \in Nat /\ n - d \in Nat
      /\ \A x \in 1..n : r[x] \in Entries
  BY LenProperties, ElementOfSeq
<1>2. a \in Seq(Entries) /\ Len(a) = i - 1 /\ \A x \in 1..i - 1 : a[x] = r[x]
  BY <1>1
<1>3. b \in Seq(Entries) /\ Len(b) = n - j /\ \A x \in 1..n - j : b[x] = r[j + x]
  BY <1>1
<1>4. c \in Seq(Entries) /\ Len(c) = d /\ \A x \in 1..d : c[x] = r[i + x - 1]
  BY <1>1
<1>5. t \in [1..n - d -> Entries]
  BY <1>1 DEF Taken
<1>6. s \in [1..d -> Entries]
  BY <1>1 DEF Segment
<1>7. t \in Seq(Entries) /\ Len(t) = n - d
  BY <1>1, <1>5, IndexedIsSeq
<1>8. s \in Seq(Entries) /\ Len(s) = d
  BY <1>1, <1>6, IndexedIsSeq
<1>9. s = c
  <2>1. \A x \in 1..d : s[x] = c[x]
    BY <1>4 DEF Segment
  <2> HIDE DEF s, c, d
  <2> QED BY <2>1, <1>4, <1>8, SeqEqual
<1>10. t = a \o b
  <2>0. \A x \in 1..n - d : t[x] = IF x < i THEN r[x] ELSE r[x + d]
    BY DEF Taken
  <2> DEFINE ab == a \o b
  <2> HIDE DEF a, b, t
  <2>5. /\ ab \in Seq(Entries) /\ Len(ab) = Len(a) + Len(b)
        /\ \A x \in 1..Len(a) + Len(b) : ab[x] = IF x <= Len(a) THEN a[x] ELSE b[x - Len(a)]
    <3>1. a \in Seq(Entries) /\ b \in Seq(Entries)
      BY <1>2, <1>3
    <3> QED BY <3>1, ConcatProperties
  <2> HIDE DEF ab
  <2>1. /\ ab \in Seq(Entries) /\ Len(ab) = i - 1 + (n - j)
        /\ \A x \in 1..i - 1 + (n - j) : ab[x] = IF x <= i - 1 THEN a[x] ELSE b[x - (i - 1)]
    BY <1>2, <1>3, <2>5
  <2>2. i - 1 + (n - j) = n - d
    BY <1>1
  <2>3. ASSUME NEW x \in 1..n - d PROVE t[x] = ab[x]
    <3>1. CASE x < i
      <4>1. x \in 1..i - 1 /\ x <= i - 1
        BY <1>1, <3>1
      <4> QED BY <1>2, <2>0, <2>1, <2>2, <3>1, <4>1
    <3>2. CASE ~(x < i)
      <4>1. ~(x <= i - 1) /\ x - (i - 1) \in 1..n - j /\ j + (x - (i - 1)) = x + d
        BY <1>1, <2>2, <3>2
      <4> HIDE DEF d
      <4> QED BY <1>3, <2>0, <2>1, <2>2, <3>2, <4>1
    <3> QED BY <3>1, <3>2
  <2> HIDE DEF d
  <2>4. ab = t
    BY <1>7, <2>1, <2>2, <2>3, SeqEqual
  <2> QED BY <2>4 DEF ab
<1> QED BY <1>7, <1>8, <1>9, <1>10

(***************************************************************************)
(* What goes into a row at its beginning or at its end is concatenated     *)
(* with it.                                                                *)
(***************************************************************************)
LEMMA PutAtEnds ==
  ASSUME NEW r \in Seq(Entries), NEW s \in Seq(Entries)
  PROVE  Put(r, 0, s) = s \o r /\ Put(r, Len(r), s) = r \o s
<1>1. /\ Len(r) \in Nat /\ Len(s) \in Nat
      /\ \A x \in 1..Len(r) : r[x] \in Entries
      /\ \A x \in 1..Len(s) : s[x] \in Entries
  BY LenProperties, ElementOfSeq
<1>2. ASSUME NEW k \in {0, Len(r)}
      PROVE  /\ Put(r, k, s) \in Seq(Entries) /\ Len(Put(r, k, s)) = Len(r) + Len(s)
             /\ \A x \in 1..Len(r) + Len(s) :
                  Put(r, k, s)[x] = IF x <= k THEN r[x]
                                    ELSE IF x <= k + Len(s) THEN s[x - k] ELSE r[x - Len(s)]
  <2> DEFINE f == Put(r, k, s)
  <2>1. \A x \in 1..Len(r) + Len(s) :
                  f[x] = IF x <= k THEN r[x]
                         ELSE IF x <= k + Len(s) THEN s[x - k] ELSE r[x - Len(s)]
    BY DEF Put
  <2>2. f = [x \in 1..Len(r) + Len(s) |-> f[x]]
    BY DEF Put
  <2> HIDE DEF f
  <2>3. ASSUME NEW x \in 1..Len(r) + Len(s) PROVE f[x] \in Entries
    <3>1. CASE x <= k
      <4>1. x \in 1..Len(r)
        BY <1>1, <3>1
      <4> QED BY <1>1, <2>1, <3>1, <4>1
    <3>2. CASE ~(x <= k) /\ x <= k + Len(s)
      <4>1. x - k \in 1..Len(s)
        BY <1>1, <3>2
      <4> QED BY <1>1, <2>1, <3>2, <4>1
    <3>3. CASE ~(x <= k) /\ ~(x <= k + Len(s))
      <4>1. x - Len(s) \in 1..Len(r)
        BY <1>1, <3>3
      <4> QED BY <1>1, <2>1, <3>3, <4>1
    <3> QED BY <3>1, <3>2, <3>3
  <2>4. f \in [1..Len(r) + Len(s) -> Entries] /\ Len(r) + Len(s) \in Nat
    BY <1>1, <2>2, <2>3
  <2> QED BY <2>1, <2>4, IndexedIsSeq DEF f
<1>3. Put(r, 0, s) = s \o r
  <2> DEFINE f == Put(r, 0, s)
             c == s \o r
  <2>1. /\ c \in Seq(Entries) /\ Len(c) = Len(s) + Len(r)
        /\ \A x \in 1..Len(s) + Len(r) : c[x] = IF x <= Len(s) THEN s[x] ELSE r[x - Len(s)]
    BY ConcatProperties
  <2>2. /\ f \in Seq(Entries) /\ Len(f) = Len(r) + Len(s)
        /\ \A x \in 1..Len(r) + Len(s) :
             f[x] = IF x <= 0 THEN r[x] ELSE IF x <= 0 + Len(s) THEN s[x - 0] ELSE r[x - Len(s)]
    BY <1>2
  <2> HIDE DEF f, c
  <2>3. Len(s) + Len(r) = Len(r) + Len(s)
    BY <1>1
  <2>6. \A x \in 1..Len(r) + Len(s) : ~(x <= 0) /\ 0 + Len(s) = Len(s) /\ x - 0 = x
    BY <1>1
  <2>4. \A x \in 1..Len(r) + Len(s) : f[x] = c[x]
    BY <2>1, <2>2, <2>3, <2>6
  <2>5. f = c
    BY <2>1, <2>2, <2>3, <2>4, SeqEqual
  <2> QED BY <2>5 DEF f, c
<1>4. Put(r, Len(r), s) = r \o s
  <2> DEFINE f == Put(r, Len(r), s)
             c == r \o s
  <2>1. /\ c \in Seq(Entries) /\ Len(c) = Len(r) + Len(s)
        /\ \A x \in 1..Len(r) + Len(s) : c[x] = IF x <= Len(r) THEN r[x] ELSE s[x - Len(r)]
    BY ConcatProperties
  <2>2. /\ f \in Seq(Entries) /\ Len(f) = Len(r) + Len(s)
        /\ \A x \in 1..Len(r) + Len(s) :
             f[x] = IF x <= Len(r) THEN r[x]
                    ELSE IF x <= Len(r) + Len(s) THEN s[x - Len(r)] ELSE r[x - Len(s)]
    BY <1>2
  <2> HIDE DEF f, c
  <2>6. \A x \in 1..Len(r) + Len(s) : x <= Len(r) + Len(s)
    BY <1>1
  <2>4. \A x \in 1..Len(r) + Len(s) : f[x] = c[x]
    BY <2>1, <2>2, <2>6
  <2>5. f = c
    BY <2>1, <2>2, <2>4, SeqEqual
  <2> QED BY <2>5 DEF f, c
<1> QED BY <1>3, <1>4

(***************************************************************************)
(* An entry that is taken out and another put in its place: the row has    *)
(* the other in that place.                                                *)
(***************************************************************************)
LEMMA PutForTaken ==
  ASSUME NEW r \in Seq(Entries), NEW i \in 1..Len(r), NEW e \in Entries
  PROVE  Put(Taken(r, i, i), i - 1, <<e>>) = [r EXCEPT ![i] = e]
<1> DEFINE n == Len(r)
           t == Taken(r, i, i)
           f == Put(t, i - 1, <<e>>)
<1>1. n \in Nat /\ i \in 1..n /\ r = [x \in 1..n |-> r[x]]
  BY LenProperties
<1>2. Len(t) = n - 1 /\ \A x \in 1..n - 1 : t[x] = IF x < i THEN r[x] ELSE r[x + 1]
  <2>1. i \in i..Len(r) /\ i - i + 1 = 1
    BY <1>1
  <2>2. Len(t) = Len(r) - (i - i + 1)
    BY <2>1, PartsOfRow
  <2> QED BY <2>1, <2>2 DEF Taken
<1> HIDE DEF t
<1>3. f = [x \in 1..n - 1 + 1 |->
             IF x <= i - 1 THEN t[x] ELSE IF x <= i - 1 + 1 THEN <<e>>[x - (i - 1)] ELSE t[x - 1]]
  <2>1. Len(<<e>>) = 1
    OBVIOUS
  <2> QED BY <1>2, <2>1 DEF Put
<1> HIDE DEF f
<1>4. n - 1 + 1 = n
  BY <1>1
<1>5. ASSUME NEW x \in 1..n PROVE f[x] = [r EXCEPT ![i] = e][x]
  <2>1. CASE x < i
    BY <1>1, <1>2, <1>3, <1>4, <2>1
  <2>2. CASE x = i
    <3>1. x - (i - 1) = 1 /\ ~(x <= i - 1) /\ x <= i - 1 + 1
      BY <1>1, <2>2
    <3>2. f[x] = <<e>>[1]
      BY <1>3, <1>4, <3>1
    <3> QED BY <1>1, <2>2, <3>2
  <2>3. CASE x > i
    <3>1. ~(x <= i - 1) /\ ~(x <= i - 1 + 1) /\ x - 1 \in 1..n - 1 /\ ~(x - 1 < i) /\ x - 1 + 1 = x
          /\ x # i
      BY <1>1, <2>3
    <3>2. f[x] = t[x - 1]
      BY <1>3, <1>4, <3>1
    <3>3. t[x - 1] = r[x]
      BY <1>2, <3>1
    <3> QED BY <1>1, <3>1, <3>2, <3>3
  <2> QED BY <1>1, <2>1, <2>2, <2>3
<1>6. f = [x \in 1..n |-> f[x]]
  BY <1>3, <1>4
<1>7. [r EXCEPT ![i] = e] = [x \in 1..n |-> [r EXCEPT ![i] = e][x]]
  BY <1>1
<1>8. f = [r EXCEPT ![i] = e]
  BY <1>5, <1>6, <1>7
<1> QED BY <1>8 DEF f, t

\* The rows as Rows has them: a head without a list has no row.
Plain(rows) == [h \in Heads |-> IF h \in DOMAIN rows THEN rows[h] ELSE NoRow]

(***************************************************************************)
(* What the loops of list.h visit is what the links lay out.               *)
(***************************************************************************)
LEMMA RowsShown ==
  ASSUME NEW l, NEW now, NEW rows, Laid(l, rows), now = Covered(rows)
  PROVE  [h \in Heads |-> IF h \in now THEN Visits(l, "next", l["next"][h], h) ELSE NoRow]
           = Plain(rows)
<1>1. ASSUME NEW h \in Heads
      PROVE  (IF h \in now THEN Visits(l, "next", l["next"][h], h) ELSE NoRow)
               = (IF h \in DOMAIN rows THEN rows[h] ELSE NoRow)
  <2>1. h \in now <=> h \in DOMAIN rows
    BY CoveredIs
  <2>2. h \in DOMAIN rows => Visits(l, "next", l["next"][h], h) = rows[h]
    BY WholeTrails, VisitsIs
  <2> QED BY <2>1, <2>2
<1> QED BY <1>1 DEF Plain

(***************************************************************************)
(* How Rows sees a state of the links.                                     *)
(***************************************************************************)
LEMMA SeenAsRows ==
  ASSUME NEW rows, Laid(links, rows), linked = Covered(rows)
  PROVE  /\ Shown = Plain(rows) /\ DOMAIN Shown = Heads
         /\ R!Used = DOMAIN rows /\ DOMAIN rows \subseteq Heads
         /\ \A h \in DOMAIN rows : /\ Shown[h] = rows[h] /\ rows[h] \in Seq(Entries)
                                   /\ DOMAIN rows[h] = 1..Len(rows[h]) /\ Len(rows[h]) \in Nat
         /\ R!Idle = Entries \ Listed(rows)
<1>1. Shown = Plain(rows)
  BY RowsShown DEF Shown, Row, ForEach
<1>2. /\ DOMAIN Shown = Heads /\ DOMAIN rows \subseteq Heads
      /\ \A h \in DOMAIN rows : Shown[h] = rows[h]
      /\ \A h \in Heads \ DOMAIN rows : Shown[h] = NoRow
  BY <1>1 DEF Plain, Laid
<1>3. \A h \in DOMAIN rows : /\ rows[h] \in Seq(Entries) /\ DOMAIN rows[h] = 1..Len(rows[h])
                             /\ Len(rows[h]) \in Nat /\ ToSet(rows[h]) = Standing(rows[h])
  BY Neighbours, StandsIn
<1>4. R!Used = DOMAIN rows
  BY <1>2, <1>3, NodesAssumption DEF R!Used
<1>5. R!Listed = Listed(rows)
  <2>1. \A h \in DOMAIN rows : ToSet(Shown[h]) = Standing(rows[h])
    BY <1>2, <1>3
  <2> QED BY <1>4, <2>1 DEF R!Listed, Listed, R!ToSet, ToSet
<1> QED BY <1>1, <1>2, <1>3, <1>4, <1>5 DEF R!Idle

(***************************************************************************)
(* And how it sees the state that an operation leads to.                   *)
(***************************************************************************)
LEMMA SeenAfter ==
  ASSUME NEW m, NEW new, NEW heads, NEW entries, Becomes(m, new, heads, entries),
         links' = m, linked' = heads \cup entries
  PROVE  Shown' = Plain(new)
<1>1. [h \in Heads |-> IF h \in linked' THEN Visits(links', "next", links'["next"][h], h) ELSE NoRow]
        = Plain(new)
  <2>1. Laid(links', new) /\ linked' = Covered(new)
    BY DEF Becomes, Covered
  <2> QED BY <2>1, RowsShown
<1> QED BY <1>1 DEF Shown, Row, ForEach

(***************************************************************************)
(* A row that changes, and one that is given up, as Rows has it.           *)
(***************************************************************************)
LEMMA PlainChanges ==
  ASSUME NEW rows, NEW h \in Heads, NEW r
  PROVE  /\ Plain(RowAt(rows, h, r)) = [Plain(rows) EXCEPT ![h] = r]
         /\ Plain(WithoutHead(rows, h)) = [Plain(rows) EXCEPT ![h] = NoRow]
BY DEF Plain, RowAt, WithoutHead

(***************************************************************************)
(* A segment that goes in at an end of a row or out of it, as Rows has it. *)
(***************************************************************************)
LEMMA PlainSteps ==
  ASSUME NEW rows, NEW h \in Heads, h \in DOMAIN rows, rows[h] \in Seq(Entries)
  PROVE  /\ \A s \in Seq(Entries) :
              /\ Plain(RowIn(rows, h, 0, s)) = [Plain(rows) EXCEPT ![h] = s \o rows[h]]
              /\ Plain(RowIn(rows, h, Len(rows[h]), s)) = [Plain(rows) EXCEPT ![h] = rows[h] \o s]
         /\ \A i \in 1..Len(rows[h]) : \A j \in i..Len(rows[h]) :
              Plain(RowOut(rows, h, i, j)) = [Plain(rows) EXCEPT ![h] = R!Without(rows[h], i, j)]
         /\ Plain(rows)[h] = rows[h]
<1> DEFINE r == rows[h]
<1>1. r \in Seq(Entries)
  OBVIOUS
<1>2. \A x : Plain(RowAt(rows, h, x)) = [Plain(rows) EXCEPT ![h] = x]
  BY PlainChanges
<1>3. ASSUME NEW s \in Seq(Entries)
      PROVE  /\ Plain(RowIn(rows, h, 0, s)) = [Plain(rows) EXCEPT ![h] = s \o r]
             /\ Plain(RowIn(rows, h, Len(r), s)) = [Plain(rows) EXCEPT ![h] = r \o s]
  <2>1. RowIn(rows, h, 0, s) = RowAt(rows, h, s \o r)
        /\ RowIn(rows, h, Len(r), s) = RowAt(rows, h, r \o s)
    <3>1. Put(r, 0, s) = s \o r /\ Put(r, Len(r), s) = r \o s
      BY <1>1, PutAtEnds
    <3> QED BY <3>1 DEF RowIn
  <2> QED BY <1>2, <2>1
<1>4. ASSUME NEW i \in 1..Len(r), NEW j \in i..Len(r)
      PROVE  Plain(RowOut(rows, h, i, j)) = [Plain(rows) EXCEPT ![h] = R!Without(r, i, j)]
  <2>1. Taken(r, i, j) = R!Without(r, i, j)
    BY <1>1, PartsOfRow DEF R!Without
  <2> QED BY <1>2, <2>1 DEF RowOut
<1>5. Plain(rows)[h] = r
  BY DEF Plain
<1> QED BY <1>3, <1>4, <1>5

(***************************************************************************)
(* INIT_LIST_HEAD does what Rows says of it.                               *)
(***************************************************************************)
LEMMA InitHeadSeen ==
  ASSUME IInv, NEW h \in Heads, InitHead(h)
  PROVE  R!InitHead(h)
<1>1. PICK rows : Laid(links, rows) /\ linked = Covered(rows)
  BY DEF IInv, Ordered
<1>2. /\ Shown = Plain(rows) /\ R!Used = DOMAIN rows
      /\ h \in DOMAIN rows => Shown[h] = rows[h]
  BY <1>1, SeenAsRows
<1>3. h \in DOMAIN rows => rows[h] = <<>>
  BY <1>1, EmptyRow DEF InitHead, Covered
<1>4. Becomes(INIT_LIST_HEAD(links, h), RowAt(rows, h, <<>>), DOMAIN rows \cup {h}, Listed(rows))
  BY <1>1, <1>3, HeadInitialized DEF Becomes
<1>5. links' = INIT_LIST_HEAD(links, h) /\ linked' = (DOMAIN rows \cup {h}) \cup Listed(rows)
      /\ call' = <<"init">> \o <<h>>
  BY <1>1 DEF InitHead, Does, Covered
<1>6. Shown' = Plain(RowAt(rows, h, <<>>))
  BY <1>4, <1>5, SeenAfter
<1>7. Shown' = [Shown EXCEPT ![h] = <<>>]
  BY <1>2, <1>6, PlainChanges
<1> QED BY <1>2, <1>3, <1>5, <1>7 DEF R!InitHead, R!Called

(***************************************************************************)
(* list_add and list_add_tail do what Rows says of them.                   *)
(***************************************************************************)
LEMMA AddSeen ==
  ASSUME IInv, NEW e \in Entries, NEW h \in Heads, Add(e, h)
  PROVE  R!Add(e, h) \/ R!AddTail(e, h)
<1>1. PICK rows : Laid(links, rows) /\ linked = Covered(rows)
  BY DEF IInv, Ordered
<1>2. h \in DOMAIN rows /\ e \notin Listed(rows)
  BY <1>1, CoveredIs DEF Add, Covered
<1>3. /\ Shown = Plain(rows) /\ R!Used = DOMAIN rows /\ Shown[h] = rows[h]
      /\ R!Idle = Entries \ Listed(rows) /\ rows[h] \in Seq(Entries)
  BY <1>1, <1>2, SeenAsRows
<1>4. /\ Len(rows[h]) \in Nat /\ 0 \in 0..Len(rows[h]) /\ Len(rows[h]) \in 0..Len(rows[h])
      /\ Place(h, rows[h], 0) = h /\ Place(h, rows[h], Len(rows[h]) + 1) = h
  BY <1>1, <1>2, Neighbours
<1>5. linked \cup {e} = DOMAIN rows \cup (Listed(rows) \cup {e}) /\ <<e>> \in Seq(Entries)
  BY <1>1 DEF Covered
<1>6. \A s \in Seq(Entries) :
        /\ Plain(RowIn(rows, h, 0, s)) = [Plain(rows) EXCEPT ![h] = s \o rows[h]]
        /\ Plain(RowIn(rows, h, Len(rows[h]), s)) = [Plain(rows) EXCEPT ![h] = rows[h] \o s]
  BY <1>2, <1>3, PlainSteps
<1>7. CASE Does("add", <<e, h>>, list_add(links, e, h), linked \cup {e})
  <2>1. Becomes(list_add(links, e, h), RowIn(rows, h, 0, <<e>>),
                DOMAIN rows, Listed(rows) \cup {e})
    BY <1>1, <1>2, <1>4, AddBehind
  <2>2. links' = list_add(links, e, h) /\ linked' = DOMAIN rows \cup (Listed(rows) \cup {e})
        /\ call' = <<"add">> \o <<e, h>>
    BY <1>5, <1>7 DEF Does
  <2>3. Shown' = Plain(RowIn(rows, h, 0, <<e>>))
    BY <2>1, <2>2, SeenAfter
  <2>4. Plain(RowIn(rows, h, 0, <<e>>)) = [Plain(rows) EXCEPT ![h] = <<e>> \o rows[h]]
    BY <1>5, <1>6
  <2>5. Shown' = [Shown EXCEPT ![h] = <<e>> \o Shown[h]]
    BY <1>3, <2>3, <2>4
  <2> QED BY <1>2, <1>3, <2>2, <2>5 DEF R!Add, R!Called
<1>8. CASE Does("add_tail", <<e, h>>, list_add_tail(links, e, h), linked \cup {e})
  <2>1. Becomes(list_add_tail(links, e, h), RowIn(rows, h, Len(rows[h]), <<e>>),
                DOMAIN rows, Listed(rows) \cup {e})
    BY <1>1, <1>2, <1>4, AddBefore
  <2>2. links' = list_add_tail(links, e, h) /\ linked' = DOMAIN rows \cup (Listed(rows) \cup {e})
        /\ call' = <<"add_tail">> \o <<e, h>>
    BY <1>5, <1>8 DEF Does
  <2>3. Shown' = Plain(RowIn(rows, h, Len(rows[h]), <<e>>))
    BY <2>1, <2>2, SeenAfter
  <2>4. Plain(RowIn(rows, h, Len(rows[h]), <<e>>)) = [Plain(rows) EXCEPT ![h] = rows[h] \o <<e>>]
    BY <1>5, <1>6
  <2>5. Shown' = [Shown EXCEPT ![h] = Shown[h] \o <<e>>]
    BY <1>3, <2>3, <2>4
  <2> QED BY <1>2, <1>3, <2>2, <2>5 DEF R!AddTail, R!Called
<1> QED BY <1>7, <1>8 DEF Add

(***************************************************************************)
(* An entry that is taken off its list is missing in one row afterwards.   *)
(***************************************************************************)
LEMMA TakenOffSeen ==
  ASSUME IInv, NEW e \in Entries, e \in linked, linked' = linked \ {e},
         \/ links' = Unset(Unlink(links, e), e)
         \/ links' = INIT_LIST_HEAD(Unlink(links, e), e)
  PROVE  \E h \in R!Used : \E i \in DOMAIN Shown[h] :
           Shown[h][i] = e /\ Shown' = [Shown EXCEPT ![h] = R!Without(Shown[h], i, i)]
<1>1. PICK rows : Laid(links, rows) /\ linked = Covered(rows)
  BY DEF IInv, Ordered
<1>2. PICK h, i : Stands(rows, h, i, e)
  BY <1>1, CoveredHasPlace
<1>3. /\ h \in DOMAIN rows /\ h \in Heads /\ i \in 1..Len(rows[h]) /\ rows[h][i] = e
      /\ i \in i..Len(rows[h]) /\ rows[h] \in Seq(Entries)
      /\ Shown = Plain(rows) /\ R!Used = DOMAIN rows
      /\ Shown[h] = rows[h] /\ DOMAIN Shown[h] = 1..Len(rows[h])
  BY <1>1, <1>2, SeenAsRows DEF Stands
<1> DEFINE u   == Unlink(links, e)
           out == RowOut(rows, h, i, i)
<1>4. e \in Nodes /\ e \notin DOMAIN rows /\ e \notin Listed(rows) \ {e}
  BY <1>1, NodesAssumption DEF Laid, Nodes
<1>5. linked' = DOMAIN rows \cup (Listed(rows) \ {e})
  BY <1>1, <1>4 DEF Covered
<1>6. Becomes(u, out, DOMAIN rows, Listed(rows) \ {e})
  BY <1>1, <1>2, EntryOut
<1>7. Becomes(links', out, DOMAIN rows, Listed(rows) \ {e})
  <2> HIDE DEF u, out
  <2>1. /\ Becomes(Unset(u, e), out, DOMAIN rows, Listed(rows) \ {e})
        /\ Becomes(Join(u, e, e), out, DOMAIN rows, Listed(rows) \ {e})
    BY <1>4, <1>6, Forgotten
  <2> QED BY <2>1 DEF u, INIT_LIST_HEAD
<1>8. Shown' = Plain(out)
  BY <1>5, <1>7, SeenAfter
<1>9. Shown' = [Shown EXCEPT ![h] = R!Without(Shown[h], i, i)]
  BY <1>3, <1>8, PlainSteps
<1> QED BY <1>3, <1>9

(***************************************************************************)
(* list_del, list_del_init and __list_del_clearprev do what Rows says of   *)
(* them.                                                                   *)
(***************************************************************************)
LEMMA DelSeen ==
  ASSUME IInv, NEW e \in Entries, Del(e)
  PROVE  R!Del(e)
<1>1. /\ e \in linked /\ linked' = linked \ {e}
      /\ \/ links' = Unset(Unlink(links, e), e)
         \/ links' = INIT_LIST_HEAD(Unlink(links, e), e)
      /\ R!Called({"del", "del_init", "del_clearprev"}, <<e>>)
  BY DEF Del, Does, R!Called
<1>2. \E h \in R!Used : \E i \in DOMAIN Shown[h] :
        Shown[h][i] = e /\ Shown' = [Shown EXCEPT ![h] = R!Without(Shown[h], i, i)]
  BY <1>1, TakenOffSeen
<1> QED BY <1>1, <1>2 DEF R!Del

(***************************************************************************)
(* list_replace and list_replace_init of an entry do what Rows says of     *)
(* them.                                                                   *)
(***************************************************************************)
LEMMA ReplaceEntrySeen ==
  ASSUME IInv, NEW old \in Entries, NEW new \in Entries, Replace(old, new)
  PROVE  R!Replace(old, new)
<1>1. PICK rows : Laid(links, rows) /\ linked = Covered(rows)
  BY DEF IInv, Ordered
<1>2. /\ old \in linked /\ new \notin Listed(rows) /\ new # old
      /\ old \in Nodes /\ old \notin DOMAIN rows /\ new \notin DOMAIN rows
  BY <1>1, NodesAssumption DEF Replace, Covered, Laid, Nodes
<1>3. PICK h, i : Stands(rows, h, i, old)
  BY <1>1, <1>2, CoveredHasPlace
<1>4. /\ h \in DOMAIN rows /\ h \in Heads /\ i \in 1..Len(rows[h]) /\ rows[h][i] = old
      /\ rows[h] \in Seq(Entries)
      /\ Shown = Plain(rows) /\ R!Used = DOMAIN rows /\ R!Idle = Entries \ Listed(rows)
      /\ Shown[h] = rows[h] /\ DOMAIN Shown[h] = 1..Len(rows[h])
  BY <1>1, <1>3, SeenAsRows DEF Stands
<1> DEFINE m   == list_replace(links, old, new)
           out == RowOut(rows, h, i, i)
           ent == (Listed(rows) \ {old}) \cup {new}
           now == RowIn(out, h, i - 1, <<new>>)
<1>5. Becomes(m, now, DOMAIN rows, ent)
  BY <1>1, <1>2, <1>3, ReplaceEntry
<1>6. now = RowAt(rows, h, [rows[h] EXCEPT ![i] = new])
  <2>1. out[h] = Taken(rows[h], i, i) /\ DOMAIN out = DOMAIN rows
        /\ \A g \in DOMAIN rows \ {h} : out[g] = rows[g]
    BY <1>4 DEF RowOut, RowAt
  <2>2. Put(Taken(rows[h], i, i), i - 1, <<new>>) = [rows[h] EXCEPT ![i] = new]
    BY <1>4, PutForTaken
  <2> HIDE DEF out
  <2> QED BY <2>1, <2>2 DEF RowIn, RowAt
<1>7. linked' = DOMAIN rows \cup ent /\ R!Called({"replace", "replace_init"}, <<old, new>>)
      /\ (links' = Unset(m, old) \/ links' = Join(m, old, old))
  <2>1. /\ DOMAIN rows \cup ent = (linked \ {old}) \cup {new}
        /\ DOMAIN rows \cup ent = (linked \ ({old} \cap Entries)) \cup {new}
    BY <1>1, <1>2 DEF Covered
  <2> HIDE DEF ent
  <2> QED BY <2>1 DEF Replace, Does, R!Called, INIT_LIST_HEAD
<1>8. Becomes(links', now, DOMAIN rows, ent)
  <2>1. old \notin ent
    BY <1>2
  <2> HIDE DEF m, now, ent
  <2> QED BY <1>2, <1>5, <1>7, <2>1, Forgotten
<1>9. Shown' = Plain(now)
  <2> HIDE DEF m, now, ent
  <2> QED BY <1>7, <1>8, SeenAfter
<1>10. Shown' = [Shown EXCEPT ![h] = [Shown[h] EXCEPT ![i] = new]]
  <2>0. \A r : Plain(RowAt(rows, h, r)) = [Plain(rows) EXCEPT ![h] = r]
    BY <1>4, PlainChanges
  <2>1. Plain(RowAt(rows, h, [rows[h] EXCEPT ![i] = new]))
          = [Plain(rows) EXCEPT ![h] = [rows[h] EXCEPT ![i] = new]]
    BY <2>0
  <2> HIDE DEF now
  <2> QED BY <1>4, <1>6, <1>9, <2>1
<1>11. new \in R!Idle /\ h \in R!Used /\ i \in DOMAIN Shown[h] /\ Shown[h][i] = old
  BY <1>2, <1>4
<1> QED BY <1>7, <1>10, <1>11 DEF R!Replace


(***************************************************************************)
(* list_swap does what Rows says of it.                                    *)
(***************************************************************************)
LEMMA SwapSeen ==
  ASSUME IInv, NEW d \in Entries, NEW e \in Entries, Swap(d, e)
  PROVE  R!Swap(d, e)
<1>1. PICK rows : Laid(links, rows) /\ linked = Covered(rows)
  BY DEF IInv, Ordered
<1>2. d \in Listed(rows) /\ e \in Listed(rows) /\ d # e /\ d \in linked /\ e \in linked
  BY <1>1, CoveredIs DEF Swap
<1>3. PICK g, i : Stands(rows, g, i, d)
  BY <1>1, <1>2, CoveredHasPlace
<1>4. PICK h, j : Stands(rows, h, j, e)
  BY <1>1, <1>2, CoveredHasPlace
<1>5. /\ g \in DOMAIN rows /\ i \in 1..Len(rows[g]) /\ rows[g][i] = d
      /\ h \in DOMAIN rows /\ j \in 1..Len(rows[h]) /\ rows[h][j] = e
      /\ DOMAIN rows \subseteq Heads
      /\ Shown = Plain(rows) /\ DOMAIN Shown = Heads /\ R!Used = DOMAIN rows
      /\ \A x \in DOMAIN rows : /\ Shown[x] = rows[x] /\ DOMAIN rows[x] = 1..Len(rows[x])
                                /\ rows[x] = [k \in 1..Len(rows[x]) |-> rows[x][k]]
  <2>1. \A x \in DOMAIN rows : rows[x] = [k \in 1..Len(rows[x]) |-> rows[x][k]]
    BY <1>1, Neighbours, LenProperties
  <2> QED BY <1>1, <1>3, <1>4, <2>1, SeenAsRows DEF Stands
<1>6. /\ \A x \in DOMAIN rows : \A k \in 1..Len(rows[x]) :
           /\ rows[x][k] = d => x = g /\ k = i
           /\ rows[x][k] = e => x = h /\ k = j
  <2>1. \A x \in DOMAIN rows : OneToOne(rows[x])
    BY <1>1 DEF Laid
  <2>2. \A x, y \in DOMAIN rows : \A k \in 1..Len(rows[x]), n \in 1..Len(rows[y]) :
          rows[x][k] = rows[y][n] => x = y
    BY <1>1 DEF Laid
  <2> QED BY <1>5, <2>1, <2>2 DEF OneToOne
<1> DEFINE new == SwappedRows(rows, d, e)
           F(x) == Exchanged(d, e, x)
           one == [Shown EXCEPT ![g][i] = e]
           two == [one EXCEPT ![h][j] = d]
<1>7. Becomes(list_swap(links, d, e), new, DOMAIN rows, Listed(rows))
  BY <1>1, <1>2, SwapEntries
<1>8. links' = list_swap(links, d, e) /\ linked' = DOMAIN rows \cup Listed(rows)
      /\ call' = <<"swap">> \o <<d, e>>
  BY <1>1 DEF Swap, Does, Covered
<1>9. Shown' = Plain(new)
  BY <1>7, <1>8, SeenAfter
<1>10. DOMAIN new = DOMAIN rows
       /\ \A x \in DOMAIN rows : new[x] = [k \in 1..Len(rows[x]) |-> F(rows[x][k])]
  BY DEF SwappedRows
<1>11. /\ \A x \in Heads \ {g} : one[x] = Shown[x]
       /\ one[g] = [rows[g] EXCEPT ![i] = e]
       /\ DOMAIN one = Heads /\ one = [x \in Heads |-> one[x]]
  BY <1>5
<1> HIDE DEF one
<1>12. /\ \A x \in Heads \ {h} : two[x] = one[x]
       /\ two[h] = [one[h] EXCEPT ![j] = d]
       /\ two = [x \in Heads |-> two[x]]
  BY <1>5, <1>11
<1> HIDE DEF two, new, F
<1>13. ASSUME NEW x \in DOMAIN rows PROVE two[x] = new[x]
  <2> DEFINE n == Len(rows[x])
  <2>0. x \in Heads /\ rows[x] = [k \in 1..n |-> rows[x][k]] /\ Shown[x] = rows[x]
    BY <1>5, <1>13
  <2>1. DOMAIN one[x] = 1..n /\ one[x] = [k \in 1..n |-> one[x][k]]
        /\ \A k \in 1..n : one[x][k] = IF x = g /\ k = i THEN e ELSE rows[x][k]
    <3>1. CASE x = g
      BY <1>5, <1>11, <2>0, <3>1
    <3>2. CASE x # g
      BY <1>5, <1>11, <2>0, <3>2
    <3> QED BY <3>1, <3>2
  <2>2. two[x] = [k \in 1..n |-> two[x][k]]
        /\ \A k \in 1..n : two[x][k] = IF x = h /\ k = j THEN d ELSE one[x][k]
    <3>1. CASE x = h
      <4>1. two[x] = [one[x] EXCEPT ![j] = d] /\ j \in 1..n
        BY <1>5, <1>12, <3>1
      <4> QED BY <2>1, <3>1, <4>1
    <3>2. CASE x # h
      <4>1. two[x] = one[x]
        BY <1>12, <2>0, <3>2
      <4> QED BY <2>1, <3>2, <4>1
    <3> QED BY <3>1, <3>2
  <2>3. \A k \in 1..n : two[x][k] = F(rows[x][k])
    BY <1>2, <1>5, <1>6, <2>1, <2>2 DEF F, Exchanged
  <2> QED BY <1>10, <2>2, <2>3
<1>14. two = Plain(new)
  <2>1. \A x \in Heads \ DOMAIN rows : two[x] = Shown[x] /\ Shown[x] = NoRow
    BY <1>5, <1>11, <1>12 DEF Plain
  <2> QED BY <1>5, <1>10, <1>12, <1>13, <2>1 DEF Plain
<1>15. g \in R!Used /\ h \in R!Used /\ i \in DOMAIN Shown[g] /\ j \in DOMAIN Shown[h]
       /\ Shown[g][i] = d /\ Shown[h][j] = e
  BY <1>5
<1>16. Shown' = [[Shown EXCEPT ![g][i] = e] EXCEPT ![h][j] = d]
  BY <1>9, <1>14 DEF one, two
<1>17. R!Called({"swap"}, <<d, e>>)
  BY <1>8 DEF R!Called
<1> QED BY <1>2, <1>15, <1>16, <1>17 DEF R!Swap

(***************************************************************************)
(* An entry that changes lists, as Rows has it.                            *)
(***************************************************************************)
LEMMA MovedSeen ==
  ASSUME NEW rows, Laid(links, rows), linked = Covered(rows),
         NEW g, NEW i, NEW e \in Entries, Stands(rows, g, i, e), NEW h \in DOMAIN rows,
         linked' = linked
  PROVE  LET out == [Shown EXCEPT ![g] = R!Without(Shown[g], i, i)]
         IN  /\ links' = list_move(links, e, h) => Shown' = [out EXCEPT ![h] = <<e>> \o out[h]]
             /\ links' = list_move_tail(links, e, h) => Shown' = [out EXCEPT ![h] = out[h] \o <<e>>]
<1> DEFINE out == RowOut(rows, g, i, i)
           seen == [Shown EXCEPT ![g] = R!Without(Shown[g], i, i)]
<1>1. /\ g \in DOMAIN rows /\ g \in Heads /\ i \in 1..Len(rows[g]) /\ rows[g] \in Seq(Entries)
      /\ i \in i..Len(rows[g]) /\ Shown = Plain(rows) /\ Shown[g] = rows[g] /\ h \in Heads
  BY SeenAsRows DEF Stands
<1>2. Plain(out) = seen
  BY <1>1, PlainSteps
<1>3. h \in DOMAIN out /\ out[h] \in Seq(Entries) /\ <<e>> \in Seq(Entries)
  <2>1. Becomes(Unlink(links, e), out, DOMAIN rows, Listed(rows) \ {e})
    BY EntryOut
  <2> HIDE DEF out
  <2>2. Laid(Unlink(links, e), out) /\ DOMAIN out = DOMAIN rows
    BY <2>1 DEF Becomes
  <2> QED BY <2>2, Neighbours
<1>4. /\ Becomes(list_move(links, e, h), RowIn(out, h, 0, <<e>>), DOMAIN rows, Listed(rows))
      /\ Becomes(list_move_tail(links, e, h), RowIn(out, h, Len(out[h]), <<e>>),
                 DOMAIN rows, Listed(rows))
  BY MoveEntry
<1>5. linked' = DOMAIN rows \cup Listed(rows)
  BY DEF Covered
<1> HIDE DEF out, seen
<1>6. /\ \A s \in Seq(Entries) :
           /\ Plain(RowIn(out, h, 0, s)) = [Plain(out) EXCEPT ![h] = s \o out[h]]
           /\ Plain(RowIn(out, h, Len(out[h]), s)) = [Plain(out) EXCEPT ![h] = out[h] \o s]
      /\ Plain(out)[h] = out[h]
  BY <1>1, <1>3, PlainSteps
<1>7. /\ Plain(RowIn(out, h, 0, <<e>>)) = [Plain(out) EXCEPT ![h] = <<e>> \o out[h]]
      /\ Plain(RowIn(out, h, Len(out[h]), <<e>>)) = [Plain(out) EXCEPT ![h] = out[h] \o <<e>>]
      /\ Plain(out)[h] = out[h]
  BY <1>3, <1>6
<1>8. links' = list_move(links, e, h) => Shown' = [seen EXCEPT ![h] = <<e>> \o seen[h]]
  <2>1. links' = list_move(links, e, h) => Shown' = Plain(RowIn(out, h, 0, <<e>>))
    BY <1>4, <1>5, SeenAfter
  <2> QED BY <1>2, <1>7, <2>1
<1>9. links' = list_move_tail(links, e, h) => Shown' = [seen EXCEPT ![h] = seen[h] \o <<e>>]
  <2>1. links' = list_move_tail(links, e, h) => Shown' = Plain(RowIn(out, h, Len(out[h]), <<e>>))
    BY <1>4, <1>5, SeenAfter
  <2> QED BY <1>2, <1>7, <2>1
<1> QED BY <1>8, <1>9 DEF seen

(***************************************************************************)
(* list_move and list_move_tail do what Rows says of them.                 *)
(***************************************************************************)
LEMMA MoveSeen ==
  ASSUME IInv, NEW e \in Entries, NEW h \in Heads, Move(e, h)
  PROVE  R!Move(e, h) \/ R!MoveTail(e, h)
<1>1. PICK rows : Laid(links, rows) /\ linked = Covered(rows)
  BY DEF IInv, Ordered
<1>2. h \in DOMAIN rows /\ e \in linked
  BY <1>1, CoveredIs DEF Move
<1>3. PICK g, i : Stands(rows, g, i, e)
  BY <1>1, <1>2, CoveredHasPlace
<1>4. /\ g \in R!Used /\ h \in R!Used /\ i \in DOMAIN Shown[g] /\ Shown[g][i] = e
  BY <1>1, <1>2, <1>3, SeenAsRows DEF Stands
<1>5. \/ links' = list_move(links, e, h) /\ linked' = linked /\ call' = <<"move">> \o <<e, h>>
      \/ links' = list_move_tail(links, e, h) /\ linked' = linked
         /\ call' = <<"move_tail">> \o <<e, h>>
  BY DEF Move, Does
<1> DEFINE out == [Shown EXCEPT ![g] = R!Without(Shown[g], i, i)]
<1>6. /\ links' = list_move(links, e, h) => Shown' = [out EXCEPT ![h] = <<e>> \o out[h]]
      /\ links' = list_move_tail(links, e, h) => Shown' = [out EXCEPT ![h] = out[h] \o <<e>>]
  BY <1>1, <1>2, <1>3, <1>5, MovedSeen
<1>7. CASE links' = list_move(links, e, h) /\ call' = <<"move">> \o <<e, h>>
  <2>1. Shown' = [out EXCEPT ![h] = <<e>> \o @]
    BY <1>6, <1>7
  <2> QED BY <1>4, <1>7, <2>1 DEF R!Move, R!Called
<1>8. CASE links' = list_move_tail(links, e, h) /\ call' = <<"move_tail">> \o <<e, h>>
  <2>1. Shown' = [out EXCEPT ![h] = @ \o <<e>>]
    BY <1>6, <1>8
  <2> QED BY <1>4, <1>8, <2>1 DEF R!MoveTail, R!Called
<1> QED BY <1>5, <1>7, <1>8


(***************************************************************************)
(* What Rows cuts off a row at its ends.                                   *)
(***************************************************************************)
LEMMA PartsAtEnds ==
  ASSUME NEW r \in Seq(Entries)
  PROVE  /\ R!Turned(r, 0) = r
         /\ SubSeq(r, 1, Len(r)) = r /\ SubSeq(r, 1, 0) = <<>>
         /\ SubSeq(r, Len(r) + 1, Len(r)) = <<>>
         /\ r # <<>> => 1 \in 1..Len(r) /\ SubSeq(r, 1, 1) = <<r[1]>>
         /\ \A k \in 1..Len(r) : R!Without(r, 1, k) = SubSeq(r, k + 1, Len(r))
<1>1. Len(r) \in Nat /\ \A x \in 1..Len(r) : r[x] \in Entries
  BY LenProperties, ElementOfSeq
<1>2. \A t \in Seq(Entries) : <<>> \o t = t /\ t \o <<>> = t
  BY ConcatEmptySeq
<1>3. SubSeq(r, 1, Len(r)) = r
  <2> DEFINE t == SubSeq(r, 1, Len(r))
  <2>1. t \in Seq(Entries) /\ Len(t) = Len(r) /\ \A x \in 1..Len(r) : t[x] = r[x]
    BY <1>1
  <2> HIDE DEF t
  <2>2. t = r
    BY <2>1, SeqEqual
  <2> QED BY <2>2 DEF t
<1>4. SubSeq(r, 1, 0) = <<>> /\ SubSeq(r, Len(r) + 1, Len(r)) = <<>>
  BY <1>1
<1>5. R!Turned(r, 0) = r
  <2>1. SubSeq(r, 0 + 1, Len(r)) = r
    BY <1>3
  <2> QED BY <1>2, <1>4, <2>1 DEF R!Turned
<1>6. r # <<>> => 1 \in 1..Len(r) /\ SubSeq(r, 1, 1) = <<r[1]>>
  <2> SUFFICES ASSUME r # <<>> PROVE 1 \in 1..Len(r) /\ SubSeq(r, 1, 1) = <<r[1]>>
    OBVIOUS
  <2>1. 1 \in 1..Len(r)
    BY <1>1, EmptySeq
  <2>2. Len(SubSeq(r, 1, 1)) = 1 /\ SubSeq(r, 1, 1)[1] = r[1] /\ SubSeq(r, 1, 1) \in Seq(Entries)
    BY <1>1, <2>1
  <2>3. <<r[1]>> \in Seq(Entries) /\ Len(<<r[1]>>) = 1 /\ <<r[1]>>[1] = r[1]
    BY <1>1, <2>1
  <2> DEFINE t == SubSeq(r, 1, 1)
             u == <<r[1]>>
  <2> HIDE DEF t, u
  <2>4. Len(t) = Len(u) /\ \A x \in 1..Len(t) : t[x] = u[x]
    BY <2>2, <2>3 DEF t, u
  <2>5. t = u
    BY <2>2, <2>3, <2>4, SeqEqual DEF t, u
  <2> QED BY <2>1, <2>5 DEF t, u
<1>7. ASSUME NEW k \in 1..Len(r) PROVE R!Without(r, 1, k) = SubSeq(r, k + 1, Len(r))
  <2>1. SubSeq(r, 1, 1 - 1) = <<>> /\ SubSeq(r, k + 1, Len(r)) \in Seq(Entries)
    BY <1>1, <1>4
  <2> QED BY <1>2, <2>1 DEF R!Without
<1> QED BY <1>3, <1>4, <1>5, <1>6, <1>7

(***************************************************************************)
(* A segment that goes to the end of its row, as Rows has it.              *)
(***************************************************************************)
LEMMA SegmentToEnd ==
  ASSUME NEW rows, NEW h \in Heads, h \in DOMAIN rows, rows[h] \in Seq(Entries),
         NEW i \in 1..Len(rows[h]), NEW j \in i..Len(rows[h])
  PROVE  Plain(RowIn(RowOut(rows, h, i, j), h, Len(rows[h]) - (j - i + 1),
                     Segment(rows[h], i, j)))
           = [Plain(rows) EXCEPT ![h] = R!Without(rows[h], i, j) \o SubSeq(rows[h], i, j)]
<1> DEFINE r   == rows[h]
           t   == Taken(r, i, j)
           s   == Segment(r, i, j)
           out == RowOut(rows, h, i, j)
           k   == Len(r) - (j - i + 1)
<1>1. /\ t = R!Without(r, i, j) /\ s = SubSeq(r, i, j)
      /\ t \in Seq(Entries) /\ s \in Seq(Entries) /\ Len(t) = k
  BY PartsOfRow DEF R!Without
<1>2. out[h] = t /\ DOMAIN out = DOMAIN rows /\ \A g \in DOMAIN rows \ {h} : out[g] = rows[g]
  BY DEF RowOut, RowAt
<1> HIDE DEF out, t, s, k
<1>3. Put(t, k, s) = t \o s
  BY <1>1, PutAtEnds
<1>4. RowIn(out, h, k, s) = RowAt(rows, h, t \o s)
  BY <1>2, <1>3 DEF RowIn, RowAt
<1>5. \A x : Plain(RowAt(rows, h, x)) = [Plain(rows) EXCEPT ![h] = x]
  BY PlainChanges
<1>6. Plain(RowIn(out, h, k, s)) = [Plain(rows) EXCEPT ![h] = t \o s]
  BY <1>4, <1>5
<1> QED BY <1>1, <1>6 DEF out, k, s

(***************************************************************************)
(* list_bulk_move_tail does what Rows says of it.                          *)
(***************************************************************************)
LEMMA BulkMoveTailSeen ==
  ASSUME IInv, NEW h \in Heads, NEW first \in Entries, NEW last \in Entries,
         BulkMoveTail(h, first, last)
  PROVE  R!BulkMoveTail(h, first, last)
<1>1. PICK rows : Laid(links, rows) /\ linked = Covered(rows)
  BY DEF IInv, Ordered
<1>2. h \in DOMAIN rows
  BY <1>1, CoveredIs DEF BulkMoveTail
<1>3. /\ Shown = Plain(rows) /\ R!Used = DOMAIN rows /\ Shown[h] = rows[h]
      /\ rows[h] \in Seq(Entries) /\ DOMAIN rows[h] = 1..Len(rows[h]) /\ Row(h) = rows[h]
  BY <1>1, <1>2, SeenAsRows, RowIs
<1>4. PICK i \in DOMAIN rows[h], j \in DOMAIN rows[h] :
        i <= j /\ rows[h][i] = first /\ rows[h][j] = last
  BY <1>3 DEF BulkMoveTail
<1>5. i \in 1..Len(rows[h]) /\ j \in i..Len(rows[h])
  BY <1>3, <1>4
<1> DEFINE new == RowIn(RowOut(rows, h, i, j), h, Len(rows[h]) - (j - i + 1), Segment(rows[h], i, j))
<1>6. Becomes(list_bulk_move_tail(links, h, first, last), new, DOMAIN rows, Listed(rows))
  BY <1>1, <1>2, <1>4, <1>5, MoveSegment
<1>7. /\ links' = list_bulk_move_tail(links, h, first, last)
      /\ linked' = DOMAIN rows \cup Listed(rows)
      /\ R!Called({"bulk_move_tail"}, <<h, first, last>>)
  BY <1>1 DEF BulkMoveTail, Does, Covered, R!Called
<1>8. Plain(new) = [Plain(rows) EXCEPT ![h] = R!Without(rows[h], i, j) \o SubSeq(rows[h], i, j)]
  <2>1. \A x \in 1..Len(rows[h]) : \A y \in x..Len(rows[h]) :
          Plain(RowIn(RowOut(rows, h, x, y), h, Len(rows[h]) - (y - x + 1), Segment(rows[h], x, y)))
            = [Plain(rows) EXCEPT ![h] = R!Without(rows[h], x, y) \o SubSeq(rows[h], x, y)]
    <3>1. h \in DOMAIN rows /\ rows[h] \in Seq(Entries)
      BY <1>2, <1>3
    <3> HIDE DEF new
    <3> QED BY <3>1, SegmentToEnd
  <2> QED BY <1>5, <2>1
<1> HIDE DEF new
<1>9. Shown' = Plain(new)
  BY <1>6, <1>7, SeenAfter
<1>10. Shown' = [Shown EXCEPT ![h] = R!Without(@, i, j) \o SubSeq(@, i, j)]
  BY <1>3, <1>8, <1>9
<1> QED BY <1>2, <1>3, <1>4, <1>7, <1>10 DEF R!BulkMoveTail

(***************************************************************************)
(* list_rotate_left does what Rows says of it.                             *)
(***************************************************************************)
LEMMA RotateLeftSeen ==
  ASSUME IInv, NEW h \in Heads, RotateLeft(h)
  PROVE  R!RotateLeft(h)
<1>1. PICK rows : Laid(links, rows) /\ linked = Covered(rows)
  BY DEF IInv, Ordered
<1>2. h \in DOMAIN rows
  BY <1>1, CoveredIs DEF RotateLeft
<1>3. /\ Shown = Plain(rows) /\ R!Used = DOMAIN rows /\ Shown[h] = rows[h]
      /\ rows[h] \in Seq(Entries)
  BY <1>1, <1>2, SeenAsRows
<1>4. /\ linked' = linked /\ R!Called({"rotate_left"}, <<h>>)
      /\ links' = IF list_empty(links, h) THEN links ELSE list_move_tail(links, links.next[h], h)
  BY DEF RotateLeft, Does, R!Called
<1>5. list_empty(links, h) <=> Shown[h] = <<>>
  BY <1>1, <1>2, <1>3, EmptyRow
<1>6. CASE list_empty(links, h)
  <2>1. Shown' = Shown
    BY <1>4, <1>6 DEF Shown, Row, ForEach
  <2> QED BY <1>2, <1>3, <1>4, <1>5, <1>6, <2>1 DEF R!RotateLeft
<1>7. CASE ~list_empty(links, h)
  <2> DEFINE r == rows[h]
             e == r[1]
  <2>1. /\ r # <<>> /\ 1 \in 1..Len(r) /\ SubSeq(r, 1, 1) = <<e>>
        /\ R!Without(r, 1, 1) = SubSeq(r, 1 + 1, Len(r))
    BY <1>3, <1>5, <1>7, PartsAtEnds
  <2>2. e \in Entries /\ Stands(rows, h, 1, e)
    BY <1>2, <1>3, <2>1, ElementOfSeq DEF Stands
  <2>3. links.next[h] = e
    <3>1. /\ Len(r) \in Nat /\ Place(h, r, 0) = h
          /\ \A x \in 0..Len(r) : links.next[Place(h, r, x)] = Place(h, r, x + 1)
          /\ \A x \in 1..Len(r) : Place(h, r, x) = r[x]
      BY <1>1, <1>2, Neighbours
    <3>2. 0 \in 0..Len(r) /\ 0 + 1 = 1
      BY <3>1
    <3> QED BY <2>1, <3>1, <3>2
  <2> DEFINE out == [Shown EXCEPT ![h] = R!Without(Shown[h], 1, 1)]
  <2>4. Shown' = [out EXCEPT ![h] = out[h] \o <<e>>]
    <3>1. links' = list_move_tail(links, e, h)
      BY <1>4, <1>7, <2>3
    <3> HIDE DEF e
    <3> QED BY <1>1, <1>2, <1>4, <2>2, <3>1, MovedSeen
  <2>5. Shown' = [Shown EXCEPT ![h] = R!Turned(Shown[h], 1)]
    <3>1. out[h] = SubSeq(r, 1 + 1, Len(r)) /\ DOMAIN Shown = Heads
      BY <1>3, <2>1 DEF Plain
    <3>2. out[h] \o <<e>> = R!Turned(Shown[h], 1)
      BY <1>3, <2>1, <3>1 DEF R!Turned
    <3>3. Shown' = [Shown EXCEPT ![h] = out[h] \o <<e>>]
      BY <2>4, <3>1
    <3> QED BY <3>2, <3>3
  <2>6. Shown[h] # <<>>
    BY <1>3, <2>1
  <2> QED BY <1>2, <1>3, <1>4, <2>5, <2>6 DEF R!RotateLeft
<1> QED BY <1>6, <1>7

(***************************************************************************)
(* list_rotate_to_front does what Rows says of it.                         *)
(***************************************************************************)
LEMMA RotateToFrontSeen ==
  ASSUME IInv, NEW e \in Entries, NEW h \in Heads, RotateToFront(e, h)
  PROVE  R!RotateToFront(e, h)
<1>1. PICK rows : Laid(links, rows) /\ linked = Covered(rows)
  BY DEF IInv, Ordered
<1>2. h \in DOMAIN rows
  BY <1>1, CoveredIs DEF RotateToFront
<1>3. /\ Shown = Plain(rows) /\ R!Used = DOMAIN rows /\ Shown[h] = rows[h]
      /\ rows[h] \in Seq(Entries) /\ DOMAIN rows[h] = 1..Len(rows[h]) /\ Row(h) = rows[h]
      /\ DOMAIN Shown = Heads /\ Len(rows[h]) \in Nat
  BY <1>1, <1>2, SeenAsRows, RowIs
<1>4. \A x \in 1..Len(rows[h]) : \A y \in x..Len(rows[h]) :
        Plain(RowIn(RowOut(rows, h, x, y), h, Len(rows[h]) - (y - x + 1), Segment(rows[h], x, y)))
          = [Plain(rows) EXCEPT ![h] = R!Without(rows[h], x, y) \o SubSeq(rows[h], x, y)]
  <2>1. h \in DOMAIN rows /\ rows[h] \in Seq(Entries)
    BY <1>2, <1>3
  <2> QED BY <2>1, SegmentToEnd
<1>5. PICK k \in 1..Len(rows[h]) : rows[h][k] = e
  <2>1. e \in Standing(rows[h])
    BY <1>3, StandsIn DEF RotateToFront
  <2> QED BY <2>1 DEF Standing
<1>6. Stands(rows, h, k, e)
  BY <1>2, <1>5 DEF Stands
<1> DEFINE new == TurnedRow(rows, h, k - 1)
<1>7. Becomes(list_move_tail(links, h, e), new, DOMAIN rows, Listed(rows))
  BY <1>1, <1>6, RotateFront
<1>8. /\ links' = list_move_tail(links, h, e) /\ linked' = DOMAIN rows \cup Listed(rows)
      /\ R!Called({"rotate_to_front"}, <<e, h>>)
  BY <1>1 DEF RotateToFront, Does, Covered, R!Called
<1>9. Plain(new) = [Shown EXCEPT ![h] = R!Turned(Shown[h], k - 1)]
  <2>1. CASE k = 1
    <3>1. new = rows
      BY <2>1 DEF TurnedRow
    <3>2. R!Turned(Shown[h], k - 1) = Shown[h]
      BY <1>3, <2>1, PartsAtEnds
    <3>3. [Shown EXCEPT ![h] = Shown[h]] = Shown
      BY <1>3 DEF Plain
    <3> HIDE DEF new
    <3> QED BY <1>3, <3>1, <3>2, <3>3
  <2>2. CASE k # 1
    <3> DEFINE j == k - 1
    <3>1. /\ j \in 1..Len(rows[h]) /\ 1 \in 1..Len(rows[h]) /\ j # 0
          /\ Len(rows[h]) - j = Len(rows[h]) - (j - 1 + 1)
      BY <1>3, <1>5, <2>2
    <3> HIDE DEF j
    <3>2. TurnedRow(rows, h, j)
            = RowIn(RowOut(rows, h, 1, j), h, Len(rows[h]) - (j - 1 + 1), Segment(rows[h], 1, j))
      BY <3>1 DEF TurnedRow
    <3>3. Plain(TurnedRow(rows, h, j))
            = [Plain(rows) EXCEPT ![h] = R!Without(rows[h], 1, j) \o SubSeq(rows[h], 1, j)]
      BY <1>4, <3>1, <3>2
    <3>4. R!Without(rows[h], 1, j) \o SubSeq(rows[h], 1, j) = R!Turned(rows[h], j)
      BY <1>3, <3>1, PartsAtEnds DEF R!Turned
    <3> QED BY <1>3, <3>3, <3>4 DEF j
  <2> QED BY <2>1, <2>2
<1> HIDE DEF new
<1>10. Shown' = [Shown EXCEPT ![h] = R!Turned(@, k - 1)]
  BY <1>7, <1>8, <1>9, SeenAfter
<1> QED BY <1>2, <1>3, <1>5, <1>8, <1>10 DEF R!RotateToFront


(***************************************************************************)
(* The beginning of a row that went over to another head, as Rows has it.  *)
(***************************************************************************)
LEMMA FirstOverSeen ==
  ASSUME NEW rows, NEW h \in Heads, h \in DOMAIN rows, rows[h] \in Seq(Entries),
         NEW g \in Heads, g # h, NEW k \in 0..Len(rows[h])
  PROVE  Plain(FirstOver(rows, h, k, g))
           = [Plain(rows) EXCEPT ![g] = SubSeq(rows[h], 1, k),
                                 ![h] = SubSeq(rows[h], k + 1, Len(rows[h]))]
<1> DEFINE r == rows[h]
<1>1. Len(r) \in Nat /\ \A t \in Seq(Entries) : Put(<<>>, 0, t) = t
  BY LenProperties, PutInEmpty
<1>2. /\ \A old, x, y : Plain(RowAt(old, g, x)) = [Plain(old) EXCEPT ![g] = x]
      /\ \A old, x, y : Plain(RowAt(old, h, x)) = [Plain(old) EXCEPT ![h] = x]
      /\ DOMAIN Plain(rows) = Heads /\ Plain(rows)[h] = r
      /\ [Plain(rows) EXCEPT ![h] = r] = Plain(rows)
  <2>1. DOMAIN Plain(rows) = Heads /\ Plain(rows)[h] = r
        /\ [Plain(rows) EXCEPT ![h] = r] = Plain(rows)
    BY DEF Plain
  <2> QED BY <2>1, PlainChanges
<1>3. CASE k = 0
  <2>1. SubSeq(r, 1, k) = <<>> /\ SubSeq(r, k + 1, Len(r)) = r
    BY <1>1, <1>3, PartsAtEnds
  <2>2. FirstOver(rows, h, k, g) = RowAt(rows, g, <<>>)
    BY <1>3 DEF FirstOver
  <2>3. Plain(FirstOver(rows, h, k, g)) = [Plain(rows) EXCEPT ![g] = <<>>]
    BY <1>2, <2>2
  <2>4. [Plain(rows) EXCEPT ![g] = <<>>] = [Plain(rows) EXCEPT ![g] = <<>>, ![h] = r]
    BY <1>2
  <2> QED BY <2>1, <2>3, <2>4
<1>4. CASE k # 0
  <2> DEFINE s   == Segment(r, 1, k)
             t   == Taken(r, 1, k)
             out == RowOut(rows, h, 1, k)
  <2>1. 1 \in 1..Len(r) /\ k \in 1..Len(r)
    BY <1>1, <1>4
  <2>2. /\ s \in Seq(Entries) /\ s = SubSeq(r, 1, k)
        /\ t = SubSeq(r, k + 1, Len(r))
    <3>1. R!Without(r, 1, k) = SubSeq(r, k + 1, Len(r))
      BY <2>1, PartsAtEnds
    <3> QED BY <2>1, <3>1, PartsOfRow DEF R!Without
  <2>3. FirstOver(rows, h, k, g) = RowIn(RowAt(out, g, <<>>), g, 0, s)
    BY <1>4 DEF FirstOver
  <2>4. out = RowAt(rows, h, t)
    BY DEF RowOut
  <2> HIDE DEF s, t, out
  <2>5. RowIn(RowAt(out, g, <<>>), g, 0, s) = RowAt(out, g, s)
    BY <2>2, PutInEmpty
  <2>6. Plain(FirstOver(rows, h, k, g)) = [[Plain(rows) EXCEPT ![h] = t] EXCEPT ![g] = s]
    BY <1>2, <2>3, <2>4, <2>5
  <2>7. [[Plain(rows) EXCEPT ![h] = t] EXCEPT ![g] = s] = [Plain(rows) EXCEPT ![g] = s, ![h] = t]
    BY <1>2
  <2> QED BY <2>2, <2>6, <2>7
<1> QED BY <1>3, <1>4

(***************************************************************************)
(* list_cut_position and list_cut_before do what Rows says of them.        *)
(***************************************************************************)
LEMMA CutSeen ==
  ASSUME IInv, NEW g \in Heads, NEW h \in Heads, NEW e \in Entries \cup {h}, Cut(g, h, e)
  PROVE  R!CutPosition(g, h, e) \/ R!CutBefore(g, h, e)
<1>1. PICK rows : Laid(links, rows) /\ linked = Covered(rows)
  BY DEF IInv, Ordered
<1>2. /\ h \in DOMAIN rows /\ g # h
      /\ g \in DOMAIN rows => rows[g] = <<>>
  BY <1>1, CoveredIs, EmptyRow DEF Cut, Covered
<1>3. /\ Shown = Plain(rows) /\ R!Used = DOMAIN rows /\ Shown[h] = rows[h]
      /\ rows[h] \in Seq(Entries) /\ DOMAIN rows[h] = 1..Len(rows[h]) /\ Row(h) = rows[h]
      /\ Len(rows[h]) \in Nat
      /\ g \in DOMAIN rows => Shown[g] = rows[g]
  BY <1>1, <1>2, SeenAsRows, RowIs
<1>4. R!Unwanted(g, h)
  BY <1>2, <1>3 DEF R!Unwanted
<1>5. \A k \in 0..Len(rows[h]) :
        Becomes(links', FirstOver(rows, h, k, g), DOMAIN rows \cup {g}, Listed(rows))
          => (linked' = linked \cup {g} => R!Cut(g, h, k))
  <2> SUFFICES ASSUME NEW k \in 0..Len(rows[h]),
                      Becomes(links', FirstOver(rows, h, k, g), DOMAIN rows \cup {g}, Listed(rows)),
                      linked' = linked \cup {g}
               PROVE  R!Cut(g, h, k)
    OBVIOUS
  <2>1. linked' = (DOMAIN rows \cup {g}) \cup Listed(rows)
    BY <1>1 DEF Covered
  <2>2. Shown' = Plain(FirstOver(rows, h, k, g))
    BY <2>1, SeenAfter
  <2>3. h \in DOMAIN rows /\ rows[h] \in Seq(Entries) /\ g # h
    BY <1>2, <1>3
  <2>4. Plain(FirstOver(rows, h, k, g))
          = [Plain(rows) EXCEPT ![g] = SubSeq(rows[h], 1, k),
                                ![h] = SubSeq(rows[h], k + 1, Len(rows[h]))]
    BY <2>3, FirstOverSeen
  <2> QED BY <1>3, <2>2, <2>4 DEF R!Cut
<1> DEFINE on == e \in ToSet(Row(h)) \cup {h}
           pos == list_cut_position(links, g, h, e)
           bef == list_cut_before(links, g, h, e)
<1>6. on => e \in {h} \cup Standing(rows[h])
  BY <1>3, StandsIn
<1>7. \/ /\ on \/ CannotCut(links, h, e)
         /\ links' = pos /\ call' = <<"cut_position">> \o <<g, h, e>>
         /\ linked' = IF CannotCut(links, h, e) THEN linked ELSE linked \cup {g}
      \/ /\ on /\ links' = bef /\ linked' = linked \cup {g}
         /\ call' = <<"cut_before">> \o <<g, h, e>>
  BY DEF Cut, Does
<1> HIDE DEF on
<1>8. CASE /\ on \/ CannotCut(links, h, e)
           /\ links' = pos /\ call' = <<"cut_position">> \o <<g, h, e>>
           /\ linked' = IF CannotCut(links, h, e) THEN linked ELSE linked \cup {g}
  <2>1. R!Called({"cut_position"}, <<g, h, e>>)
    BY <1>8 DEF R!Called
  <2>2. CASE CannotCut(links, h, e)
    <3>1. links' = links /\ linked' = linked
      BY <1>8, <2>2 DEF list_cut_position
    <3>2. Shown' = Shown
      BY <3>1 DEF Shown, Row, ForEach
    <3>3. CASE list_empty(links, h)
      <4>1. Shown[h] = <<>>
        BY <1>1, <1>2, <1>3, <3>3, EmptyRow
      <4> QED BY <1>4, <2>1, <3>2, <4>1 DEF R!CutPosition
    <3>4. CASE ~list_empty(links, h)
      <4>1. list_is_singular(links, h) /\ e \notin {links.next[h], h}
        BY <2>2, <3>4 DEF CannotCut
      <4>2. Len(rows[h]) = 1
        BY <1>1, <1>2, <4>1, EmptyRow
      <4>3. links.next[h] = rows[h][1]
        <5>1. /\ Place(h, rows[h], 0) = h
              /\ \A x \in 0..Len(rows[h]) : links.next[Place(h, rows[h], x)] = Place(h, rows[h], x + 1)
              /\ \A x \in 1..Len(rows[h]) : Place(h, rows[h], x) = rows[h][x]
          BY <1>1, <1>2, Neighbours
        <5>2. 0 \in 0..Len(rows[h]) /\ 1 \in 1..Len(rows[h]) /\ 0 + 1 = 1
          BY <4>2
        <5> QED BY <5>1, <5>2
      <4> QED BY <1>3, <1>4, <2>1, <3>2, <4>1, <4>2, <4>3 DEF R!CutPosition
    <3> QED BY <3>3, <3>4
  <2>3. CASE ~CannotCut(links, h, e)
    <3>1. on /\ linked' = linked \cup {g}
      BY <1>8, <2>3
    <3>2. PICK k \in 0..Len(rows[h]) :
            /\ IF k = 0 THEN e = h ELSE e = rows[h][k]
            /\ Becomes(pos, FirstOver(rows, h, k, g), DOMAIN rows \cup {g}, Listed(rows))
      BY <1>1, <1>2, <1>6, <2>3, <3>1, CutPosition
    <3> HIDE DEF pos
    <3>3. R!Cut(g, h, k)
      BY <1>5, <1>8, <3>1, <3>2
    <3>4. CASE k = 0
      <4>1. e = h
        BY <3>2, <3>4
      <4>2. Shown[h] # <<>>
        BY <1>1, <1>2, <1>3, <2>3, EmptyRow DEF CannotCut
      <4> QED BY <1>4, <2>1, <3>3, <3>4, <4>1, <4>2 DEF R!CutPosition
    <3>5. CASE k # 0
      <4>1. k \in DOMAIN Shown[h] /\ Shown[h][k] = e
        BY <1>3, <3>2, <3>5
      <4> QED BY <1>4, <2>1, <3>3, <4>1 DEF R!CutPosition
    <3> QED BY <3>4, <3>5
  <2> QED BY <2>2, <2>3
<1>9. CASE /\ on /\ links' = bef /\ linked' = linked \cup {g}
           /\ call' = <<"cut_before">> \o <<g, h, e>>
  <2>1. R!Called({"cut_before"}, <<g, h, e>>)
    BY <1>9 DEF R!Called
  <2>2. PICK j \in 1..Len(rows[h]) + 1 :
          /\ Place(h, rows[h], j) = e
          /\ Becomes(bef, FirstOver(rows, h, j - 1, g), DOMAIN rows \cup {g}, Listed(rows))
    BY <1>1, <1>2, <1>6, <1>9, CutBefore
  <2> HIDE DEF bef
  <2>3. R!Cut(g, h, j - 1)
    <3>1. j - 1 \in 0..Len(rows[h])
      BY <1>3, <2>2
    <3> DEFINE k == j - 1
    <3>2. Becomes(bef, FirstOver(rows, h, k, g), DOMAIN rows \cup {g}, Listed(rows)) /\ k \in 0..Len(rows[h])
      BY <2>2, <3>1
    <3> HIDE DEF k
    <3>3. R!Cut(g, h, k)
      BY <1>5, <1>9, <3>2
    <3> QED BY <3>3 DEF k
  <2>4. CASE j = Len(rows[h]) + 1
    <3>1. e = h /\ j - 1 = Len(Shown[h])
      BY <1>1, <1>2, <1>3, <2>2, <2>4, Neighbours
    <3> QED BY <1>4, <2>1, <2>3, <3>1 DEF R!CutBefore
  <2>5. CASE j # Len(rows[h]) + 1
    <3>1. j \in DOMAIN Shown[h] /\ Shown[h][j] = e
      <4>1. j \in 1..Len(rows[h])
        BY <1>3, <2>5
      <4> QED BY <1>1, <1>2, <1>3, <2>2, <4>1, Neighbours
    <3> QED BY <1>4, <2>1, <2>3, <3>1 DEF R!CutBefore
  <2> QED BY <2>4, <2>5
<1> QED BY <1>7, <1>8, <1>9


(***************************************************************************)
(* The links of a head that has lost its row: poisoned, the head has none; *)
(* initialized, it has an empty one.                                       *)
(***************************************************************************)
LEMMA HeadLeft ==
  ASSUME NEW m, NEW new, NEW heads, NEW entries, Becomes(m, new, heads, entries),
         NEW g \in Heads, g \notin heads
  PROVE  /\ Becomes(Unset(m, g), new, heads, entries)
         /\ Becomes(INIT_LIST_HEAD(m, g), RowAt(new, g, <<>>), heads \cup {g}, entries)
<1>1. Laid(m, new) /\ DOMAIN new = heads /\ Listed(new) = entries /\ g \notin DOMAIN new
  BY DEF Becomes
<1>2. g \in Nodes /\ g \notin entries
  BY <1>1, CoveredIs, NodesAssumption DEF Nodes
<1>3. Becomes(Unset(m, g), new, heads, entries)
  BY <1>2, Forgotten
<1>4. Becomes(INIT_LIST_HEAD(m, g), RowAt(new, g, <<>>), heads \cup {g}, entries)
  BY <1>1, HeadInitialized DEF Becomes
<1> QED BY <1>3, <1>4

(***************************************************************************)
(* list_replace and list_replace_init of a head do what Rows says of them. *)
(***************************************************************************)
LEMMA ReplaceHeadSeen ==
  ASSUME IInv, NEW g \in Heads, NEW h \in Heads, Replace(g, h)
  PROVE  \E init \in BOOLEAN : R!ReplaceHead(g, h, init)
<1>1. PICK rows : Laid(links, rows) /\ linked = Covered(rows)
  BY DEF IInv, Ordered
<1>2. g \in DOMAIN rows /\ h \notin DOMAIN rows /\ g # h
  BY <1>1, CoveredIs DEF Replace, Covered
<1>3. /\ Shown = Plain(rows) /\ R!Used = DOMAIN rows /\ Shown[g] = rows[g] /\ DOMAIN Shown = Heads
  BY <1>1, <1>2, SeenAsRows
<1> DEFINE m     == list_replace(links, g, h)
           heads == (DOMAIN rows \ {g}) \cup {h}
           new   == RowAt(WithoutHead(rows, g), h, rows[g])
           seen  == [[Shown EXCEPT ![g] = NoRow] EXCEPT ![h] = Shown[g]]
<1>4. Becomes(m, new, heads, Listed(rows))
  BY <1>1, <1>2, HeadReplaced
<1>5. /\ heads \cup Listed(rows) = (linked \ {g}) \cup {h}
      /\ (heads \cup {g}) \cup Listed(rows) = (linked \ ({g} \cap Entries)) \cup {h}
  BY <1>1, <1>2, CoveredIs, NodesAssumption DEF Covered
<1>6. g \notin heads
  BY <1>2
<1>7. Plain(new) = seen
  <2>1. Plain(WithoutHead(rows, g)) = [Plain(rows) EXCEPT ![g] = NoRow]
        /\ \A old, r : Plain(RowAt(old, h, r)) = [Plain(old) EXCEPT ![h] = r]
    BY PlainChanges
  <2>2. Plain(new) = [Plain(WithoutHead(rows, g)) EXCEPT ![h] = rows[g]]
    BY <2>1
  <2> HIDE DEF new
  <2> QED BY <1>3, <2>1, <2>2
<1>8. Plain(RowAt(new, g, <<>>)) = [seen EXCEPT ![g] = <<>>]
  <2>1. \A old, r : Plain(RowAt(old, g, r)) = [Plain(old) EXCEPT ![g] = r]
    BY PlainChanges
  <2> HIDE DEF new, seen
  <2> QED BY <1>7, <2>1
<1> HIDE DEF m, heads, new
<1>9. /\ Becomes(Unset(m, g), new, heads, Listed(rows))
      /\ Becomes(INIT_LIST_HEAD(m, g), RowAt(new, g, <<>>), heads \cup {g}, Listed(rows))
  BY <1>4, <1>6, HeadLeft
<1>10. \/ links' = Unset(m, g) /\ linked' = heads \cup Listed(rows)
          /\ call' = <<"replace">> \o <<g, h>>
       \/ links' = INIT_LIST_HEAD(m, g) /\ linked' = (heads \cup {g}) \cup Listed(rows)
          /\ call' = <<"replace_init">> \o <<g, h>>
  BY <1>5 DEF Replace, Does, m
<1>11. g \in R!Used /\ h \notin R!Used
  BY <1>2, <1>3
<1>12. CASE links' = Unset(m, g) /\ linked' = heads \cup Listed(rows)
            /\ call' = <<"replace">> \o <<g, h>>
  <2>1. Shown' = Plain(new)
    BY <1>9, <1>12, SeenAfter
  <2> DEFINE init == FALSE
  <2>2. Shown' = [Shown EXCEPT ![h] = Shown[g], ![g] = IF init THEN <<>> ELSE NoRow]
    BY <1>2, <1>3, <1>7, <2>1
  <2>3. R!Called({IF init THEN "replace_init" ELSE "replace"}, <<g, h>>)
    BY <1>12 DEF R!Called
  <2>4. init \in BOOLEAN
    OBVIOUS
  <2> HIDE DEF init
  <2>5. R!ReplaceHead(g, h, init)
    BY <1>11, <2>2, <2>3 DEF R!ReplaceHead
  <2> QED BY <2>4, <2>5
<1>13. CASE links' = INIT_LIST_HEAD(m, g) /\ linked' = (heads \cup {g}) \cup Listed(rows)
            /\ call' = <<"replace_init">> \o <<g, h>>
  <2>1. Shown' = Plain(RowAt(new, g, <<>>))
    BY <1>9, <1>13, SeenAfter
  <2> DEFINE init == TRUE
  <2>2. Shown' = [Shown EXCEPT ![h] = Shown[g], ![g] = IF init THEN <<>> ELSE NoRow]
    BY <1>2, <1>3, <1>8, <2>1
  <2>3. R!Called({IF init THEN "replace_init" ELSE "replace"}, <<g, h>>)
    BY <1>13 DEF R!Called
  <2>4. init \in BOOLEAN
    OBVIOUS
  <2> HIDE DEF init
  <2>5. R!ReplaceHead(g, h, init)
    BY <1>11, <2>2, <2>3 DEF R!ReplaceHead
  <2> QED BY <2>4, <2>5
<1> QED BY <1>10, <1>12, <1>13

(***************************************************************************)
(* The four forms of list_splice do what Rows says of them.                *)
(***************************************************************************)
LEMMA SpliceSeen ==
  ASSUME IInv, NEW g \in Heads, NEW h \in Heads, Splice(g, h)
  PROVE  \E tail, init \in BOOLEAN : R!Splice(g, h, tail, init)
<1>1. PICK rows : Laid(links, rows) /\ linked = Covered(rows)
  BY DEF IInv, Ordered
<1>2. g \in DOMAIN rows /\ h \in DOMAIN rows /\ g # h
  BY <1>1, CoveredIs DEF Splice
<1>3. /\ Shown = Plain(rows) /\ R!Used = DOMAIN rows /\ DOMAIN Shown = Heads
      /\ Shown[g] = rows[g] /\ rows[g] \in Seq(Entries)
      /\ Shown[h] = rows[h] /\ rows[h] \in Seq(Entries)
  BY <1>1, <1>2, SeenAsRows
<1> DEFINE full == ~list_empty(links, g)
<1>4. full <=> Shown[g] # <<>>
  BY <1>1, <1>2, <1>3, EmptyRow
<1>5. PICK tail \in BOOLEAN, init \in BOOLEAN :
        LET m == list_splice(links, g, h, tail)
        IN  /\ call' = <<IF init THEN IF tail THEN "splice_tail_init" ELSE "splice_init"
                         ELSE IF tail THEN "splice_tail" ELSE "splice">> \o <<g, h>>
            /\ links' = IF full THEN IF init THEN INIT_LIST_HEAD(m, g) ELSE Unset(m, g) ELSE m
            /\ linked' = IF full /\ ~init THEN linked \ {g} ELSE linked
  <2>1. PICK tail \in BOOLEAN :
          LET m == list_splice(links, g, h, tail)
          IN  \/ Does(IF tail THEN "splice_tail" ELSE "splice", <<g, h>>,
                      IF full THEN Unset(m, g) ELSE m,
                      IF full THEN linked \ {g} ELSE linked)
              \/ Does(IF tail THEN "splice_tail_init" ELSE "splice_init", <<g, h>>,
                      IF full THEN INIT_LIST_HEAD(m, g) ELSE m, linked)
    BY DEF Splice
  <2> DEFINE m == list_splice(links, g, h, tail)
  <2> HIDE DEF m, full
  <2>2. CASE Does(IF tail THEN "splice_tail" ELSE "splice", <<g, h>>,
                  IF full THEN Unset(m, g) ELSE m,
                  IF full THEN linked \ {g} ELSE linked)
    <3>1. /\ call' = <<IF FALSE THEN IF tail THEN "splice_tail_init" ELSE "splice_init"
                       ELSE IF tail THEN "splice_tail" ELSE "splice">> \o <<g, h>>
          /\ links' = IF full THEN IF FALSE THEN INIT_LIST_HEAD(m, g) ELSE Unset(m, g) ELSE m
          /\ linked' = IF full /\ ~FALSE THEN linked \ {g} ELSE linked
      BY <2>2 DEF Does
    <3> QED BY <3>1 DEF m
  <2>3. CASE Does(IF tail THEN "splice_tail_init" ELSE "splice_init", <<g, h>>,
                  IF full THEN INIT_LIST_HEAD(m, g) ELSE m, linked)
    <3>1. /\ call' = <<IF TRUE THEN IF tail THEN "splice_tail_init" ELSE "splice_init"
                       ELSE IF tail THEN "splice_tail" ELSE "splice">> \o <<g, h>>
          /\ links' = IF full THEN IF TRUE THEN INIT_LIST_HEAD(m, g) ELSE Unset(m, g) ELSE m
          /\ linked' = IF full /\ ~TRUE THEN linked \ {g} ELSE linked
      BY <2>3 DEF Does
    <3> QED BY <3>1 DEF m
  <2> QED BY <2>1, <2>2, <2>3 DEF m
<1>6. R!Called({CASE ~tail /\ ~init -> "splice"      [] tail /\ ~init -> "splice_tail"
                  [] ~tail /\ init  -> "splice_init" [] tail /\ init  -> "splice_tail_init"},
               <<g, h>>)
  <2> DEFINE name == CASE ~tail /\ ~init -> "splice"      [] tail /\ ~init -> "splice_tail"
                       [] ~tail /\ init  -> "splice_init" [] tail /\ init  -> "splice_tail_init"
             same == IF init THEN IF tail THEN "splice_tail_init" ELSE "splice_init"
                     ELSE IF tail THEN "splice_tail" ELSE "splice"
  <2>1. name = same
    OBVIOUS
  <2>2. call' = <<same>> \o <<g, h>>
    BY <1>5
  <2> HIDE DEF name, same
  <2>3. R!Called({name}, <<g, h>>)
    BY <2>1, <2>2 DEF R!Called
  <2> QED BY <2>3 DEF name
<1> DEFINE m    == list_splice(links, g, h, tail)
           all  == IF tail THEN rows[h] \o rows[g] ELSE rows[g] \o rows[h]
           new  == RowIn(WithoutHead(rows, g), h, IF tail THEN Len(rows[h]) ELSE 0, rows[g])
<1>7. CASE ~full
  <2>1. links' = links /\ linked' = linked
    BY <1>5, <1>7 DEF list_splice
  <2>2. Shown' = Shown
    BY <2>1 DEF Shown, Row, ForEach
  <2>3. Shown[g] = <<>> /\ rows[g] = <<>>
    BY <1>3, <1>4, <1>7
  <2>4. (IF tail THEN Shown[h] \o Shown[g] ELSE Shown[g] \o Shown[h]) = Shown[h]
    BY <1>3, <2>3, ConcatEmptySeq
  <2>5. [Shown EXCEPT ![h] = Shown[h], ![g] = <<>>] = Shown
    BY <1>3, <2>3 DEF Plain
  <2>6. Shown' = [Shown EXCEPT ![h] = IF tail THEN @ \o Shown[g] ELSE Shown[g] \o @,
                               ![g] = IF init \/ Shown[g] = <<>> THEN <<>> ELSE NoRow]
    BY <2>2, <2>3, <2>4, <2>5
  <2> QED BY <1>2, <1>3, <1>6, <2>6 DEF R!Splice
<1>8. CASE full
  <2>1. Becomes(m, new, DOMAIN rows \ {g}, Listed(rows))
    BY <1>1, <1>2, <1>8, Grafted
  <2>2. Plain(new) = [[Shown EXCEPT ![g] = NoRow] EXCEPT ![h] = all]
    <3> DEFINE a == WithoutHead(rows, g)
               s == rows[g]
    <3>1. h \in DOMAIN a /\ a[h] = rows[h] /\ a[h] \in Seq(Entries) /\ s \in Seq(Entries)
      BY <1>2, <1>3 DEF WithoutHead
    <3>2. Plain(a) = [Plain(rows) EXCEPT ![g] = NoRow]
      BY PlainChanges
    <3> HIDE DEF a, s
    <3>3. /\ Plain(RowIn(a, h, 0, s)) = [Plain(a) EXCEPT ![h] = s \o a[h]]
          /\ Plain(RowIn(a, h, Len(a[h]), s)) = [Plain(a) EXCEPT ![h] = a[h] \o s]
      <4>1. \A x \in Seq(Entries) :
              /\ Plain(RowIn(a, h, 0, x)) = [Plain(a) EXCEPT ![h] = x \o a[h]]
              /\ Plain(RowIn(a, h, Len(a[h]), x)) = [Plain(a) EXCEPT ![h] = a[h] \o x]
        <5>1. h \in DOMAIN a /\ a[h] \in Seq(Entries)
          BY <3>1
        <5> QED BY <5>1, PlainSteps
      <4> QED BY <3>1, <4>1
    <3>4. Plain(RowIn(a, h, IF tail THEN Len(rows[h]) ELSE 0, s))
            = [Plain(a) EXCEPT ![h] = IF tail THEN rows[h] \o s ELSE s \o rows[h]]
      BY <3>1, <3>3
    <3> QED BY <1>3, <3>2, <3>4 DEF a, s
  <2> HIDE DEF m, new
  <2>3. /\ Becomes(Unset(m, g), new, DOMAIN rows \ {g}, Listed(rows))
        /\ Becomes(INIT_LIST_HEAD(m, g), RowAt(new, g, <<>>), (DOMAIN rows \ {g}) \cup {g},
                   Listed(rows))
    BY <2>1, HeadLeft
  <2>4. /\ (DOMAIN rows \ {g}) \cup Listed(rows) = linked \ {g}
        /\ ((DOMAIN rows \ {g}) \cup {g}) \cup Listed(rows) = linked
    BY <1>1, <1>2, CoveredIs, NodesAssumption DEF Covered
  <2>5. /\ Plain(RowAt(new, g, <<>>)) = [Plain(new) EXCEPT ![g] = <<>>]
    BY PlainChanges
  <2>6. all = IF tail THEN Shown[h] \o Shown[g] ELSE Shown[g] \o Shown[h]
    BY <1>3
  <2> HIDE DEF all
  <2>7. Shown' = [Shown EXCEPT ![h] = all, ![g] = IF init THEN <<>> ELSE NoRow]
    <3>1. CASE init
      <4>1. links' = INIT_LIST_HEAD(m, g) /\ linked' = linked
        BY <1>5, <1>8, <3>1 DEF m
      <4>2. Shown' = Plain(RowAt(new, g, <<>>))
        BY <2>3, <2>4, <4>1, SeenAfter
      <4> QED BY <1>2, <1>3, <2>2, <2>5, <3>1, <4>2
    <3>2. CASE ~init
      <4>1. links' = Unset(m, g) /\ linked' = linked \ {g}
        BY <1>5, <1>8, <3>2 DEF m
      <4>2. Shown' = Plain(new)
        BY <2>3, <2>4, <4>1, SeenAfter
      <4> QED BY <1>2, <1>3, <2>2, <3>2, <4>2
    <3> QED BY <3>1, <3>2
  <2>8. Shown' = [Shown EXCEPT ![h] = IF tail THEN @ \o Shown[g] ELSE Shown[g] \o @,
                               ![g] = IF init \/ Shown[g] = <<>> THEN <<>> ELSE NoRow]
    BY <1>4, <1>8, <2>6, <2>7
  <2> QED BY <1>2, <1>3, <1>6, <2>8 DEF R!Splice
<1> QED BY <1>7, <1>8

(***************************************************************************)
(* A loop changes no row, but where its body deletes the entry it is at.   *)
(***************************************************************************)
LEMMA IterateSeen ==
  ASSUME IInv, Iterate
  PROVE  UNCHANGED <<Shown, call>> \/ \E e \in Entries : R!Del(e)
<1> DEFINE e == walk.at.pos
<1>1. e \in linked /\ e \in Entries
  <2>1. Ordered(links, linked) /\ OnItsWay(links, linked, walk) /\ e # walk.head
    BY DEF IInv, Iterate
  <2> QED BY <2>1, DueUntouched
<1>2. CASE UNCHANGED <<links, linked, call>>
  BY <1>2 DEF Shown, Row, ForEach
<1>3. CASE /\ links' = Unset(Unlink(links, e), e) /\ linked' = linked \ {e}
           /\ call' = <<"del", e>>
  <2> HIDE DEF e
  <2>1. \E h \in R!Used : \E i \in DOMAIN Shown[h] :
          Shown[h][i] = e /\ Shown' = [Shown EXCEPT ![h] = R!Without(Shown[h], i, i)]
    BY <1>1, <1>3, TakenOffSeen
  <2>2. R!Called({"del", "del_init", "del_clearprev"}, <<e>>)
    <3>1. <<"del", e>> = <<"del">> \o <<e>>
      OBVIOUS
    <3> QED BY <1>3, <3>1 DEF R!Called
  <2> QED BY <1>1, <2>1, <2>2 DEF R!Del
<1> QED BY <1>2, <1>3 DEF Iterate

(***************************************************************************)
(* Every function of list.h, in any order of calls that its comments       *)
(* allow, and a loop that deletes while it goes over a list, does to the   *)
(* lists of any heads and entries what Rows says of it, and to no other    *)
(* list anything.                                                          *)
(***************************************************************************)
THEOREM LinksImplementRows == Spec => ImplementsRows
<1>1. Init => R!Init
  BY DEF Init, R!Init, Shown, Row
<1>2. IInv /\ [Next]_vars => [R!Next]_<<Shown, call>>
  <2> SUFFICES ASSUME IInv, [Next]_vars PROVE [R!Next]_<<Shown, call>>
    OBVIOUS
  <2>1. CASE \E h \in Heads : InitHead(h) \/ RotateLeft(h)
    BY <2>1, InitHeadSeen, RotateLeftSeen DEF R!Next
  <2>2. CASE \E e \in Entries, h \in Heads : Add(e, h) \/ Move(e, h) \/ RotateToFront(e, h)
    BY <2>2, AddSeen, MoveSeen, RotateToFrontSeen DEF R!Next
  <2>3. CASE \E e \in Entries : Del(e)
    BY <2>3, DelSeen DEF R!Next
  <2>4. CASE \E d, e \in Entries : Replace(d, e) \/ Swap(d, e)
    BY <2>4, ReplaceEntrySeen, SwapSeen DEF R!Next
  <2>5. CASE \E h \in Heads, d, e \in Entries : BulkMoveTail(h, d, e)
    BY <2>5, BulkMoveTailSeen DEF R!Next
  <2>6. CASE \E g, h \in Heads : Replace(g, h) \/ Splice(g, h)
    BY <2>6, ReplaceHeadSeen, SpliceSeen DEF R!Next
  <2>7. CASE \E g, h \in Heads : \E e \in Entries \cup {h} : Cut(g, h, e)
    BY <2>7, CutSeen DEF R!Next
  <2>8. CASE UNCHANGED <<links, linked, call>>
    BY <2>8 DEF Shown, Row, ForEach
  <2>9. CASE Iterate
    BY <2>9, IterateSeen DEF R!Next
  <2> QED BY <2>1, <2>2, <2>3, <2>4, <2>5, <2>6, <2>7, <2>8, <2>9
          DEF Next, Loop, Walk, EndLoop, vars
<1> QED BY <1>1, <1>2, Keeps, PTL DEF Spec, ImplementsRows, R!Spec, R!vars
=============================================================================
