---------------------------- MODULE ShuffleProofs ----------------------------
(***************************************************************************)
(* Proofs about Shuffle, for an array of any length and any rand().        *)
(***************************************************************************)
EXTENDS Shuffle, FunctionTheorems, WellFoundedInduction, TLAPS

(***************************************************************************)
(* An order is a function on the slots that neither repeats nor misses one *)
(* (what tf->order may hold, transform.c:343-351).                         *)
(***************************************************************************)
LEMMA OrderIsOneToOne ==
  ASSUME NEW n \in Nat, NEW o \in Orders(n)
  PROVE  /\ o \in [SlotsOf(n) -> SlotsOf(n)]
         /\ \A s1, s2 \in SlotsOf(n) : o[s1] = o[s2] => s1 = s2
         /\ \A s \in SlotsOf(n) : \E k \in SlotsOf(n) : o[k] = s
BY Fun_BijectionProperties DEF Orders

(***************************************************************************)
(* Conversely, a one-to-one map of the slots onto themselves is an order.  *)
(***************************************************************************)
LEMMA OneToOneIsOrder ==
  ASSUME NEW n \in Nat, NEW o \in [SlotsOf(n) -> SlotsOf(n)],
         \A s1, s2 \in SlotsOf(n) : o[s1] = o[s2] => s1 = s2,
         \A s \in SlotsOf(n) : \E k \in SlotsOf(n) : o[k] = s
  PROVE  o \in Orders(n)
BY Fun_IsBij DEF Orders

(***************************************************************************)
(* The order a fresh transformable gets (transform.c:349-351) is an order. *)
(***************************************************************************)
LEMMA IdentityIsOrder ==
  ASSUME NEW n \in Nat
  PROVE  Identity(n) \in Orders(n)
BY OneToOneIsOrder DEF Identity

\* The indices that iteration j may swap at.
Draw(j) == { Index(j, r) : r \in 0 .. RandMax }

(***************************************************************************)
(* An index drawn in iteration j is one of the entries not yet settled, so *)
(* the swap stays within the array (random.c:19).                          *)
(***************************************************************************)
LEMMA DrawIsUnsettled ==
  ASSUME NEW j \in SlotsOf(N), NEW rnd \in Draw(j)
  PROVE  rnd \in j .. N - 1
<1>1. PICK r \in 0 .. RandMax : rnd = j + (r % (N - j))
  BY DEF Draw, Index
<1>2. N - j \in Nat /\ N - j > 0
  BY NAssumption DEF SlotsOf
<1>3. r \in Nat
  BY RandMaxAssumption
<1>4. r % (N - j) \in 0 .. (N - j) - 1
  BY <1>2, <1>3
<1>5. QED
  BY <1>1, <1>4, NAssumption DEF SlotsOf

(***************************************************************************)
(* swap() keeps an order an order.                                         *)
(***************************************************************************)
LEMMA ExchangeKeepsOrder ==
  ASSUME NEW a \in Orders(N), NEW p \in SlotsOf(N), NEW q \in SlotsOf(N)
  PROVE  /\ Exchange(a, p, q) \in Orders(N)
         /\ \A s \in SlotsOf(N) \ {p, q} : Exchange(a, p, q)[s] = a[s]
<1> DEFINE b == Exchange(a, p, q)
<1>1. /\ a \in [SlotsOf(N) -> SlotsOf(N)]
      /\ \A s1, s2 \in SlotsOf(N) : a[s1] = a[s2] => s1 = s2
      /\ \A s \in SlotsOf(N) : \E k \in SlotsOf(N) : a[k] = s
  BY OrderIsOneToOne, NAssumption
<1>2. /\ b \in [SlotsOf(N) -> SlotsOf(N)]
      /\ b[p] = a[q] /\ b[q] = a[p]
      /\ \A s \in SlotsOf(N) \ {p, q} : b[s] = a[s]
  BY <1>1 DEF Exchange
<1>3. ASSUME NEW s1 \in SlotsOf(N), NEW s2 \in SlotsOf(N), b[s1] = b[s2]
      PROVE  s1 = s2
  BY <1>1, <1>2, <1>3
<1>4. ASSUME NEW s \in SlotsOf(N)
      PROVE  \E k \in SlotsOf(N) : b[k] = s
  <2>1. PICK k \in SlotsOf(N) : a[k] = s
    BY <1>1
  <2>2. CASE k = p
    BY <1>2, <2>1, <2>2
  <2>3. CASE k = q
    BY <1>2, <2>1, <2>3
  <2>4. CASE k \notin {p, q}
    BY <1>2, <2>1, <2>4
  <2>5. QED
    BY <2>2, <2>3, <2>4
<1>5. b \in Orders(N)
  BY <1>2, <1>3, <1>4, OneToOneIsOrder, NAssumption
<1>6. QED
  BY <1>2, <1>5

(***************************************************************************)
(* The types hold, and each array ever seen is an order.                   *)
(***************************************************************************)
LEMMA Invariance == Spec => [](TypeOK /\ AlwaysAnOrder)
<1>1. Init => TypeOK /\ AlwaysAnOrder
  <2>1. N \in Nat /\ 0 \in SlotsOf(N)
    BY NAssumption DEF SlotsOf
  <2>2. Identity(N) \in Orders(N)
    BY <2>1, IdentityIsOrder
  <2>3. Identity(N) \in [SlotsOf(N) -> SlotsOf(N)]
    BY DEF Identity
  <2>4. 0 .. 0 - 1 = {}
    OBVIOUS
  <2>5. QED
    BY <2>1, <2>2, <2>3, <2>4 DEF Init, TypeOK, AlwaysAnOrder
<1>2. ASSUME TypeOK, AlwaysAnOrder, [Next]_vars
      PROVE  (TypeOK /\ AlwaysAnOrder)'
  <2>1. CASE Swap
    <3>1. PICK r \in 0 .. RandMax :
            /\ arr' = Exchange(arr, i, Index(i, r))
            /\ draws' = [j \in 0 .. i |-> IF j = i THEN r ELSE draws[j]]
      BY <2>1 DEF Swap
    <3>2. i \in SlotsOf(N) /\ Index(i, r) \in SlotsOf(N)
      <4>1. i \in SlotsOf(N) /\ Index(i, r) \in Draw(i)
        BY <1>2 DEF TypeOK, Draw
      <4>2. QED
        BY <4>1, DrawIsUnsettled, NAssumption DEF SlotsOf
    <3>3. arr' \in Orders(N)
      BY <1>2, <3>1, <3>2, ExchangeKeepsOrder DEF AlwaysAnOrder
    <3>4. arr' \in [SlotsOf(N) -> SlotsOf(N)]
      BY <3>3, OrderIsOneToOne, NAssumption
    <3>5. i' \in SlotsOf(N) /\ i' = i + 1
      BY <2>1, <3>2, NAssumption DEF Swap, Increment, Finished, SlotsOf
    <3>6. draws' \in [0 .. i' - 1 -> 0 .. RandMax]
      BY <1>2, <3>1, <3>2, <3>5 DEF TypeOK, SlotsOf
    <3>7. QED
      BY <1>2, <2>1, <3>3, <3>4, <3>5, <3>6 DEF TypeOK, AlwaysAnOrder, Swap
  <2>2. CASE Again
    <3>1. 0 \in SlotsOf(N)
      BY NAssumption DEF SlotsOf
    <3>2. 0 .. 0 - 1 = {}
      OBVIOUS
    <3>3. QED
      BY <1>2, <2>2, <3>1, <3>2 DEF TypeOK, AlwaysAnOrder, Again
  <2>3. CASE UNCHANGED vars
    BY <1>2, <2>3 DEF vars, TypeOK, AlwaysAnOrder
  <2>4. QED
    BY <1>2, <2>1, <2>2, <2>3 DEF Next
<1>3. QED
  BY <1>1, <1>2, PTL DEF Spec

(***************************************************************************)
(* Whatever rand() returns, the array holds every slot number once after   *)
(* each swap: permute() never loses or repeats a saved register.           *)
(***************************************************************************)
THEOREM ShufflesOrders == Spec => []AlwaysAnOrder
BY Invariance, PTL

(***************************************************************************)
(* The loop stays in the array: it never reads or swaps behind its end,    *)
(* wherever rand() sends it (random.c:18-21).                              *)
(***************************************************************************)
THEOREM LoopStaysInArray == Spec => []TypeOK
BY Invariance, PTL

(***************************************************************************)
(* The part of the array that the loop has passed is final.                *)
(***************************************************************************)
THEOREM SettledIsFinal == Spec => SettledStays
<1>1. ASSUME TypeOK, AlwaysAnOrder, [Next]_vars
      PROVE  [ \A p \in 0 .. i - 1 : arr'[p] = arr[p] ]_vars
  <2>1. CASE Swap
    <3>1. PICK rnd \in Draw(i) : arr' = Exchange(arr, i, rnd)
      BY <2>1 DEF Swap, Draw
    <3>2. i \in SlotsOf(N) /\ rnd \in i .. N - 1
      BY <1>1, <3>1, DrawIsUnsettled DEF TypeOK
    <3>3. \A p \in 0 .. i - 1 : p \in SlotsOf(N) \ {i, rnd}
      BY <3>2, NAssumption DEF SlotsOf
    <3>4. rnd \in SlotsOf(N)
      BY <3>2, NAssumption DEF SlotsOf
    <3>5. \A s \in SlotsOf(N) \ {i, rnd} : arr'[s] = arr[s]
      BY <1>1, <3>1, <3>2, <3>4, ExchangeKeepsOrder DEF AlwaysAnOrder
    <3>6. QED
      BY <3>3, <3>5
  <2>2. CASE Again
    BY <2>2 DEF Again
  <2>3. QED
    BY <1>1, <2>1, <2>2 DEF Next
<1>2. QED
  BY <1>1, Invariance, PTL DEF Spec, SettledStays

-----------------------------------------------------------------------------

(***************************************************************************)
(* A set of naturals that is not empty has a least member.                 *)
(***************************************************************************)
LEMMA LeastNat ==
  ASSUME NEW S \in SUBSET Nat, S # {}
  PROVE  \E m \in S : \A k \in S : m <= k
<1>1. IsWellFoundedOn(OpToRel(<, Nat), Nat)
  BY NatLessThanWellFounded
<1>2. PICK m \in S : \A k \in S : ~(<<k, m>> \in OpToRel(<, Nat))
  BY <1>1, WFMin
<1>3. \A k \in S : ~(k < m)
  BY <1>2 DEF OpToRel
<1>4. QED
  BY <1>3

(***************************************************************************)
(* Induction over the naturals, with a set for the formula: what holds of  *)
(* 0, and of k + 1 where it holds of k, holds of every natural.            *)
(***************************************************************************)
LEMMA ByInduction ==
  ASSUME NEW S, 0 \in S, \A k \in Nat : k \in S => k + 1 \in S
  PROVE  Nat \subseteq S
<1> SUFFICES ASSUME Nat \ S # {} PROVE FALSE
  OBVIOUS
<1>1. PICK m \in Nat \ S : \A k \in Nat \ S : m <= k
  BY LeastNat
<1>2. QED
  BY <1>1, m - 1 \in S

\* g holds the arrays after each of the first n iterations of a pass over a.
Runs(g, a, d, n) ==
  g = [j \in 0 .. n |->
         IF j = 0 THEN a ELSE Exchange(g[j - 1], j - 1, d[j - 1])]

(***************************************************************************)
(* A pass with any draws has arrays to show, after any number of           *)
(* iterations.                                                             *)
(***************************************************************************)
LEMMA RunsExist ==
  ASSUME NEW a, NEW d, NEW n \in Nat
  PROVE  \E g : Runs(g, a, d, n)
<1> DEFINE S == { k \in Nat : \E g : Runs(g, a, d, k) }
<1>1. 0 \in S
  <2> DEFINE g == [j \in 0 .. 0 |-> a]
  <2>1. Runs(g, a, d, 0)
    BY DEF Runs
  <2>2. QED
    BY <2>1
<1>2. ASSUME NEW k \in Nat, k \in S
      PROVE  k + 1 \in S
  <2>1. PICK g : Runs(g, a, d, k)
    BY <1>2
  <2>2. PICK h : h = [j \in 0 .. k + 1 |->
                        IF j = k + 1 THEN Exchange(g[k], k, d[k]) ELSE g[j]]
    OBVIOUS
  <2>3. \A j \in 0 .. k : h[j] = g[j]
    BY <2>2
  <2>4. h[k + 1] = Exchange(g[k], k, d[k])
    BY <2>2
  <2>5. \A j \in 0 .. k + 1 :
          h[j] = IF j = 0 THEN a ELSE Exchange(h[j - 1], j - 1, d[j - 1])
    <3> SUFFICES ASSUME NEW j \in 0 .. k + 1
                 PROVE  h[j] = IF j = 0 THEN a
                               ELSE Exchange(h[j - 1], j - 1, d[j - 1])
      OBVIOUS
    <3>1. CASE j = k + 1
      <4>1. j # 0 /\ j - 1 = k /\ h[k] = g[k]
        BY <3>1, <2>3
      <4>2. QED
        BY <3>1, <4>1, <2>4
    <3>2. CASE j = 0
      BY <3>2, <2>1, <2>3 DEF Runs
    <3>3. CASE j \in 1 .. k
      <4>1. h[j] = g[j] /\ h[j - 1] = g[j - 1]
        BY <3>3, <2>3
      <4>2. g[j] = Exchange(g[j - 1], j - 1, d[j - 1])
        BY <3>3, <2>1 DEF Runs
      <4>3. QED
        BY <3>3, <4>1, <4>2
    <3>4. QED
      BY <3>1, <3>2, <3>3
  <2>6. h = [j \in 0 .. k + 1 |-> h[j]]
    BY <2>2
  <2>7. Runs(h, a, d, k + 1)
    BY <2>5, <2>6, Zenon DEF Runs
  <2>8. QED
    BY <2>7
<1> HIDE DEF S
<1>3. Nat \subseteq S
  BY <1>1, <1>2, ByInduction
<1>4. QED
  BY <1>3 DEF S

(***************************************************************************)
(* The array after k iterations hangs on the first k draws only.           *)
(***************************************************************************)
LEMMA RunsAgree ==
  ASSUME NEW a, NEW d, NEW e, NEW m \in Nat, NEW n \in Nat, NEW g, NEW h,
         Runs(g, a, d, m), Runs(h, a, e, n),
         NEW k \in Nat, k <= m, k <= n,
         \A j \in 0 .. k - 1 : d[j] = e[j]
  PROVE  g[k] = h[k]
<1> DEFINE S == { j \in Nat : j <= k => g[j] = h[j] }
<1>1. /\ \A j \in 0 .. m : g[j] = IF j = 0 THEN a
                                  ELSE Exchange(g[j - 1], j - 1, d[j - 1])
      /\ \A j \in 0 .. n : h[j] = IF j = 0 THEN a
                                  ELSE Exchange(h[j - 1], j - 1, e[j - 1])
  <2>1. \A j \in 0 .. m : g[j] = IF j = 0 THEN a
                                 ELSE Exchange(g[j - 1], j - 1, d[j - 1])
    BY Zenon DEF Runs
  <2>2. \A j \in 0 .. n : h[j] = IF j = 0 THEN a
                                 ELSE Exchange(h[j - 1], j - 1, e[j - 1])
    BY Zenon DEF Runs
  <2>3. QED
    BY <2>1, <2>2
<1>2. 0 \in S
  BY <1>1
<1>3. ASSUME NEW j \in Nat, j \in S
      PROVE  j + 1 \in S
  <2> SUFFICES ASSUME j + 1 <= k PROVE g[j + 1] = h[j + 1]
    OBVIOUS
  <2>1. g[j] = h[j] /\ d[j] = e[j]
    BY <1>3
  <2>2. j + 1 \in 0 .. m /\ j + 1 \in 0 .. n /\ j + 1 # 0 /\ j + 1 - 1 = j
    OBVIOUS
  <2>3. g[j + 1] = Exchange(g[j], j, d[j]) /\ h[j + 1] = Exchange(h[j], j, e[j])
    BY <1>1, <2>2
  <2>4. QED
    BY <2>1, <2>3
<1> HIDE DEF S
<1>4. Nat \subseteq S
  BY <1>2, <1>3, ByInduction
<1>5. QED
  BY <1>4 DEF S

(***************************************************************************)
(* Replay is what such arrays end with.                                    *)
(***************************************************************************)
LEMMA ReplayRuns ==
  ASSUME NEW a, NEW d, NEW n \in Nat
  PROVE  \E g : Runs(g, a, d, n) /\ Replay(a, d, n) = g[n]
<1> DEFINE after == CHOOSE g :
                      g = [j \in 0 .. n |->
                             IF j = 0 THEN a ELSE Exchange(g[j - 1], j - 1, d[j - 1])]
<1>1. Replay(a, d, n) = after[n]
  BY Zenon DEF Replay
<1>2. Runs(after, a, d, n)
  <2>1. \E g : g = [j \in 0 .. n |->
                      IF j = 0 THEN a ELSE Exchange(g[j - 1], j - 1, d[j - 1])]
    <3>1. PICK g : Runs(g, a, d, n)
      BY RunsExist
    <3>2. QED
      BY <3>1, Zenon DEF Runs
  <2>2. QED
    BY <2>1, Zenon DEF Runs
<1>3. QED
  BY <1>1, <1>2

(***************************************************************************)
(* One more iteration is one more swap, whatever is said of later draws.   *)
(***************************************************************************)
LEMMA ReplayStep ==
  ASSUME NEW a, NEW d, NEW e, NEW n \in Nat,
         \A j \in 0 .. n - 1 : d[j] = e[j]
  PROVE  /\ Replay(a, d, 0) = a
         /\ Replay(a, d, n + 1) = Exchange(Replay(a, e, n), n, d[n])
<1>1. Replay(a, d, 0) = a
  <2>1. PICK g : Runs(g, a, d, 0) /\ Replay(a, d, 0) = g[0]
    BY ReplayRuns
  <2>2. QED
    BY <2>1 DEF Runs
<1>2. PICK g : Runs(g, a, d, n + 1) /\ Replay(a, d, n + 1) = g[n + 1]
  BY ReplayRuns
<1>3. PICK h : Runs(h, a, e, n) /\ Replay(a, e, n) = h[n]
  BY ReplayRuns
<1>4. g[n] = h[n]
  BY <1>2, <1>3, RunsAgree
<1>5. \A j \in 0 .. n + 1 : g[j] = IF j = 0 THEN a
                                   ELSE Exchange(g[j - 1], j - 1, d[j - 1])
  BY <1>2, Zenon DEF Runs
<1>6. n + 1 \in 0 .. n + 1 /\ n + 1 # 0 /\ n + 1 - 1 = n
  OBVIOUS
<1>7. g[n + 1] = Exchange(g[n], n, d[n])
  BY <1>5, <1>6
<1>8. QED
  BY <1>1, <1>2, <1>3, <1>4, <1>7

(***************************************************************************)
(* The first k draws of a pass are draws of k iterations.                  *)
(***************************************************************************)
DrawSequences(n) ==
  { d \in [0 .. n - 1 -> SlotsOf(N)] : \A j \in 0 .. n - 1 : d[j] \in Draw(j) }

LEMMA DrawsCutShort ==
  ASSUME NEW k \in Nat, NEW d \in DrawSequences(k + 1)
  PROVE  /\ [j \in 0 .. k - 1 |-> d[j]] \in DrawSequences(k)
         /\ d[k] \in Draw(k) /\ d \in [0 .. k -> SlotsOf(N)]
<1>1. k + 1 - 1 = k
  OBVIOUS
<1>2. d \in [0 .. k -> SlotsOf(N)] /\ \A j \in 0 .. k : d[j] \in Draw(j)
  BY <1>1 DEF DrawSequences
<1>3. QED
  BY <1>2 DEF DrawSequences

(***************************************************************************)
(* Whatever is drawn, an order stays one.                                  *)
(***************************************************************************)
LEMMA ReplayIsOrder ==
  ASSUME NEW a \in Orders(N), NEW n \in SlotsOf(N), NEW d \in DrawSequences(n)
  PROVE  Replay(a, d, n) \in Orders(N)
<1> DEFINE S == { k \in Nat : k \in SlotsOf(N) =>
                    \A e \in DrawSequences(k) : Replay(a, e, k) \in Orders(N) }
<1>1. 0 \in S
  BY ReplayStep
<1>2. ASSUME NEW k \in Nat, k \in S
      PROVE  k + 1 \in S
  <2> SUFFICES ASSUME k + 1 \in SlotsOf(N), NEW e \in DrawSequences(k + 1)
               PROVE  Replay(a, e, k + 1) \in Orders(N)
    OBVIOUS
  <2>0. PICK f \in DrawSequences(k) : f = [j \in 0 .. k - 1 |-> e[j]]
    BY DrawsCutShort
  <2>1. k \in SlotsOf(N)
    BY NAssumption DEF SlotsOf
  <2>2. Replay(a, f, k) \in Orders(N)
    BY <1>2, <2>1
  <2>3. e[k] \in SlotsOf(N)
    <3>1. e[k] \in Draw(k)
      BY DrawsCutShort
    <3>2. e[k] \in k .. N - 1
      BY <3>1, <2>1, DrawIsUnsettled
    <3>3. QED
      BY <3>2, NAssumption DEF SlotsOf
  <2>4. Replay(a, e, k + 1) = Exchange(Replay(a, f, k), k, e[k])
    <3>1. \A j \in 0 .. k - 1 : e[j] = f[j]
      BY <2>0
    <3>2. QED
      BY <3>1, ReplayStep
  <2>5. QED
    BY <2>1, <2>2, <2>3, <2>4, ExchangeKeepsOrder
<1> HIDE DEF S
<1>3. Nat \subseteq S
  BY <1>1, <1>2, ByInduction
<1>4. n \in Nat
  BY NAssumption DEF SlotsOf
<1>5. QED
  BY <1>3, <1>4 DEF S

(***************************************************************************)
(* The indices of this pass have made the array what it is, and no others  *)
(* have settled its first i entries as it has them.  (That no others make  *)
(* the whole array is not inductive: the entries behind i may yet change.) *)
(***************************************************************************)
Told ==
  /\ Indices(draws) \in DrawSequences(i)
  /\ Replay(start, Indices(draws), i) = arr
  /\ \A d \in DrawSequences(i) :
       (\A p \in 0 .. i - 1 : Replay(start, d, i)[p] = arr[p])
         => d = Indices(draws)

(***************************************************************************)
(* A pass that has drawn nothing has done nothing.                         *)
(***************************************************************************)
LEMMA ToldAtStart ==
  ASSUME i = 0, start = arr, draws = [j \in {} |-> 0]
  PROVE  Told
<1>1. 0 .. 0 - 1 = {}
  OBVIOUS
<1>2. Indices(draws) = [j \in {} |-> 0]
  BY DEF Indices
<1>3. Indices(draws) \in DrawSequences(0)
  BY <1>1, <1>2 DEF DrawSequences
<1>4. \A d \in DrawSequences(0) : d = Indices(draws)
  BY <1>1, <1>2 DEF DrawSequences
<1>5. Replay(start, Indices(draws), 0) = arr
  BY ReplayStep
<1>6. QED
  BY <1>3, <1>4, <1>5 DEF Told

LEMMA ToldSwap ==
  ASSUME TypeOK, AlwaysAnOrder, Told, Swap
  PROVE  Told'
<1> DEFINE was == Indices(draws)
           is  == Indices(draws')
<1>0. PICK r \in 0 .. RandMax :
        /\ arr' = Exchange(arr, i, Index(i, r))
        /\ draws' = [j \in 0 .. i |-> IF j = i THEN r ELSE draws[j]]
  BY DEF Swap
<1>1. PICK rnd \in Draw(i) :
        /\ arr' = Exchange(arr, i, rnd)
        /\ is = [j \in 0 .. i |-> IF j = i THEN rnd ELSE was[j]]
  <2>1. Index(i, r) \in Draw(i)
    BY DEF Draw
  <2>2. \A j \in 0 .. i : j # i => j \in DOMAIN draws
    BY DEF TypeOK, SlotsOf
  <2>3. is = [j \in 0 .. i |-> IF j = i THEN Index(i, r) ELSE was[j]]
    BY <1>0, <2>2 DEF Indices
  <2>4. QED
    BY <1>0, <2>1, <2>3
<1> HIDE DEF was, is
<1>2. /\ i \in Nat /\ i \in SlotsOf(N) /\ i' = i + 1 /\ start' = start
      /\ i + 1 - 1 = i
  BY NAssumption DEF Swap, Increment, TypeOK, SlotsOf
<1>3. was \in [0 .. i - 1 -> SlotsOf(N)] /\ \A j \in 0 .. i - 1 : was[j] \in Draw(j)
  BY DEF Told, DrawSequences, was
<1>4. \A x \in Draw(i) : x \in i .. N - 1 /\ x \in SlotsOf(N)
  BY <1>2, DrawIsUnsettled, NAssumption DEF SlotsOf
<1>5. is \in DrawSequences(i + 1)
  <2>1. is \in [0 .. i -> SlotsOf(N)]
    BY <1>1, <1>2, <1>3, <1>4
  <2>2. \A j \in 0 .. i : is[j] \in Draw(j)
    BY <1>1, <1>2, <1>3
  <2>3. QED
    BY <2>1, <2>2, <1>2 DEF DrawSequences
<1>6. Replay(start, is, i + 1) = arr'
  <2>1. \A j \in 0 .. i - 1 : is[j] = was[j]
    BY <1>1, <1>2
  <2>2. is[i] = rnd
    BY <1>1, <1>2
  <2>3. Replay(start, is, i + 1) = Exchange(Replay(start, was, i), i, rnd)
    BY <2>1, <2>2, <1>2, ReplayStep, SMTT(30)
  <2>4. QED
    BY <2>3, <1>1 DEF Told, was
<1>7. ASSUME NEW d \in DrawSequences(i + 1),
             \A p \in 0 .. i : Replay(start, d, i + 1)[p] = arr'[p]
      PROVE  d = is
  <2>1. PICK c \in DrawSequences(i) : c = [j \in 0 .. i - 1 |-> d[j]]
    BY <1>2, DrawsCutShort
  <2>2. d[i] \in Draw(i) /\ d \in [0 .. i -> SlotsOf(N)]
    BY <1>2, DrawsCutShort
  <2>3. PICK b \in Orders(N) : b = Replay(start, c, i)
    BY <1>2, ReplayIsOrder DEF AlwaysAnOrder
  <2>4. Replay(start, d, i + 1) = Exchange(b, i, d[i])
    <3>1. \A j \in 0 .. i - 1 : d[j] = c[j]
      BY <2>1
    <3>2. QED
      BY <3>1, <2>3, <1>2, ReplayStep
  <2>5. \A x \in Draw(i) : \A o \in Orders(N) :
          /\ \A p \in 0 .. i - 1 : Exchange(o, i, x)[p] = o[p]
          /\ Exchange(o, i, x)[i] = o[x]
    <3> SUFFICES ASSUME NEW x \in Draw(i), NEW o \in Orders(N)
                 PROVE  /\ \A p \in 0 .. i - 1 : Exchange(o, i, x)[p] = o[p]
                        /\ Exchange(o, i, x)[i] = o[x]
      OBVIOUS
    <3>1. x \in i .. N - 1 /\ x \in SlotsOf(N)
      BY <1>4
    <3>2. \A p \in 0 .. i - 1 : p \in SlotsOf(N) \ {i, x}
      BY <3>1, <1>2, NAssumption DEF SlotsOf
    <3>3. o \in [SlotsOf(N) -> SlotsOf(N)]
      BY OrderIsOneToOne, NAssumption
    <3>4. Exchange(o, i, x)[i] = o[x]
      BY <3>1, <3>3, <1>2 DEF Exchange
    <3>5. QED
      BY <3>1, <3>2, <3>4, <1>2, ExchangeKeepsOrder
  <2>6. arr \in Orders(N)
    BY DEF AlwaysAnOrder
  <2>7. \A p \in 0 .. i - 1 : b[p] = arr[p]
    <3> SUFFICES ASSUME NEW p \in 0 .. i - 1 PROVE b[p] = arr[p]
      OBVIOUS
    <3>1. p \in 0 .. i
      BY <1>2
    <3>2. Exchange(b, i, d[i])[p] = b[p]
      BY <2>2, <2>5
    <3>3. Exchange(arr, i, rnd)[p] = arr[p]
      BY <2>6, <2>5
    <3>4. QED
      BY <3>1, <3>2, <3>3, <2>4, <1>1, <1>7
  <2>8. c = was /\ b = arr
    BY <2>3, <2>7 DEF Told, was
  <2>9. arr[d[i]] = arr[rnd]
    <3>1. i \in 0 .. i
      BY <1>2
    <3>2. Exchange(arr, i, d[i])[i] = arr[d[i]] /\ Exchange(arr, i, rnd)[i] = arr[rnd]
      BY <2>2, <2>5, <2>6
    <3>3. QED
      BY <3>1, <3>2, <2>4, <2>8, <1>1, <1>7
  <2>10. d[i] = rnd
    BY <2>9, <2>6, <2>2, <1>4, OrderIsOneToOne, NAssumption
  <2>11. \A j \in 0 .. i : d[j] = is[j]
    BY <2>1, <2>8, <2>10, <1>1, <1>2
  <2>12. is \in [0 .. i -> SlotsOf(N)]
    BY <1>5, <1>2 DEF DrawSequences
  <2>13. d = [j \in 0 .. i |-> d[j]] /\ is = [j \in 0 .. i |-> is[j]]
    BY <2>2, <2>12, Zenon
  <2>14. [j \in 0 .. i |-> d[j]] = [j \in 0 .. i |-> is[j]]
    BY <2>11, Zenon
  <2>15. QED
    BY <2>13, <2>14, Zenon
<1>8. QED
  BY <1>2, <1>5, <1>6, <1>7 DEF Told, is

(***************************************************************************)
(* Of all that rand() could have returned, what makes the array the pass   *)
(* has is what gives the indices it has swapped at: each order comes of    *)
(* one sequence of indices, for an array of any size (random.c:18-21).     *)
(* How many values of rand() give an index is another matter (line 19).    *)
(***************************************************************************)
THEOREM OrdersTellIndices == Spec => []OrderTellsIndices
<1>1. Init => Told
  BY ToldAtStart DEF Init
<1>2. TypeOK /\ AlwaysAnOrder /\ Told /\ [Next]_vars => Told'
  <2> SUFFICES ASSUME TypeOK, AlwaysAnOrder, Told, [Next]_vars
               PROVE  Told'
    OBVIOUS
  <2>1. CASE Swap
    BY <2>1, ToldSwap
  <2>2. CASE Again
    <3>1. i' = 0 /\ start' = arr' /\ draws' = [j \in {} |-> 0]
      BY <2>2 DEF Again
    <3>2. (i = 0 /\ start = arr /\ draws = [j \in {} |-> 0])'
      BY <3>1
    <3>3. (i = 0 /\ start = arr /\ draws = [j \in {} |-> 0] => Told)'
      BY ToldAtStart, PTL
    <3>4. QED
      BY <3>2, <3>3
  <2>3. CASE UNCHANGED vars
    BY <2>3 DEF vars, Told
  <2>4. QED
    BY <2>1, <2>2, <2>3 DEF Next
<1>3. TypeOK /\ Told => OrderTellsIndices
  <2> SUFFICES ASSUME TypeOK, Told, NEW v \in [0 .. i - 1 -> 0 .. RandMax]
               PROVE  Replay(start, Indices(v), i) = arr <=> Indices(v) = Indices(draws)
    BY DEF OrderTellsIndices
  <2>1. Indices(v) \in DrawSequences(i)
    <3>1. \A j \in 0 .. i - 1 : /\ j \in SlotsOf(N)
                                /\ Index(j, v[j]) \in Draw(j)
      BY NAssumption DEF TypeOK, SlotsOf, Draw
    <3>2. \A j \in 0 .. i - 1 : Index(j, v[j]) \in SlotsOf(N)
      BY <3>1, DrawIsUnsettled, NAssumption DEF SlotsOf
    <3>3. QED
      BY <3>1, <3>2 DEF Indices, DrawSequences
  <2>2. QED
    BY <2>1 DEF Told
<1>4. QED
  BY <1>1, <1>2, <1>3, Invariance, PTL DEF Spec

=============================================================================
