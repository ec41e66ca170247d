------------------------------- MODULE Shuffle -------------------------------
(***************************************************************************)
(* shuffle() of src/random.c: the in-place Fisher-Yates pass that permute() *)
(* runs over tf->order before it lays the saved registers out again.       *)
(*                                                                         *)
(* One step of the machine is one iteration of the for loop: a call of     *)
(* rand(), and the swap.  The caller may start another pass over whatever  *)
(* the last one left, which is what a second rave_randomize() does.        *)
(***************************************************************************)
EXTENDS Slots

CONSTANTS
  N,         \* nmemb, the number of members of the array
  RandMax    \* the largest value rand() returns

\* permute() only ever shuffles a prologue of two or more pushes, so nmemb - 1,
\* an unsigned subtraction, does not wrap.
ASSUME NAssumption == N \in Nat /\ N >= 1
ASSUME RandMaxAssumption == RandMax \in Nat /\ RandMax >= N - 1

VARIABLES
  arr,       \* the array being shuffled, indexed from 0 as in C
  i,         \* the loop variable; the pass is over when it reaches N - 1
  start,     \* history: the array as this pass found it
  draws      \* history: what rand() has returned in this pass, draws[j] for i = j

vars == <<arr, i, start, draws>>

IndexFromStart(j, r) == r % N

\* rnd, when rand() returns r in iteration j.  Unless N - j divides RandMax + 1,
\* the smaller indices come of one value of rand() more than the larger ones.
Index(j, r) == j + (r % (N - j))

ExchangeNoTemp(a, p, q) == [a EXCEPT ![p] = a[q], ![q] = a[q]]

\* swap()
Exchange(a, p, q) == [a EXCEPT ![p] = a[q], ![q] = a[p]]

FinishedLate == i = N

Finished == i = N - 1

NoIncrement(j) == j

Increment(j) == j + 1

-----------------------------------------------------------------------------

Init ==
  /\ arr = Identity(N)
  /\ i = 0
  /\ start = Identity(N)
  /\ draws = [j \in {} |-> 0]

\* One iteration of the loop.
Swap ==
  /\ ~Finished
  /\ \E r \in 0 .. RandMax :
       /\ arr' = Exchange(arr, i, Index(i, r))
       /\ draws' = [j \in 0 .. i |-> IF j = i THEN r ELSE draws[j]]
  /\ i' = Increment(i)
  /\ UNCHANGED start

\* The next call of shuffle(), on the array as it stands.
Again ==
  /\ Finished
  /\ i' = 0
  /\ start' = arr
  /\ draws' = [j \in {} |-> 0]
  /\ UNCHANGED arr

Next == Swap \/ Again

Spec == Init /\ [][Next]_vars

\* A call runs to its end; nothing obliges the caller to make another.
FairSpec == Spec /\ WF_vars(Swap)

-----------------------------------------------------------------------------

TypeOK ==
  /\ arr \in [SlotsOf(N) -> SlotsOf(N)]
  /\ i \in SlotsOf(N)
  /\ start \in [SlotsOf(N) -> SlotsOf(N)]
  /\ draws \in [0 .. i - 1 -> 0 .. RandMax]

(***************************************************************************)
(* After every single iteration, and not only at the end, the array still  *)
(* holds each slot number exactly once.  permute() writes one instruction  *)
(* per entry (transform.c:478-481), so a repeated entry would lose a push. *)
(***************************************************************************)
AlwaysAnOrder == arr \in Orders(N) /\ start \in Orders(N)

(***************************************************************************)
(* An entry the pass has settled is never moved again by a later iteration *)
(* of the same pass (random.c:18-21 only draws from i upwards).            *)
(***************************************************************************)
SettledStays == [][ \A p \in 0 .. i - 1 : arr'[p] = arr[p] ]_vars

(***************************************************************************)
(* The array tells the indices: of all that rand() could have returned so  *)
(* far, what turns the array this pass found into the array it has is what *)
(* gives the same index in every iteration.  A whole pass has N! sequences *)
(* of indices and there are N! orders, so every order can come out, each   *)
(* of one sequence of indices.  That is not to say that they come out      *)
(* equally often: see Index.                                               *)
(***************************************************************************)
Indices(v) == [j \in DOMAIN v |-> Index(j, v[j])]

\* The array a after n iterations that swap at the indices d.
Replay(a, d, n) ==
  LET after[j \in 0 .. n] ==
        IF j = 0 THEN a ELSE Exchange(after[j - 1], j - 1, d[j - 1])
  IN  after[n]

OrderTellsIndices ==
  \A v \in [0 .. i - 1 -> 0 .. RandMax] :
    Replay(start, Indices(v), i) = arr <=> Indices(v) = Indices(draws)

\* Every call of shuffle() returns.
Returns == []<>Finished

=============================================================================
