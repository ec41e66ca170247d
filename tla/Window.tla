------------------------------- MODULE Window -------------------------------
(***************************************************************************)
(* src/window.c and the macros of src/util.h it uses: a region of memory   *)
(* that stands locally for another range of addresses.  Addresses and      *)
(* lengths are unsigned and wrap around at Word.                           *)
(***************************************************************************)
EXTENDS Naturals

CONSTANT
  Word       \* how many values uintptr_t and size_t have

ASSUME WordAssumption == Word \in Nat \ {0}

Words == 0 .. Word - 1

Plus(a, b)  == (a + b) % Word
Minus(a, b) == (a + Word - b) % Word

\* window_init(): data is where the local bytes are.
WindowOf(orig, data, length) ==
  [orig |-> orig, data |-> data, length |-> length]

\* window_contains()
Covers(w, a) == w.orig <= a /\ a < Plus(w.orig, w.length)

\* window_view() of an address it contains: where the local byte is, and how
\* many bytes there are from there on.
View(w, a) == Plus(w.data, Minus(a, w.orig))

LeftWhole(w, a) == w.length

Left(w, a) == Minus(w.length, Minus(a, w.orig))

=============================================================================
