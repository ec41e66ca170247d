----------------------------- MODULE MCMetadata -----------------------------
(***************************************************************************)
(* Instances of Metadata: addresses of five bits, a text section of ten    *)
(* bytes, and children that lie in it, end where it ends, reach out of it, *)
(* have their pcs the wrong way round, or lack them.                       *)
(***************************************************************************)
EXTENDS Metadata, SequencesExt

TextWindow == WindowOf(8, 0, 10)

Sub(lo, hi, constant) ==
  [subprogram |-> TRUE, lo |-> lo, hi |-> hi, constant |-> constant]

Variable ==
  [subprogram |-> FALSE, lo |-> NoPc, hi |-> NoPc, constant |-> FALSE]

Children ==
  { Sub(8, 4, TRUE),         \* the first function of the text
    Sub(12, 16, FALSE),      \* one in the middle
    Sub(14, 4, TRUE),        \* the last one
    Sub(15, 9, TRUE),        \* it reaches out
    Sub(4, 16, FALSE),       \* it reaches in
    Sub(14, 9, FALSE),       \* the wrong way round
    Sub(9, 2, TRUE),         \* too short
    Sub(12, NoPc, FALSE), Sub(NoPc, NoPc, FALSE), Variable }

Units ==
  { [hasDie |-> TRUE, children |-> c] : c \in SeqOf(Children, 2) }
    \cup { [hasDie |-> FALSE, children |-> <<>>] }

FewUnits == { u \in Units : Len(u.children) <= 1 }

\* One unit, or a small one and another.
ManyTrees == { <<>> } \cup { <<u>> : u \in Units }
               \cup { <<u, v>> : u \in FewUnits, v \in Units }

=============================================================================
