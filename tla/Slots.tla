-------------------------------- MODULE Slots --------------------------------
(***************************************************************************)
(* The order arithmetic of src/transform.c.  A prologue of n pushes has n  *)
(* preservation slots, numbered from 0; so has each epilogue of n pops     *)
(* that mirrors it.  Instructions are named by their original position.    *)
(***************************************************************************)
EXTENDS Integers, Functions

SlotsOf(n) == 0 .. n - 1

\* Every slot number once: what tf->order holds.
Orders(n) == Bijection(SlotsOf(n), SlotsOf(n))

IdentityFromOne(n) == [s \in SlotsOf(n) |-> s + 1]

Identity(n) == [s \in SlotsOf(n) |-> s]

\* The local array of instr_set_encode_order: the loop stores instruction i of
\* the set at instrs[order[i]], and the instructions are then written out from
\* slot 0 up.
Placed(o, n) == Inverse(o, SlotsOf(n), SlotsOf(n))

MirrorValuesOnly(o, n) == [s \in SlotsOf(n) |-> (n - 1) - o[s]]

\* eorder, the order vector permute() derives for the epilogues.
Mirror(o, n) == [s \in SlotsOf(n) |-> (n - 1) - o[(n - 1) - s]]

(***************************************************************************)
(* is_epilogue() has checked that pop i of an epilogue restores the        *)
(* register that push (n - 1) - i saved.  So a laid out epilogue undoes a  *)
(* laid out prologue when its slots, last to first, name the partners of   *)
(* the pushes, first to last.                                              *)
(***************************************************************************)
Partner(s, n) == (n - 1) - s

Undoes(e, p, n) == \A s \in SlotsOf(n) : e[Partner(s, n)] = Partner(p[s], n)

=============================================================================
