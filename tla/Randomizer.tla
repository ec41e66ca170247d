----------------------------- MODULE Randomizer -----------------------------
(***************************************************************************)
(* What rave_randomize() promises a caller that looks at the code only     *)
(* between two calls.  A call that reports success leaves every function   *)
(* with pushes and pops that undo each other.  A call that reports failure *)
(* may have spoilt one function, the one it stopped in; each of the others *)
(* is either as it was or laid out afresh.  The promise is kept to the     *)
(* functions of Kept only.                                                 *)
(***************************************************************************)
EXTENDS Layout

CONSTANT
  Kept       \* the functions that the analysis was right about

VARIABLES
  code,      \* which instruction stands in each cell
  rc         \* what the last call returned

Unchanged(r) ==
  \A e \in SetsOf(r) : \A s \in SlotsOf(Size[r]) :
    code'[<<r, e, s>>] = code[<<r, e, s>>]

-----------------------------------------------------------------------------

\* The code as it was compiled.
Init ==
  /\ code = [c \in Cells |-> InstrOf(c[1], c[2], c[3])]
  /\ rc = "ok"

Succeed ==
  /\ rc' = "ok"
  /\ \A r \in Kept : Consistent(code', r)

Fail ==
  /\ rc' = "failed"
  /\ \E stopped \in Regions : \A r \in Kept \ {stopped} :
       Unchanged(r) \/ Consistent(code', r)

Next == Succeed \/ Fail

Spec == Init /\ [][Next]_<<code, rc>>

=============================================================================
