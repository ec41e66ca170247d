------------------------------- MODULE Layout -------------------------------
(***************************************************************************)
(* Where the preservation code of the program's functions stands, and what *)
(* it means for a function to restore what it saves.                       *)
(*                                                                         *)
(* A region is the code of one function.  Its sets are its prologue (e = 0) *)
(* and its epilogues (e = 1, 2, ...), each of Size[r] instructions.  A cell *)
(* <<r, e, s>> is slot s of set e.  Every instruction takes one address:   *)
(* how many bytes a push is long is left to module Analysis.               *)
(***************************************************************************)
EXTENDS Slots

CONSTANTS
  Regions,   \* the code of the distinct functions
  Size,      \* Size[r]: prologue.nr_instrs, the number of slots
  NumEpis,   \* NumEpis[r]: the length of the epilogues list
  Saved      \* Saved[r][i]: the register that push i of the prologue saves

\* A function is only accepted with two slots or more (transform.c:336) and an
\* epilogue or more (transform.c:400).
ASSUME SizeAssumption == Size \in [Regions -> Nat \ {0, 1}]
ASSUME NumEpisAssumption == NumEpis \in [Regions -> Nat \ {0}]

SetsOf(r) == 0 .. NumEpis[r]

Cells == UNION { {<<r, e, s>> : e \in SetsOf(r), s \in SlotsOf(Size[r])} :
                 r \in Regions }

Push(reg) == <<"push", reg>>
Pop(reg)  == <<"pop", reg>>

\* Instruction i of set e as the program was compiled.  is_epilogue() checked
\* that pop i restores the register of the push as far from the other end.
InstrOf(r, e, i) ==
  IF e = 0 THEN Push(Saved[r][i]) ELSE Pop(Saved[r][Partner(i, Size[r])])

\* Slot s of the prologue holds push p[s], and the pops of every epilogue,
\* last slot first, restore the same registers in turn.
LaidOut(code, r, p) ==
  \A s \in SlotsOf(Size[r]) :
    /\ code[<<r, 0, s>>] = Push(Saved[r][p[s]])
    /\ \A e \in SetsOf(r) \ {0} :
         code[<<r, e, Partner(s, Size[r])>>] = Pop(Saved[r][p[s]])

\* The function saves each of its registers and restores it from the slot it
\* was saved in.
Consistent(code, r) == \E p \in Orders(Size[r]) : LaidOut(code, r, p)

=============================================================================
