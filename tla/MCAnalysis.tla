----------------------------- MODULE MCAnalysis -----------------------------
(***************************************************************************)
(* Instances of Analysis: two registers, whose pushes and pops are one and *)
(* two bytes long as rbx's and r12's are, an instruction of three bytes    *)
(* that is neither, and one that does not decode.                          *)
(***************************************************************************)
EXTENDS Analysis, SequencesExt

Instr(op, reg, len) == [op |-> op, reg |-> reg, len |-> len]

Pushes == {Instr("push", "rbx", 1), Instr("push", "r12", 2)}
Pops   == {Instr("pop", "rbx", 1), Instr("pop", "r12", 2)}
Rest   == Instr("other", "none", 3)
Bad    == Instr("bad", "none", 1)

Opening == <<Instr("push", "rbx", 1), Instr("push", "r12", 2), Rest>>

\* Every function of up to five instructions; every one of up to four in which
\* some may not decode; and, behind a prologue, every end of up to six.
Listings ==
  SeqOf(Pushes \cup Pops \cup {Rest}, 5)
    \cup SeqOf(Pushes \cup Pops \cup {Rest, Bad}, 4)
    \cup { Opening \o tail : tail \in SeqOf(Pops \cup {Rest}, 6) }

\* A listing with the place of each instruction.
Laid(b) ==
  LET place[k \in 1 .. Len(b)] == IF k = 1 THEN 0 ELSE place[k - 1] + b[k - 1].len
  IN  [k \in DOMAIN b |-> [op |-> b[k].op, reg |-> b[k].reg, len |-> b[k].len,
                           at |-> place[k]]]

SmallBodies == {Laid(b) : b \in Listings}

=============================================================================
