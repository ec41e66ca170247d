------------------------------- MODULE MCPages -------------------------------
(***************************************************************************)
(* Instances of Pages: addresses of six bits of which an int keeps five,   *)
(* and pages of four bytes.                                                *)
(***************************************************************************)
EXTENDS Pages

Section(name, addr, offset, size) ==
  [name |-> name, addr |-> addr, offset |-> offset, size |-> size]

Segment(type, vaddr, offset, filesz, memsz) ==
  [type |-> type, vaddr |-> vaddr, offset |-> offset, filesz |-> filesz,
   memsz |-> memsz]

PtLoad == 1
PtNote == 4

Interp == Section(".interp", 1, 1, 2)
Nameless == Section("unreadable", 1, 1, 2)

ManyFiles ==
  { \* Pages that fit, with the text in the middle of the segment
    [sections |-> <<Interp, Section(".text", 6, 6, 3)>>,
     segments |-> <<Segment(PtNote, 1, 1, 2, 2), Segment(PtLoad, 4, 4, 8, 8)>>],
    \* The last page is filled in part, and the file ends before the memory
    [sections |-> <<Nameless, Section(".text", 8, 4, 5)>>,
     segments |-> <<Segment(PtLoad, 8, 4, 5, 6)>>],
    \* The last page is filled in part by the file, which goes on in it
    [sections |-> <<Section(".text", 9, 5, 4)>>,
     segments |-> <<Segment(PtLoad, 8, 4, 6, 6)>>],
    \* The segment begins in the middle of a page
    [sections |-> <<Section(".text", 6, 2, 4)>>,
     segments |-> <<Segment(PtLoad, 0, 0, 2, 2), Segment(PtLoad, 5, 1, 9, 9)>>],
    \* A section whose name goes on
    [sections |-> <<Section(".text.hot", 4, 4, 2), Section(".text", 6, 6, 3)>>,
     segments |-> <<Segment(PtLoad, 4, 4, 8, 8)>>],
    \* What contains the text first is not loadable
    [sections |-> <<Section(".text", 6, 6, 3)>>,
     segments |-> <<Segment(PtNote, 4, 4, 8, 8), Segment(PtLoad, 4, 4, 8, 8)>>],
    \* An address that an int does not hold
    [sections |-> <<Section(".text", 22, 6, 3)>>,
     segments |-> <<Segment(PtLoad, 20, 4, 8, 8)>>],
    \* No text at all
    [sections |-> <<Interp>>, segments |-> <<Segment(PtLoad, 0, 0, 4, 4)>>] }

\* Where it was linked, lower, higher, and not at the beginning of a page
ManyLoads == {4, 8, 0, 40, 52, 5, 33}

=============================================================================
