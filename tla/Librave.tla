------------------------------- MODULE Librave -------------------------------
(***************************************************************************)
(* An open handle at work: Permute rewrites the text through the text      *)
(* window while Pages serves the same memory through the segment window,   *)
(* and the program that uses the library copies what it is served into the *)
(* process that runs the code (src/rave.c:247-298).                        *)
(*                                                                         *)
(* The library has no lock, so a fault may be answered between any two     *)
(* steps of a randomization.  Copying a page is one step: a copy that      *)
(* overlaps the writing of an instruction counts as made before it.  What  *)
(* a page holds is followed until the library rewrites its bytes; then it  *)
(* is Stale, and nothing is said of it.                                    *)
(***************************************************************************)
EXTENDS Permute

CONSTANTS
  Word, IntWord, PageSize, LoadAddrs,  \* as in Pages
  Section,   \* the header of the text section
  Segment,   \* the header of the segment that it lies in
  Faults,    \* the addresses the process may touch
  Missing,   \* of a page that has not been served
  Stale      \* of a page that was rewritten after it was served

VARIABLES
  code,      \* self->code: the windows segment and text
  reloc,     \* self->reloc_offset
  base,      \* where the segment is loaded in the process
  proc       \* external: the process, page by page

handle == <<code, reloc, base>>

C == INSTANCE Pages WITH
       Files <- {}, file <- {}, pc <- "serve", i <- 0, text <- Section,
       segment <- Segment, fault <- [addr |-> -1, data |-> -1]

ASSUME WidthAssumption ==
  /\ Word \in Nat \ {0}
  /\ PageSize \in Nat \ {0} /\ Word % PageSize = 0
  /\ IntWord \in Nat \ {0} /\ Word % IntWord = 0
  /\ LoadAddrs \subseteq C!Words /\ Faults \subseteq C!Words

\* The addresses of the functions are those of the file; an int holds the
\* section's, and the section lies in the segment.
ASSUME SectionAssumption ==
  /\ Section \in C!Sections /\ Segment \in C!Segments
  /\ Addrs = Section.addr .. Section.addr + Section.size - 1
  /\ C!SectionAddress(Section) = Section.addr
  /\ Segment.vaddr <= Section.addr
  /\ Section.addr + Section.size <= Segment.vaddr + Segment.memsz
  /\ Segment.vaddr + Segment.memsz < Word
  /\ Section.addr - Segment.vaddr = Section.offset - Segment.offset

PageStarts == {C!PageDown(a) : a \in Faults}

\* Where the process has what the file has at address a.
Remote(a) == C!Plus(base, C!Minus(a, Segment.vaddr))

\* What the mapping holds at a local index, as far as the text window shows it.
Local(index) ==
  IF \E a \in Addrs : C!View(code.text, a) = index
    THEN text[CHOOSE a \in Addrs : C!View(code.text, a) = index]
    ELSE Other

\* The page copied out of the mapping.
Copied(data) == [k \in 0 .. PageSize - 1 |-> Local(data + k)]

Filled(a) == LET p == C!PageDown(Remote(a))
             IN  p \in PageStarts /\ proc[p] \notin {Missing, Stale}

InProcess(a) == proc[C!PageDown(Remote(a))][Remote(a) % PageSize]
-----------------------------------------------------------------------------
\* rave_init() and the first rave_relocate() have succeeded.
LibInit ==
  /\ Init
  /\ code = C!Windows(Section, Segment)
  /\ base \in {a \in LoadAddrs : /\ a % PageSize = Segment.vaddr % PageSize
                                 /\ a + Segment.memsz < Word}
  /\ reloc = C!RelocOffset(base)
  /\ proc = [p \in PageStarts |-> Missing]

\* The code is loaded into another process.
Relocate == /\ pc = "idle"
            /\ C!Relocate
            /\ proc' = [p \in PageStarts |-> Missing]
            /\ UNCHANGED vars

\* The process touches a page that it does not have, or that was taken from it
\* in order to be served afresh.
Fault ==
  /\ pc # "dead"
  /\ \E a \in Faults :
       /\ C!PageFor(a) # C!NULL
       /\ proc' = [proc EXCEPT ![C!PageDown(a)] = Copied(C!PageFor(a))]
  /\ UNCHANGED <<vars, handle>>

\* rave_randomize(): what it writes makes the page it was copied to stale.
Randomize ==
  /\ Next
  /\ proc' = [p \in PageStarts |->
                IF proc[p] # Missing /\ \E a \in Addrs : /\ text'[a] # text[a]
                                                         /\ C!PageDown(Remote(a)) = p
                  THEN Stale ELSE proc[p]]
  /\ UNCHANGED handle

LibNext == Relocate \/ Fault \/ Randomize

LibSpec == LibInit /\ [][LibNext]_<<vars, handle, proc>>
-----------------------------------------------------------------------------
(***************************************************************************)
(* A page that was served and not rewritten since shows the process, at    *)
(* every address of the text, the instruction the library holds there:     *)
(* both windows, the relocation and the order of faults and randomizations *)
(* included (rave.c:127-137, 256, 267, 281-297).                           *)
(***************************************************************************)
ProcessShowsText ==
  \A a \in Addrs : Filled(a) => InProcess(a) = text[a]

(***************************************************************************)
(* An undisturbed function that the process has every page of, none of     *)
(* them rewritten since it was served, restores what it saves, even if a   *)
(* randomization of other functions is under way, or if one failed; but    *)
(* for a function whose rewriting was cut short.                           *)
(***************************************************************************)
ProcCode == [c \in Cells |-> InProcess(CellAddr(c[1], c[2], c[3]))]

Present(r) == \A e \in SetsOf(r), s \in SlotsOf(Size[r]) : Filled(CellAddr(r, e, s))

RunsWhole ==
  \A r \in Undisturbed \ torn : Present(r) => Consistent(ProcCode, r)

=============================================================================
