-------------------------------- MODULE Pages --------------------------------
(***************************************************************************)
(* The code of a binary, loaded locally and served a page at a time:       *)
(* binary_find_section() and binary_find_segment() of src/binary.c, the    *)
(* accessors of src/section.c and src/segment.c, and map_code_pages(),     *)
(* rave_relocate() and rave_handle_fault() of src/rave.c.                  *)
(*                                                                         *)
(* One step is one entry of a table looked at, or one call of the program  *)
(* that uses the library.  Local memory is an interval of indices into the *)
(* mapping that map_code_pages() makes, the byte of the file at offset o   *)
(* is o, and names are what strncmp() tells of them.                       *)
(***************************************************************************)
EXTENDS Window, Integers, Sequences

CONSTANTS
  Files,      \* the headers that a binary may have
  PageSize,   \* PAGESZ
  IntWord,    \* how many values an int has
  LoadAddrs   \* where the code segment may be loaded

ASSUME PageSizeAssumption == PageSize \in Nat \ {0} /\ Word % PageSize = 0

ASSUME IntWordAssumption == IntWord \in Nat \ {0} /\ Word % IntWord = 0

ASSUME LoadAddrsAssumption == LoadAddrs \subseteq Words

VARIABLES
  file,       \* the section and program headers of this binary
  pc,         \* the loop or the call that the program is in
  i,          \* how many entries of the table have been passed
  text,       \* the text section that was found
  segment,    \* the segment that was found
  code,       \* self->code: the windows segment and text
  reloc,      \* self->reloc_offset
  base,       \* where the code segment is loaded, if rave_relocate() was told
  fault       \* the last address that was asked for and the page it got

vars == <<file, pc, i, text, segment, code, reloc, base, fault>>

Sections ==
  [name : STRING, addr : Words, offset : Words, size : Words]

Segments ==
  [type : Nat, vaddr : Words, offset : Words, filesz : Words, memsz : Words]

\* One segment holds what it holds at one place, whatever header is read.
ASSUME FilesAssumption ==
  /\ Files \subseteq [sections : Seq(Sections), segments : Seq(Segments)]
  /\ \A f \in Files : \A k \in DOMAIN f.sections, m \in DOMAIN f.segments :
       LET s == f.sections[k]
           g == f.segments[m]
       IN  g.vaddr <= s.addr /\ s.addr < g.vaddr + g.memsz =>
             s.addr - g.vaddr = s.offset - g.offset /\ g.filesz <= g.memsz

-----------------------------------------------------------------------------

NoEntry == [name |-> "none"]

NoWindow == WindowOf(0, 0, 0)

NULL == -1

NoPage == [addr |-> NULL, data |-> NULL]

\* PAGE_DOWN() and PAGE_UP()
PageDown(a) == a - (a % PageSize)

PageUpUnrounded(a) == Plus(a, PageSize - 1)

PageUp(a) == PageDown(Plus(a, PageSize - 1))

\* strncmp() over the length of ".text": a longer name is the same to it.  A
\* name that cannot be read is passed over like one that differs.
Matches(name) == name \in {".text", ".text.hot"}

\* section_address() returns the address through an int.
SectionAddress(s) ==
  LET low == s.addr % IntWord
  IN  IF 2 * low < IntWord THEN low ELSE Word - IntWord + low

\* segment_loadable() tests a bit of the type; PT_LOAD is 1.
Loadable(g) == g.type % 2 = 1

SegmentContains(g, a) == g.vaddr <= a /\ a < Plus(g.vaddr, g.memsz)

Fail == pc' = "failed" /\ i' = 0 /\ UNCHANGED <<text, segment>>

NextEntry == i' = i + 1 /\ UNCHANGED <<pc, text, segment>>

-----------------------------------------------------------------------------

Init ==
  /\ file \in Files
  /\ pc = "section"
  /\ i = 0
  /\ text = NoEntry
  /\ segment = NoEntry
  /\ code = [segment |-> NoWindow, text |-> NoWindow]
  /\ reloc = 0
  /\ base = NULL
  /\ fault = NoPage

\* One round of binary_find_section(): a header that cannot be read ends it, and
\* section_init() may find no data.
FindSection ==
  /\ pc = "section"
  /\ IF i = Len(file.sections)
       THEN Fail
       ELSE \/ Fail
            \/ NextEntry /\ ~Matches(file.sections[i + 1].name)
            \/ /\ Matches(file.sections[i + 1].name)
               /\ text' = file.sections[i + 1]
               /\ pc' = "segment" /\ i' = 0
               /\ UNCHANGED segment
  /\ UNCHANGED <<file, code, reloc, base, fault>>

\* One round of binary_find_segment(): the first that contains the address is
\* taken, loadable or not.
FindSegment ==
  /\ pc = "segment"
  /\ IF i = Len(file.segments)
       THEN Fail
       ELSE \/ Fail
            \/ /\ ~SegmentContains(file.segments[i + 1], SectionAddress(text))
               /\ NextEntry
            \/ /\ SegmentContains(file.segments[i + 1], SectionAddress(text))
               /\ segment' = file.segments[i + 1]
               /\ pc' = "map" /\ i' = 0
               /\ UNCHANGED text
  /\ UNCHANGED <<file, code, reloc, base, fault>>

\* How much of the file is copied into the mapping of zeros.
CopySizeMem(g) == g.memsz

CopySize(g) == g.filesz

\* The mapping as the file leaves it, which rave_get_code() gives.
CodePages ==
  [a \in 0 .. code.segment.length - 1 |->
     IF a < CopySize(segment) THEN segment.offset + a ELSE -1]

\* The two windows that map_code_pages() makes of the mapping.
TextDataAtStart(s, g) == 0

TextData(s, g) == Minus(s.offset, g.offset)

Windows(s, g) ==
  [segment |-> WindowOf(g.vaddr, 0, PageUp(g.memsz)),
   text    |-> WindowOf(SectionAddress(s), TextData(s, g), s.size)]

\* map_code_pages().  What rave_init() does besides has no effect here, and no
\* one has written reloc_offset: it is whatever malloc() found there.
MapCodePages ==
  /\ pc = "map"
  /\ \/ /\ Loadable(segment)
        /\ code' = Windows(text, segment)
        /\ reloc' \in Words
        /\ pc' = "serve"
        /\ UNCHANGED <<i, text, segment>>
     \/ Fail /\ UNCHANGED <<code, reloc>>
  /\ UNCHANGED <<file, base, fault>>

RelocOffsetAdded(address) ==
  Plus(reloc, Minus(code.segment.orig, address))

RelocOffset(address) == Minus(code.segment.orig, address)

\* rave_relocate(): a loader keeps the place of the segment within its page.
\* What was served before is not about the new place.
Relocate ==
  /\ pc = "serve"
  /\ \E address \in LoadAddrs :
       /\ address % PageSize = segment.vaddr % PageSize
       /\ address + segment.memsz < Word
       /\ reloc' = RelocOffset(address)
       /\ base' = address
  /\ fault' = NoPage
  /\ UNCHANGED <<file, pc, i, text, segment, code>>

\* rave_handle_fault(): the page, or NULL.
PageForMore(address) ==
  LET a == Plus(PageDown(address), reloc)
  IN  IF Covers(code.segment, a) /\ Left(code.segment, a) > PageSize
        THEN View(code.segment, a)
        ELSE NULL

PageForUnmasked(address) ==
  LET a == Plus(address, reloc)
  IN  IF Covers(code.segment, a) /\ Left(code.segment, a) >= PageSize
        THEN View(code.segment, a)
        ELSE NULL

PageFor(address) ==
  LET a == Plus(PageDown(address), reloc)
  IN  IF Covers(code.segment, a) /\ Left(code.segment, a) >= PageSize
        THEN View(code.segment, a)
        ELSE NULL

HandleFault ==
  /\ pc = "serve"
  /\ \E address \in Words :
       fault' = [addr |-> address, data |-> PageFor(address)]
  /\ UNCHANGED <<file, pc, i, text, segment, code, reloc, base>>

\* A handle that could not be initialized is not used.
Failed == pc = "failed" /\ UNCHANGED vars

Next == FindSection \/ FindSegment \/ MapCodePages \/ Relocate \/ HandleFault
          \/ Failed

Spec == Init /\ [][Next]_vars

-----------------------------------------------------------------------------

\* The loaded addresses that hold bytes of the segment.
Loaded == IF base = NULL THEN {} ELSE base .. base + segment.memsz - 1

Served == fault.data # NULL

\* The byte of the mapping that the page served shows at the address asked for.
Shown == fault.data + (fault.addr % PageSize)

TypeOK ==
  /\ file \in Files
  /\ pc \in {"section", "segment", "map", "serve", "failed"}
  /\ i \in 0 .. Len(file.sections) + Len(file.segments)
  /\ code.segment.length \in Words /\ code.segment.length % PageSize = 0
  /\ code.text.orig \in Words /\ code.text.data \in Words
  /\ reloc \in Words
  /\ base \in Words \cup {NULL}
  /\ fault.addr \in Words \cup {NULL}
  /\ fault.data \in Words \cup {NULL}

(***************************************************************************)
(* A page that is served is whole: it does not reach out of the mapping,   *)
(* even while rave_relocate() has not been called and reloc_offset is      *)
(* whatever it is (rave.c:281-292).                                        *)
(***************************************************************************)
ServedIsWhole == Served => fault.data + PageSize <= code.segment.length

(***************************************************************************)
(* Once the library has been told where the code is, or told again, the    *)
(* page it serves for an address shows there the byte of the segment that  *)
(* was loaded at that address (rave.c:267, 281, 289).                      *)
(***************************************************************************)
ServedIsRight ==
  Served /\ fault.addr \in Loaded => Shown = fault.addr - base

(***************************************************************************)
(* A segment that begins a page is served in full: no address of it gets   *)
(* NULL, neither that of its first page nor that of a last page which the  *)
(* segment fills in part (rave.c:112, 283, 290).                           *)
(***************************************************************************)
AlignedIsServed ==
  fault.addr \in Loaded /\ segment.vaddr % PageSize = 0 =>
    Served

(***************************************************************************)
(* Both windows show one memory: what is written through the text window   *)
(* at an address is what the segment window serves there                   *)
(* (rave.c:33-41, 127-137).                                                *)
(***************************************************************************)
TextIsInSegment ==
  pc = "serve" =>
    \A a \in code.text.orig .. code.text.orig + code.text.length - 1 :
      Covers(code.segment, a) /\ View(code.segment, a) = View(code.text, a)

\* What is in the memory of a process that the system loaded the segment into:
\* whole pages of the file, and zeros (-1) where the segment outgrows the file.
FirstPage == PageDown(segment.vaddr)

LoadedByte(a) ==
  IF segment.memsz > segment.filesz /\ a >= segment.vaddr + segment.filesz
    THEN -1
    ELSE segment.offset + (a - segment.vaddr)

LoadedPages ==
  [a \in 0 .. PageUp(segment.vaddr + segment.memsz) - FirstPage - 1 |->
     LoadedByte(FirstPage + a)]

\* The rest of the last page of a segment that does not outgrow its file: the
\* system shows the file there as it goes on, map_code_pages() does not.
Padding ==
  { a \in DOMAIN CodePages :
      segment.memsz <= segment.filesz /\ segment.filesz <= a }

(***************************************************************************)
(* A segment that begins a page is mapped as the system loads it: as many  *)
(* pages, and the same bytes in all of them, the zeros behind the bytes of *)
(* the file included, but for what follows the segment in its last page,   *)
(* where there are zeros (rave.c:112-125).  test/code_mapping.c:133-139    *)
(* compares all the bytes, and so expects zeros there in the file as well. *)
(***************************************************************************)
MappedAsLoaded ==
  pc = "serve" /\ segment.vaddr % PageSize = 0 =>
    /\ DOMAIN CodePages = DOMAIN LoadedPages
    /\ \A a \in DOMAIN CodePages :
         CodePages[a] = IF a \in Padding THEN -1 ELSE LoadedPages[a]

=============================================================================
