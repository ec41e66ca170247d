----------------------------- MODULE PagesProofs -----------------------------
(***************************************************************************)
(* Proofs about Pages, for every binary, every width of an address and of  *)
(* an int, every size of a page and every place the code is loaded at.     *)
(***************************************************************************)
EXTENDS Pages, TLAPS

LEMMA SmallModulo == \A x \in Nat : x < Word => x % Word = x
  BY WordAssumption

LEMMA LargeModulo ==
  \A x \in Nat : Word <= x /\ x < 2 * Word => x % Word = x - Word
  BY WordAssumption

LEMMA SumsAreWords == \A a, b \in Words : Plus(a, b) \in Words /\ Minus(a, b) \in Words
  BY WordAssumption DEF Words, Plus, Minus

LEMMA DifferencesAreExact ==
  ASSUME NEW a \in Words, NEW b \in Words, b <= a
  PROVE  Minus(a, b) = a - b
<1>1. a + Word - b \in Nat /\ a + Word - b < 2 * Word /\ Word <= a + Word - b
  BY WordAssumption DEF Words
<1> DEFINE x == a + Word - b
<1>2. x % Word = x - Word
  <2> HIDE DEF x
  <2>1. x \in Nat /\ x < 2 * Word /\ Word <= x
    BY <1>1 DEF x
  <2>2. QED
    BY <2>1, LargeModulo
<1>3. Minus(a, b) = x % Word
  BY DEF Minus
<1>4. x - Word = a - b
  BY WordAssumption DEF Words
<1>5. QED
  <2> HIDE DEF x
  <2> QED
    BY <1>2, <1>3, <1>4

(***************************************************************************)
(* The addresses of the pages, and where they are in relation to others.   *)
(***************************************************************************)
LEMMA PageDownIsPage ==
  ASSUME NEW x \in Nat
  PROVE  /\ PageDown(x) \in Nat
         /\ PageDown(x) <= x /\ x < PageDown(x) + PageSize
         /\ PageDown(x) % PageSize = 0
         /\ x % PageSize \in 0 .. PageSize - 1
         /\ PageDown(x) + (x % PageSize) = x
<1> USE PageSizeAssumption
<1>1. x % PageSize \in 0 .. PageSize - 1
  OBVIOUS
<1>2. x = PageSize * (x \div PageSize) + (x % PageSize)
  OBVIOUS
<1>3. x \div PageSize \in Nat
  OBVIOUS
<1>4. PageDown(x) = PageSize * (x \div PageSize)
  BY <1>1, <1>2, <1>3 DEF PageDown
<1>5. \A q \in Nat : (PageSize * q) % PageSize = 0
  OBVIOUS
<1>6. QED
  BY <1>1, <1>2, <1>3, <1>4, <1>5 DEF PageDown

LEMMA PagesAreCounted ==
  ASSUME NEW p \in Nat, p % PageSize = 0
  PROVE  \E a \in Nat : p = PageSize * a
<1> DEFINE a == p \div PageSize
<1>1. a \in Nat /\ PageSize * a \in Nat /\ p = PageSize * a + (p % PageSize)
  BY PageSizeAssumption
<1>2. a \in Nat /\ p = PageSize * a
  <2> HIDE DEF a
  <2> QED
    BY <1>1
<1>3. QED
  BY <1>2

LEMMA PagesAreApart ==
  ASSUME NEW p \in Nat, NEW q \in Nat, p % PageSize = 0, q % PageSize = 0, p < q
  PROVE  p + PageSize <= q /\ (q - p) % PageSize = 0
<1> USE PageSizeAssumption
<1>1. PICK a \in Nat : p = PageSize * a
  BY PagesAreCounted
<1>2. PICK b \in Nat : q = PageSize * b
  BY PagesAreCounted
<1>3. a < b
  <2>1. SUFFICES ASSUME b <= a PROVE FALSE
    OBVIOUS
  <2>2. PageSize * (a - b) >= 0 /\ PageSize * (a - b) = PageSize * a - PageSize * b
    BY <2>1
  <2>3. QED
    BY <1>1, <1>2, <2>2
<1>4. PICK c \in Nat : b = a + 1 + c
  <2>1. b - (a + 1) \in Nat /\ b = a + 1 + (b - (a + 1))
    BY <1>3
  <2>2. QED
    BY <2>1
<1>5. /\ PageSize * b = PageSize * a + PageSize + PageSize * c
      /\ PageSize * c \in Nat
  BY <1>4
<1>6. q - p = PageSize * (c + 1)
  BY <1>1, <1>2, <1>5
<1>7. \A d \in Nat : (PageSize * d) % PageSize = 0
  OBVIOUS
<1>8. QED
  BY <1>1, <1>2, <1>5, <1>6, <1>7

(***************************************************************************)
(* A later address is not on an earlier page.                              *)
(***************************************************************************)
LEMMA PageDownRises ==
  ASSUME NEW x \in Nat, NEW y \in Nat, x <= y
  PROVE  PageDown(x) <= PageDown(y)
<1>1. /\ PageDown(x) \in Nat /\ PageDown(x) % PageSize = 0 /\ PageDown(x) <= x
      /\ PageDown(y) \in Nat /\ PageDown(y) % PageSize = 0
      /\ y < PageDown(y) + PageSize
  BY PageDownIsPage
<1>2. PageDown(y) < PageDown(x) => PageDown(y) + PageSize <= PageDown(x)
  BY <1>1, PagesAreApart
<1>3. PageSize \in Nat
  BY PageSizeAssumption
<1>4. QED
  BY <1>1, <1>2, <1>3

(***************************************************************************)
(* Where nothing wraps around, rounding up is rounding up.                 *)
(***************************************************************************)
LEMMA PageUpIsPage ==
  ASSUME NEW x \in Nat, x + PageSize <= Word
  PROVE  /\ PageUp(x) = PageDown(x + PageSize - 1)
         /\ PageUp(x) \in Nat /\ PageUp(x) % PageSize = 0
         /\ x <= PageUp(x) /\ PageUp(x) < x + PageSize
<1>1. PageSize \in Nat \ {0} /\ Word \in Nat
  BY PageSizeAssumption, WordAssumption
<1>2. x + PageSize - 1 \in Nat /\ x + PageSize - 1 < Word
  BY <1>1
<1>3. x + (PageSize - 1) = x + PageSize - 1
  BY <1>1
<1>4. Plus(x, PageSize - 1) = x + PageSize - 1
  BY <1>2, <1>3, SmallModulo DEF Plus
<1>5. PageUp(x) = PageDown(x + PageSize - 1)
  BY <1>3, <1>4 DEF PageUp
<1>6. /\ PageDown(x + PageSize - 1) \in Nat
      /\ PageDown(x + PageSize - 1) % PageSize = 0
      /\ PageDown(x + PageSize - 1) <= x + PageSize - 1
      /\ x + PageSize - 1 < PageDown(x + PageSize - 1) + PageSize
  BY <1>2, PageDownIsPage
<1>7. QED
  BY <1>1, <1>5, <1>6

-----------------------------------------------------------------------------

(***************************************************************************)
(* An address that a window contains is as far into it as it is behind its *)
(* beginning: window_contains() excludes every way to wrap around.         *)
(***************************************************************************)
LEMMA CoveredIsWithin ==
  ASSUME NEW orig \in Words, NEW data \in Words, NEW length \in Words,
         NEW a \in Words, Covers(WindowOf(orig, data, length), a)
  PROVE  /\ Minus(a, orig) = a - orig
         /\ orig <= a /\ a - orig < length
         /\ Left(WindowOf(orig, data, length), a) = length - (a - orig)
         /\ View(WindowOf(orig, data, length), a) = Plus(data, a - orig)
<1> USE WordAssumption DEF Words
<1>1. orig <= a /\ a < Plus(orig, length)
  BY DEF Covers, WindowOf
<1>2. Minus(a, orig) = a - orig
  BY <1>1, DifferencesAreExact
<1>3. a - orig < length
  <2>1. CASE orig + length < Word
    BY <1>1, <2>1, SmallModulo DEF Plus
  <2>2. CASE orig + length >= Word
    <3>1. Plus(orig, length) = orig + length - Word
      BY <2>2, LargeModulo DEF Plus
    <3>2. FALSE
      BY <1>1, <3>1
    <3>3. QED
      BY <3>2
  <2>3. QED
    BY <2>1, <2>2
<1>4. Minus(length, a - orig) = length - (a - orig)
  <2>1. length + Word - (a - orig) \in Nat
        /\ Word <= length + Word - (a - orig)
        /\ length + Word - (a - orig) < 2 * Word
    BY <1>1, <1>3
  <2>2. QED
    BY <2>1, LargeModulo DEF Minus
<1>5. QED
  BY <1>1, <1>2, <1>3, <1>4 DEF Left, View, WindowOf

(***************************************************************************)
(* section_address() gives an address, whatever it makes of the header's.  *)
(***************************************************************************)
LEMMA SectionAddressIsWord ==
  ASSUME NEW s \in Sections
  PROVE  SectionAddress(s) \in Words
<1>1. s.addr \in Nat
  BY DEF Sections, Words
<1>2. s.addr % IntWord \in 0 .. IntWord - 1
  BY <1>1, IntWordAssumption
<1>3. IntWord <= Word
  BY WordAssumption, IntWordAssumption
<1>4. QED
  BY <1>2, <1>3, WordAssumption, IntWordAssumption DEF SectionAddress, Words

(***************************************************************************)
(* The two unsigned sums of rave_handle_fault() amount to the distance of  *)
(* the page from where the segment is loaded: they wrap around only to     *)
(* below the segment (rave.c:267, 281-284).                                *)
(***************************************************************************)
LEMMA RelocatedIsNear ==
  ASSUME NEW v \in Words, NEW b \in Words, b % PageSize = v % PageSize,
         NEW x \in Words, b <= x,
         v <= Plus(PageDown(x), Minus(v, b))
  PROVE  /\ PageDown(x) \in Nat /\ PageDown(x) <= x
         /\ PageDown(x) + (x % PageSize) = x
         /\ x % PageSize \in 0 .. PageSize - 1
         /\ Plus(PageDown(x), Minus(v, b)) = PageDown(x) + (v - b)
<1> DEFINE p == PageDown(x)
           a == Plus(p, Minus(v, b))
<1>1. /\ x \in Nat /\ x < Word /\ b \in Nat /\ b < Word
      /\ v \in Nat /\ v < Word /\ Word \in Nat
  BY WordAssumption DEF Words
<1>2. /\ p \in Nat /\ p <= x /\ p + (x % PageSize) = x
      /\ x % PageSize \in 0 .. PageSize - 1
  BY <1>1, PageDownIsPage
<1>3. PageDown(b) <= p
  BY <1>1, PageDownRises
<1>4. /\ PageDown(v) \in Nat /\ PageDown(v) + (v % PageSize) = v
      /\ v % PageSize \in 0 .. PageSize - 1
  BY <1>1, PageDownIsPage
<1>5. PageDown(b) = b - (v % PageSize)
  BY DEF PageDown
<1>6. 0 <= p + v - b
  BY <1>1, <1>2, <1>3, <1>4, <1>5, PageSizeAssumption
<1>7. a = p + (v - b)
  <2> HIDE DEF p
  <2>1. v <= a
    BY DEF p
  <2>2. CASE b <= v
    <3>1. Minus(v, b) = v - b
      BY <2>2, DifferencesAreExact
    <3>2. CASE p + (v - b) < Word
      BY <1>1, <1>2, <2>2, <3>1, <3>2, SmallModulo DEF Plus
    <3>3. CASE p + (v - b) >= Word
      <4>1. a = p + (v - b) - Word
        BY <1>1, <1>2, <2>2, <3>1, <3>3, LargeModulo DEF Plus
      <4>2. FALSE
        <5>1. a < v
          BY <4>1, <1>1, <1>2
        <5> HIDE DEF a
        <5>2. QED
          BY <2>1, <4>1, <5>1, <1>1, <1>2
      <4>3. QED
        BY <4>2
    <3>4. QED
      BY <1>1, <1>2, <3>2, <3>3
  <2>3. CASE v < b
    <3>1. Minus(v, b) = v + Word - b
      BY <1>1, <2>3, SmallModulo DEF Minus
    <3>2. Plus(p, v + Word - b) = p + (v - b)
      BY <1>1, <1>2, <1>6, <2>3, LargeModulo DEF Plus
    <3>3. QED
      BY <3>1, <3>2
  <2>4. QED
    BY <1>1, <2>2, <2>3
<1>8. QED
  BY <1>2, <1>7

(***************************************************************************)
(* What a page request is answered with.                                   *)
(***************************************************************************)
LEMMA AnswerIsPage ==
  ASSUME reloc \in Words, NEW orig \in Words, NEW length \in Words,
         code.segment = WindowOf(orig, 0, length), NEW address \in Words,
         PageFor(address) # NULL
  PROVE  LET a == Plus(PageDown(address), reloc)
         IN  /\ a \in Words /\ orig <= a
             /\ PageFor(address) = a - orig
             /\ PageFor(address) + PageSize <= length
<1> DEFINE a == Plus(PageDown(address), reloc)
<1>1. a \in Words
  <2>1. address \in Nat /\ address < Word
    BY WordAssumption DEF Words
  <2>2. PageDown(address) \in Words
    BY <2>1, PageDownIsPage, WordAssumption DEF Words
  <2>3. QED
    BY <2>2, SumsAreWords
<1>2. /\ Covers(WindowOf(orig, 0, length), a)
      /\ Left(WindowOf(orig, 0, length), a) >= PageSize
      /\ PageFor(address) = View(WindowOf(orig, 0, length), a)
  BY DEF PageFor
<1> HIDE DEF a
<1>3. 0 \in Words
  BY WordAssumption DEF Words
<1>4. /\ orig <= a /\ a - orig < length
      /\ Left(WindowOf(orig, 0, length), a) = length - (a - orig)
      /\ View(WindowOf(orig, 0, length), a) = Plus(0, a - orig)
  BY <1>1, <1>2, <1>3, CoveredIsWithin
<1>5. Plus(0, a - orig) = a - orig
  BY <1>1, <1>4, SmallModulo, WordAssumption DEF Plus, Words
<1>6. PageFor(address) + PageSize <= length
  BY <1>1, <1>2, <1>4, <1>5, PageSizeAssumption, WordAssumption DEF Words
<1>7. QED
  BY <1>1, <1>2, <1>4, <1>5, <1>6 DEF a

-----------------------------------------------------------------------------

(***************************************************************************)
(* What has been found is in the headers of the binary.                    *)
(***************************************************************************)
Found ==
  /\ pc \in {"segment", "map", "serve"} =>
       \E k \in DOMAIN file.sections : text = file.sections[k]
  /\ pc \in {"map", "serve"} =>
       /\ \E m \in DOMAIN file.segments : segment = file.segments[m]
       /\ SegmentContains(segment, SectionAddress(text))

(***************************************************************************)
(* The windows are those of what was found, and nothing is relocated or    *)
(* served before they are there.                                           *)
(***************************************************************************)
Mapped ==
  /\ pc = "serve" => code = Windows(text, segment)
  /\ pc # "serve" => /\ code = [segment |-> NoWindow, text |-> NoWindow]
                     /\ base = NULL /\ fault = NoPage

(***************************************************************************)
(* reloc_offset is what the last rave_relocate() made it, and the last     *)
(* page was looked up with it.                                             *)
(***************************************************************************)
Relocated ==
  /\ reloc \in Words
  /\ base # NULL => /\ base \in Words
                    /\ base % PageSize = segment.vaddr % PageSize
                    /\ base + segment.memsz < Word
                    /\ reloc = RelocOffset(base)
  /\ fault # NoPage => /\ fault.addr \in Words
                       /\ fault = [addr |-> fault.addr,
                                   data |-> PageFor(fault.addr)]

Step ==
  /\ pc \in {"section", "segment", "map", "serve", "failed"}
  /\ i \in Nat
  /\ pc = "section" => i <= Len(file.sections)
  /\ pc = "segment" => i <= Len(file.segments)
  /\ pc \notin {"section", "segment"} => i = 0

IInv == file \in Files /\ Step /\ Found /\ Mapped /\ Relocated

(***************************************************************************)
(* What FilesAssumption says of one file.                                  *)
(***************************************************************************)
LEMMA FilesAreTyped ==
  ASSUME NEW f \in Files
  PROVE  /\ Len(f.sections) \in Nat /\ DOMAIN f.sections = 1 .. Len(f.sections)
         /\ Len(f.segments) \in Nat /\ DOMAIN f.segments = 1 .. Len(f.segments)
         /\ \A k \in DOMAIN f.sections : f.sections[k] \in Sections
         /\ \A m \in DOMAIN f.segments : f.segments[m] \in Segments
<1>1. f \in [sections : Seq(Sections), segments : Seq(Segments)]
  BY FilesAssumption
<1>2. f.sections \in Seq(Sections) /\ f.segments \in Seq(Segments)
  BY <1>1
<1>3. QED
  BY <1>2

LEMMA InitHolds == Init => IInv
<1> SUFFICES ASSUME Init PROVE IInv
  OBVIOUS
<1>1. Len(file.sections) \in Nat
  BY FilesAreTyped DEF Init
<1>2. 0 \in Words
  BY WordAssumption DEF Words
<1>3. QED
  BY <1>1, <1>2 DEF Init, IInv, Step, Found, Mapped, Relocated, NoPage

LEMMA FailHolds ==
  ASSUME IInv, Fail, pc \in {"section", "segment", "map"},
         UNCHANGED <<file, code, reloc, base, fault>>
  PROVE  IInv'
BY DEF Fail, IInv, Step, Found, Mapped, Relocated, NoPage

LEMMA NextHolds == IInv /\ [Next]_vars => IInv'
<1> SUFFICES ASSUME IInv, [Next]_vars PROVE IInv'
  OBVIOUS
<1> USE DEF NoPage
<1>f. /\ Len(file.sections) \in Nat /\ DOMAIN file.sections = 1 .. Len(file.sections)
      /\ Len(file.segments) \in Nat /\ DOMAIN file.segments = 1 .. Len(file.segments)
      /\ \A k \in DOMAIN file.sections : file.sections[k] \in Sections
      /\ \A m \in DOMAIN file.segments : file.segments[m] \in Segments
  BY FilesAreTyped DEF IInv
<1>1. CASE FindSection
  <2>1. CASE Fail
    BY <1>1, <2>1, FailHolds DEF FindSection
  <2>2. CASE i # Len(file.sections) /\ NextEntry
    BY <1>1, <1>f, <2>2
       DEF FindSection, NextEntry, IInv, Step, Found, Mapped, Relocated
  <2>3. CASE /\ i # Len(file.sections)
             /\ text' = file.sections[i + 1] /\ pc' = "segment" /\ i' = 0
    <3>1. i + 1 \in DOMAIN file.sections
      BY <1>1, <1>f, <2>3 DEF IInv, Step, FindSection
    <3>2. QED
      BY <1>1, <1>f, <2>3, <3>1
         DEF FindSection, IInv, Step, Found, Mapped, Relocated
  <2>4. QED
    BY <1>1, <2>1, <2>2, <2>3 DEF FindSection
<1>2. CASE FindSegment
  <2>1. CASE Fail
    BY <1>2, <2>1, FailHolds DEF FindSegment
  <2>2. CASE i # Len(file.segments) /\ NextEntry
    BY <1>2, <1>f, <2>2
       DEF FindSegment, NextEntry, IInv, Step, Found, Mapped, Relocated
  <2>3. CASE /\ i # Len(file.segments)
             /\ SegmentContains(file.segments[i + 1], SectionAddress(text))
             /\ segment' = file.segments[i + 1] /\ pc' = "map" /\ i' = 0
             /\ UNCHANGED text
    <3>1. i + 1 \in DOMAIN file.segments
      BY <1>2, <1>f, <2>3 DEF IInv, Step, FindSegment
    <3>2. QED
      BY <1>2, <1>f, <2>3, <3>1
         DEF FindSegment, IInv, Step, Found, Mapped, Relocated
  <2>4. QED
    BY <1>2, <2>1, <2>2, <2>3 DEF FindSegment
<1>3. CASE MapCodePages
  <2>1. CASE Fail /\ UNCHANGED <<code, reloc>>
    BY <1>3, <2>1, FailHolds DEF MapCodePages
  <2>2. CASE /\ code' = Windows(text, segment) /\ reloc' \in Words /\ pc' = "serve"
             /\ UNCHANGED <<i, text, segment>>
    BY <1>3, <2>2 DEF MapCodePages, IInv, Step, Found, Mapped, Relocated
  <2>3. QED
    BY <1>3, <2>1, <2>2 DEF MapCodePages
<1>4. CASE Relocate
  <2>1. PICK address \in LoadAddrs :
          /\ address % PageSize = segment.vaddr % PageSize
          /\ address + segment.memsz < Word
          /\ reloc' = RelocOffset(address)
          /\ base' = address
    BY <1>4 DEF Relocate
  <2>2. address \in Words
    BY LoadAddrsAssumption
  <2>3. PICK m \in DOMAIN file.segments : segment = file.segments[m]
    BY <1>4 DEF Relocate, IInv, Found
  <2>4. segment \in Segments
    BY <2>3, <1>f
  <2>5. code.segment.orig = segment.vaddr
    BY <1>4 DEF Relocate, IInv, Mapped, Windows, WindowOf
  <2>6. RelocOffset(address) \in Words
    BY <2>2, <2>4, <2>5, SumsAreWords DEF RelocOffset, Segments
  <2>7. UNCHANGED <<file, pc, i, text, segment, code>> /\ fault' = NoPage
    BY <1>4 DEF Relocate
  <2>8. Relocated'
    BY <2>1, <2>2, <2>6, <2>7 DEF Relocated, RelocOffset
  <2>9. QED
    BY <1>4, <2>7, <2>8 DEF Relocate, IInv, Step, Found, Mapped
<1>5. CASE HandleFault
  <2>1. PICK address \in Words :
          fault' = [addr |-> address, data |-> PageFor(address)]
    BY <1>5 DEF HandleFault
  <2>2. UNCHANGED <<file, pc, i, text, segment, code, reloc, base>> /\ pc = "serve"
    BY <1>5 DEF HandleFault
  <2>3. PageFor(address)' = PageFor(address)
    BY <2>2 DEF PageFor
  <2>4. Relocated'
    BY <2>1, <2>2, <2>3 DEF Relocated, RelocOffset, PageFor, IInv
  <2>5. QED
    BY <2>2, <2>4 DEF IInv, Step, Found, Mapped
<1>6. CASE UNCHANGED vars
  BY <1>6 DEF vars, IInv, Step, Found, Mapped, Relocated, RelocOffset, PageFor
<1>7. QED
  BY <1>1, <1>2, <1>3, <1>4, <1>5, <1>6 DEF Next, Failed

LEMMA IInvHolds == Spec => []IInv
BY InitHolds, NextHolds, PTL DEF Spec

-----------------------------------------------------------------------------

(***************************************************************************)
(* The windows of an open handle.                                          *)
(***************************************************************************)
LEMMA WindowsAreTyped ==
  ASSUME IInv, pc = "serve"
  PROVE  /\ text \in Sections /\ segment \in Segments
         /\ code = Windows(text, segment)
         /\ code.segment = WindowOf(segment.vaddr, 0, PageUp(segment.memsz))
         /\ PageUp(segment.memsz) \in Words
         /\ PageUp(segment.memsz) % PageSize = 0
<1>1. text \in Sections
  BY FilesAreTyped DEF IInv, Found
<1>2. segment \in Segments
  BY FilesAreTyped DEF IInv, Found
<1>3. code = Windows(text, segment)
  BY DEF IInv, Mapped
<1>4. Plus(segment.memsz, PageSize - 1) \in Words
  BY <1>2, WordAssumption, PageSizeAssumption DEF Plus, Words, Segments
<1>5. /\ PageUp(segment.memsz) \in Words
      /\ PageUp(segment.memsz) % PageSize = 0
  BY <1>4, PageDownIsPage, WordAssumption DEF PageUp, Words
<1>6. QED
  BY <1>1, <1>2, <1>3, <1>5 DEF Windows

(***************************************************************************)
(* What IInv says of a page that was served.                               *)
(***************************************************************************)
LEMMA ServedIsPage ==
  ASSUME IInv, Served
  PROVE  LET a == Plus(PageDown(fault.addr), reloc)
         IN  /\ pc = "serve" /\ fault.addr \in Words
             /\ a \in Words /\ segment.vaddr <= a
             /\ fault.data = a - segment.vaddr
             /\ fault.data + PageSize <= code.segment.length
<1>1. fault # NoPage
  BY DEF Served, NoPage
<1>2. pc = "serve"
  BY <1>1 DEF IInv, Mapped
<1>3. /\ fault.addr \in Words
      /\ fault = [addr |-> fault.addr, data |-> PageFor(fault.addr)]
      /\ reloc \in Words
  BY <1>1 DEF IInv, Relocated
<1>4. fault.data = PageFor(fault.addr)
  BY <1>3
<1>5. segment.vaddr \in Words
  BY <1>2, WindowsAreTyped DEF Segments
<1>6. QED
  BY <1>2, <1>3, <1>4, <1>5, WindowsAreTyped, AnswerIsPage DEF Served, WindowOf

(***************************************************************************)
(* The fields of a handle and the answers have their types at every time:  *)
(* no address is computed that an unsigned integer would not hold, and the *)
(* mapping is whole pages (rave.c:112, 127-137, 267, 281-292).             *)
(***************************************************************************)
THEOREM PagesAreTyped == Spec => []TypeOK
<1>1. IInv => TypeOK
  <2> SUFFICES ASSUME IInv PROVE TypeOK
    OBVIOUS
  <2>1. file \in Files /\ pc \in {"section", "segment", "map", "serve", "failed"}
    BY DEF IInv, Step
  <2>2. i \in 0 .. Len(file.sections) + Len(file.segments)
    <3>1. Len(file.sections) \in Nat /\ Len(file.segments) \in Nat
      BY <2>1, FilesAreTyped
    <3>2. i \in Nat /\ (i <= Len(file.sections) \/ i <= Len(file.segments) \/ i = 0)
      BY <2>1 DEF IInv, Step
    <3> DEFINE l == Len(file.sections)
               m == Len(file.segments)
    <3>3. l \in Nat /\ m \in Nat /\ i \in Nat /\ (i <= l \/ i <= m \/ i = 0)
      BY <3>1, <3>2
    <3>4. i \in 0 .. l + m
      <4> HIDE DEF l, m
      <4> QED
        BY <3>3
    <3>5. QED
      BY <3>4
  <2>3. 0 \in Words /\ 0 % PageSize = 0
    BY WordAssumption, PageSizeAssumption DEF Words
  <2>4. /\ code.segment.length \in Words /\ code.segment.length % PageSize = 0
        /\ code.text.orig \in Words /\ code.text.data \in Words
    <3>1. CASE pc = "serve"
      BY <3>1, WindowsAreTyped, SectionAddressIsWord, SumsAreWords
         DEF Windows, WindowOf, TextData, Sections, Segments
    <3>2. CASE pc # "serve"
      BY <3>2, <2>3 DEF IInv, Mapped, NoWindow, WindowOf
    <3>3. QED
      BY <3>1, <3>2
  <2>5. reloc \in Words /\ base \in Words \cup {NULL}
    BY DEF IInv, Relocated
  <2>6. fault.addr \in Words \cup {NULL}
    BY DEF IInv, Relocated, NoPage
  <2>7. fault.data \in Words \cup {NULL}
    <3>1. CASE Served
      BY <3>1, ServedIsPage, WindowsAreTyped, WordAssumption DEF Words, Segments
    <3>2. CASE ~Served
      BY <3>2 DEF Served
    <3>3. QED
      BY <3>1, <3>2
  <2>8. QED
    BY <2>1, <2>2, <2>4, <2>5, <2>6, <2>7 DEF TypeOK
<1>2. QED
  BY <1>1, IInvHolds, PTL

(***************************************************************************)
(* Whatever reloc_offset is, a page that is served lies in the mapping     *)
(* (rave.c:281-292).                                                       *)
(***************************************************************************)
THEOREM ServedPagesAreWhole == Spec => []ServedIsWhole
<1>1. IInv => ServedIsWhole
  BY ServedIsPage DEF ServedIsWhole
<1>2. QED
  BY <1>1, IInvHolds, PTL

(***************************************************************************)
(* After rave_relocate() the page that is served is the one that was asked *)
(* for: the unsigned sums of rave_handle_fault() wrap around only where    *)
(* window_contains() then says no (rave.c:267, 281-289).                   *)
(***************************************************************************)
THEOREM ServedPagesAreRight == Spec => []ServedIsRight
<1>1. ASSUME IInv, Served, fault.addr \in Loaded
      PROVE  Shown = fault.addr - base
  <2> DEFINE a == Plus(PageDown(fault.addr), reloc)
  <2>1. /\ pc = "serve" /\ fault.addr \in Words
        /\ a \in Words /\ segment.vaddr <= a
        /\ fault.data = a - segment.vaddr
    BY <1>1, ServedIsPage
  <2>2. /\ segment.vaddr \in Words /\ segment.memsz \in Words
        /\ code.segment.orig = segment.vaddr
    BY <1>1, <2>1, WindowsAreTyped DEF Segments, WindowOf
  <2>3. base # NULL /\ fault.addr \in base .. base + segment.memsz - 1
    BY <1>1 DEF Loaded
  <2>4. /\ base \in Words /\ base % PageSize = segment.vaddr % PageSize
        /\ reloc = Minus(segment.vaddr, base)
    BY <1>1, <2>2, <2>3 DEF IInv, Relocated, RelocOffset
  <2> DEFINE p == PageDown(fault.addr)
             v == segment.vaddr
  <2>5. fault.addr \in Nat /\ base \in Nat /\ v \in Nat /\ base <= fault.addr
    BY <2>1, <2>2, <2>3, <2>4, WordAssumption DEF Words
  <2>6. /\ p \in Nat /\ p + (fault.addr % PageSize) = fault.addr
        /\ fault.addr % PageSize \in 0 .. PageSize - 1
        /\ a = p + (v - base)
    BY <2>1, <2>2, <2>4, <2>5, RelocatedIsNear
  <2>7. fault.data = p - base
    BY <2>1, <2>5, <2>6
  <2> HIDE DEF a, p, v
  <2>8. QED
    BY <2>5, <2>6, <2>7, PageSizeAssumption DEF Shown
<1>2. IInv => ServedIsRight
  BY <1>1 DEF ServedIsRight
<1>3. QED
  BY <1>2, IInvHolds, PTL

-----------------------------------------------------------------------------

(***************************************************************************)
(* What a binary for a user's process is like, and rave_init() does not    *)
(* check: no segment reaches into the last page of the addresses.          *)
(***************************************************************************)
LastPageIsFree ==
  \A f \in Files : \A m \in DOMAIN f.segments :
    f.segments[m].vaddr + f.segments[m].memsz + PageSize <= Word

(***************************************************************************)
(* An int holds the address of each section, and a section that begins in  *)
(* a segment ends there.                                                   *)
(***************************************************************************)
SectionsLieInSegments ==
  \A f \in Files : \A k \in DOMAIN f.sections :
    LET s == f.sections[k]
    IN  /\ SectionAddress(s) = s.addr
        /\ \A m \in DOMAIN f.segments :
             LET g == f.segments[m]
             IN  g.vaddr <= s.addr /\ s.addr < g.vaddr + g.memsz =>
                   s.addr + s.size <= g.vaddr + g.memsz

(***************************************************************************)
(* The mapping of a segment that leaves the last page free.                *)
(***************************************************************************)
LEMMA MappingFits ==
  ASSUME IInv, pc = "serve", LastPageIsFree
  PROVE  LET v == segment.vaddr
             n == segment.memsz
         IN  /\ v \in Words /\ n \in Words /\ v + n + PageSize <= Word
             /\ n <= PageUp(n) /\ PageUp(n) < n + PageSize
             /\ v + PageUp(n) < Word
             /\ Plus(v, PageUp(n)) = v + PageUp(n)
             /\ Plus(v, n) = v + n
<1> DEFINE v == segment.vaddr
           n == segment.memsz
<1>1. v \in Words /\ n \in Words
  BY WindowsAreTyped DEF Segments
<1>2. v + n + PageSize <= Word
  BY DEF LastPageIsFree, IInv, Found
<1> HIDE DEF v, n
<1>3. v \in Nat /\ n \in Nat /\ Word \in Nat /\ PageSize \in Nat \ {0}
  BY <1>1, WordAssumption, PageSizeAssumption DEF Words
<1>4. PageUp(n) \in Nat /\ n <= PageUp(n) /\ PageUp(n) < n + PageSize
  BY <1>2, <1>3, PageUpIsPage
<1>5. Plus(v, PageUp(n)) = v + PageUp(n) /\ Plus(v, n) = v + n
  BY <1>2, <1>3, <1>4, SmallModulo DEF Plus
<1>6. QED
  BY <1>1, <1>2, <1>3, <1>4, <1>5 DEF v, n

(***************************************************************************)
(* A segment that begins a page is served in full, the page that it ends   *)
(* in included: PAGE_UP() leaves room for it, and the relocation keeps the *)
(* place of an address within its page (rave.c:112, 283, 290).             *)
(***************************************************************************)
THEOREM AlignedPagesAreServed ==
  ASSUME LastPageIsFree
  PROVE  Spec => []AlignedIsServed
<1>1. ASSUME IInv, fault.addr \in Loaded, segment.vaddr % PageSize = 0
      PROVE  Served
  <2> DEFINE p == PageDown(fault.addr)
             v == segment.vaddr
             n == segment.memsz
             a == Plus(p, reloc)
  <2>1. base # NULL /\ fault.addr \in base .. base + n - 1
    BY <1>1 DEF Loaded
  <2>2. /\ pc = "serve" /\ base \in Words /\ base % PageSize = 0
        /\ reloc = Minus(code.segment.orig, base)
    BY <1>1, <2>1 DEF IInv, Mapped, Relocated, RelocOffset
  <2>3. /\ v \in Words /\ n \in Words /\ v + n + PageSize <= Word
        /\ n <= PageUp(n) /\ v + PageUp(n) < Word
        /\ Plus(v, PageUp(n)) = v + PageUp(n)
        /\ code.segment = WindowOf(v, 0, PageUp(n))
        /\ PageUp(n) \in Words /\ PageUp(n) % PageSize = 0
    BY <1>1, <2>2, MappingFits, WindowsAreTyped
  <2>4. fault.addr \in Words /\ fault.data = PageFor(fault.addr)
    <3>1. base >= 0 /\ fault.addr # NULL
      BY <2>1, <2>2, <2>3, WordAssumption DEF Words, NULL
    <3>2. fault # NoPage
      BY <3>1 DEF NoPage
    <3>3. QED
      BY <1>1, <3>2 DEF IInv, Relocated
  <2>5. /\ v \in Nat /\ n \in Nat /\ base \in Nat /\ base < Word
        /\ fault.addr \in Nat /\ fault.addr < Word
        /\ PageUp(n) \in Nat /\ Word \in Nat /\ PageSize \in Nat \ {0}
        /\ base <= fault.addr /\ fault.addr < base + n
    BY <2>1, <2>2, <2>3, <2>4, WordAssumption, PageSizeAssumption DEF Words
  <2>6. /\ p \in Nat /\ base <= p /\ p <= fault.addr /\ p % PageSize = 0
    <3>1. PageDown(base) = base
      BY <2>2, <2>5 DEF PageDown
    <3>2. QED
      BY <3>1, <2>5, PageDownIsPage, PageDownRises
  <2> HIDE DEF p, v, n
  <2>7. a = v + (p - base)
    <3>1. reloc = Minus(v, base)
      BY <2>2, <2>3 DEF WindowOf
    <3>2. CASE base <= v
      <4>1. Minus(v, base) = v - base
        BY <2>2, <2>3, <3>2, DifferencesAreExact
      <4>2. QED
        BY <2>3, <2>5, <2>6, <3>1, <3>2, <4>1, SmallModulo DEF Plus
    <3>3. CASE v < base
      <4>1. Minus(v, base) = v + Word - base
        BY <2>5, <3>3, SmallModulo DEF Minus
      <4>2. Plus(p, v + Word - base) = p + v - base
        BY <2>3, <2>5, <2>6, <3>3, LargeModulo DEF Plus
      <4>3. QED
        BY <2>5, <2>6, <3>1, <4>1, <4>2
    <3>4. QED
      BY <2>5, <3>2, <3>3
  <2>8. p - base + PageSize <= PageUp(n)
    <3>1. p - base \in Nat /\ p - base < PageUp(n)
      BY <2>3, <2>5, <2>6
    <3>2. (p - base) % PageSize = 0
      <4>1. CASE p = base
        BY <4>1, <2>5
      <4>2. CASE base < p
        BY <4>2, <2>2, <2>5, <2>6, PagesAreApart
      <4>3. QED
        BY <4>1, <4>2, <2>5, <2>6
    <3>3. QED
      BY <3>1, <3>2, <2>3, <2>5, PagesAreApart
  <2> DEFINE w == WindowOf(v, 0, PageUp(n))
  <2>9. a \in Words /\ 0 \in Words
    BY <2>3, <2>5, <2>6, <2>7, <2>8 DEF Words
  <2>10. Covers(w, a)
    BY <2>3, <2>5, <2>6, <2>7, <2>8 DEF Covers, WindowOf
  <2>11. /\ Left(w, a) = PageUp(n) - (a - v)
         /\ View(w, a) = Plus(0, a - v)
    BY <2>3, <2>9, <2>10, CoveredIsWithin
  <2>12. Left(w, a) >= PageSize
    BY <2>5, <2>6, <2>7, <2>8, <2>11
  <2>13. View(w, a) # NULL
    <3>1. a - v \in Words
      BY <2>3, <2>5, <2>6, <2>7, <2>8 DEF Words
    <3>2. View(w, a) \in Words
      BY <2>9, <2>11, <3>1, SumsAreWords
    <3>3. QED
      BY <3>2, <2>5 DEF Words, NULL
  <2>14. PageFor(fault.addr) = View(w, a)
    BY <2>3, <2>10, <2>12 DEF PageFor, p
  <2>15. QED
    BY <2>4, <2>13, <2>14 DEF Served
<1>2. IInv => AlignedIsServed
  BY <1>1 DEF AlignedIsServed
<1>3. QED
  BY <1>2, IInvHolds, PTL

(***************************************************************************)
(* The two windows agree on every byte of the text, though one is made     *)
(* from addresses and the other from offsets in the file                   *)
(* (rave.c:33-41, 127-137).                                                *)
(***************************************************************************)
THEOREM WindowsAgree ==
  ASSUME LastPageIsFree, SectionsLieInSegments
  PROVE  Spec => []TextIsInSegment
<1>1. ASSUME IInv, pc = "serve",
             NEW a \in code.text.orig .. code.text.orig + code.text.length - 1
      PROVE  Covers(code.segment, a) /\ View(code.segment, a) = View(code.text, a)
  <2> DEFINE v == segment.vaddr
             n == segment.memsz
             t == text.addr
             d == text.size
  <2>1. /\ v \in Words /\ n \in Words /\ v + n + PageSize <= Word
        /\ n <= PageUp(n) /\ v + PageUp(n) < Word
        /\ Plus(v, PageUp(n)) = v + PageUp(n) /\ Plus(v, n) = v + n
        /\ code = Windows(text, segment)
        /\ code.segment = WindowOf(v, 0, PageUp(n))
        /\ PageUp(n) \in Words
        /\ t \in Words /\ d \in Words
        /\ text.offset \in Words /\ segment.offset \in Words
    BY <1>1, MappingFits, WindowsAreTyped DEF Sections, Segments
  <2>2. PICK k \in DOMAIN file.sections : text = file.sections[k]
    BY <1>1 DEF IInv, Found
  <2>3. PICK m \in DOMAIN file.segments : segment = file.segments[m]
    BY <1>1 DEF IInv, Found
  <2>4. SectionAddress(text) = t /\ SegmentContains(segment, t)
    BY <1>1, <2>2 DEF SectionsLieInSegments, IInv, Found
  <2>5. v <= t /\ t < v + n
    BY <2>1, <2>4 DEF SegmentContains
  <2>6. t - v = text.offset - segment.offset /\ t + d <= v + n
    BY <1>1, <2>2, <2>3, <2>5, FilesAssumption DEF SectionsLieInSegments, IInv
  <2>7. code.text = WindowOf(t, TextData(text, segment), d)
    BY <2>1, <2>4 DEF Windows
  <2>8. a \in t .. t + d - 1
    BY <1>1, <2>7 DEF WindowOf
  <2>9. Word \in Nat \ {0}
    BY WordAssumption
  <2> HIDE DEF v, n, t, d
  <2>10. a \in Words /\ v <= a /\ t <= a /\ a < v + PageUp(n) /\ 0 \in Words
    BY <2>1, <2>5, <2>6, <2>8, <2>9 DEF Words
  <2>11. Covers(code.segment, a)
    BY <2>1, <2>10 DEF Covers, WindowOf
  <2>12. View(code.segment, a) = a - v
    <3>1. View(code.segment, a) = Plus(0, a - v)
      <4> DEFINE u == PageUp(n)
      <4>1. /\ v \in Words /\ u \in Words /\ a \in Words /\ 0 \in Words
            /\ code.segment = WindowOf(v, 0, u)
        BY <2>1, <2>10
      <4> HIDE DEF u
      <4>2. Covers(WindowOf(v, 0, u), a)
        BY <2>11, <4>1
      <4>3. View(WindowOf(v, 0, u), a) = Plus(0, a - v)
        BY <4>1, <4>2, CoveredIsWithin
      <4>4. QED
        BY <4>1, <4>3
    <3>2. QED
      BY <2>1, <2>9, <2>10, <3>1, SmallModulo DEF Plus, Words
  <2>13. View(code.text, a) = a - v
    <3>1. TextData(text, segment) = t - v
      <4>1. segment.offset <= text.offset
        BY <2>1, <2>5, <2>6, <2>9 DEF Words
      <4>2. QED
        BY <2>1, <2>6, <4>1, DifferencesAreExact DEF TextData
    <3>2. Minus(a, t) = a - t
      BY <2>1, <2>10, DifferencesAreExact
    <3>3. Plus(t - v, a - t) = a - v
      <4>1. (t - v) + (a - t) = a - v /\ a - v \in Nat /\ a - v < Word
        BY <2>1, <2>9, <2>10 DEF Words
      <4>2. QED
        BY <4>1, SmallModulo DEF Plus
    <3>4. QED
      BY <2>7, <3>1, <3>2, <3>3 DEF View, WindowOf
  <2>14. QED
    BY <2>11, <2>12, <2>13
<1>2. IInv => TextIsInSegment
  BY <1>1 DEF TextIsInSegment
<1>3. QED
  BY <1>2, IInvHolds, PTL

(***************************************************************************)
(* Behind an address that begins a page, rounding up goes on as from zero. *)
(***************************************************************************)
LEMMA PageUpBehindPage ==
  ASSUME NEW v \in Nat, NEW n \in Nat, v % PageSize = 0, v + n + PageSize <= Word
  PROVE  PageUp(v + n) = v + PageUp(n)
<1>1. PageSize \in Nat \ {0} /\ Word \in Nat
  BY PageSizeAssumption, WordAssumption
<1>2. /\ PageUp(n) \in Nat /\ PageUp(n) % PageSize = 0
      /\ n <= PageUp(n) /\ PageUp(n) < n + PageSize
  BY <1>1, PageUpIsPage
<1>3. /\ PageUp(v + n) \in Nat /\ PageUp(v + n) % PageSize = 0
      /\ v + n <= PageUp(v + n) /\ PageUp(v + n) < v + n + PageSize
  BY <1>1, PageUpIsPage
<1> DEFINE up == PageUp(n)
           all == PageUp(v + n)
<1> HIDE DEF up, all
<1>4. all - v \in Nat /\ (all - v) % PageSize = 0
  <2>1. CASE v = all
    BY <1>1, <1>3, <2>1 DEF all
  <2>2. CASE v < all
    BY <1>1, <1>3, <2>2, PagesAreApart DEF all
  <2>3. QED
    BY <1>3, <2>1, <2>2 DEF all
<1>5. ~(all - v < up)
  BY <1>1, <1>2, <1>3, <1>4, PagesAreApart DEF up, all
<1>6. ~(up < all - v)
  BY <1>1, <1>2, <1>3, <1>4, PagesAreApart DEF up, all
<1>7. QED
  BY <1>2, <1>3, <1>4, <1>5, <1>6 DEF up, all

(***************************************************************************)
(* What map_code_pages() copies out of the file is what the system maps,   *)
(* for a segment that begins a page, in all its pages but for what follows *)
(* it in the last one, where the mapping has zeros (rave.c:112-125).       *)
(***************************************************************************)
THEOREM MappingIsAsLoaded ==
  ASSUME LastPageIsFree
  PROVE  Spec => []MappedAsLoaded
<1>1. ASSUME IInv, pc = "serve", segment.vaddr % PageSize = 0
      PROVE  /\ DOMAIN CodePages = DOMAIN LoadedPages
             /\ \A a \in DOMAIN CodePages :
                  CodePages[a] = IF a \in Padding THEN -1 ELSE LoadedPages[a]
  <2> DEFINE v == segment.vaddr
             n == segment.memsz
  <2>1. /\ v \in Words /\ n \in Words /\ v + n + PageSize <= Word
        /\ n <= PageUp(n)
        /\ code.segment = WindowOf(v, 0, PageUp(n))
        /\ PageUp(n) \in Words
        /\ segment.filesz \in Words /\ segment.offset \in Words
    BY <1>1, MappingFits, WindowsAreTyped DEF Segments
  <2>2. v \in Nat /\ n \in Nat /\ PageUp(n) \in Nat
    BY <2>1, WordAssumption DEF Words
  <2>3. FirstPage = v
    BY <1>1, <2>2 DEF FirstPage, PageDown
  <2>4. PageUp(v + n) = v + PageUp(n)
    BY <1>1, <2>1, <2>2, PageUpBehindPage
  <2>5. /\ DOMAIN CodePages = 0 .. PageUp(n) - 1
        /\ \A a \in 0 .. PageUp(n) - 1 :
             CodePages[a] = IF a < segment.filesz THEN segment.offset + a ELSE -1
    BY <2>1 DEF CodePages, CopySize, WindowOf
  <2>6. PageUp(v + n) - v - 1 = PageUp(n) - 1
    BY <2>2, <2>4
  <2>7. /\ DOMAIN LoadedPages = 0 .. PageUp(n) - 1
        /\ \A a \in 0 .. PageUp(n) - 1 : LoadedPages[a] = LoadedByte(v + a)
    BY <2>3, <2>6 DEF LoadedPages
  <2>8. ASSUME NEW a \in 0 .. PageUp(n) - 1
        PROVE  CodePages[a] = IF a \in Padding THEN -1 ELSE LoadedByte(v + a)
    <3>1. a \in Nat /\ segment.filesz \in Nat /\ segment.offset \in Nat
      BY <2>1, <2>2, WordAssumption DEF Words
    <3>2. a \in Padding <=> n <= segment.filesz /\ segment.filesz <= a
      BY <2>5 DEF Padding
    <3>3. LoadedByte(v + a)
            = IF n > segment.filesz /\ a >= segment.filesz
                THEN -1 ELSE segment.offset + a
      BY <2>2, <3>1 DEF LoadedByte
    <3>4. QED
      BY <2>2, <2>5, <3>1, <3>2, <3>3
  <2>9. QED
    BY <2>5, <2>7, <2>8
<1>2. IInv => MappedAsLoaded
  BY <1>1 DEF MappedAsLoaded
<1>3. QED
  BY <1>2, IInvHolds, PTL

=============================================================================
