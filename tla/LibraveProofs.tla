---------------------------- MODULE LibraveProofs ----------------------------
(***************************************************************************)
(* Proofs about Librave, for every text, every list of functions, every    *)
(* size of a page and every place the code is loaded at.                   *)
(***************************************************************************)
EXTENDS Librave, PermuteProofs

P == INSTANCE PagesProofs WITH
       Files <- {}, file <- {}, pc <- "serve", i <- 0, text <- Section,
       segment <- Segment, fault <- [addr |-> -1, data |-> -1]

(***************************************************************************)
(* The assumptions of Pages hold of these constants.                       *)
(***************************************************************************)
PagesAssumptions ==
  /\ Word \in Nat \ {0}
  /\ PageSize \in Nat \ {0} /\ Word % PageSize = 0
  /\ IntWord \in Nat \ {0} /\ Word % IntWord = 0
  /\ LoadAddrs \subseteq P!Words

LEMMA PagesApply == PagesAssumptions
BY WidthAssumption DEF PagesAssumptions, C!Words, P!Words

LEMMA DownIsPage ==
  ASSUME NEW x \in Nat
  PROVE  /\ P!PageDown(x) \in Nat
         /\ P!PageDown(x) <= x /\ x < P!PageDown(x) + PageSize
         /\ x % PageSize \in 0 .. PageSize - 1
         /\ P!PageDown(x) + (x % PageSize) = x
BY P!PageDownIsPage, PagesApply DEF PagesAssumptions

(***************************************************************************)
(* Both instances of Pages compute the same.                               *)
(***************************************************************************)
LEMMA SamePages ==
  /\ C!Words = P!Words
  /\ \A x, y : C!Plus(x, y) = P!Plus(x, y) /\ C!Minus(x, y) = P!Minus(x, y)
  /\ \A x : C!PageDown(x) = P!PageDown(x)
  /\ \A x : C!PageFor(x) = P!PageFor(x)
  /\ C!NULL = P!NULL
<1>1. /\ C!Words = P!Words
      /\ \A x, y : C!Plus(x, y) = P!Plus(x, y) /\ C!Minus(x, y) = P!Minus(x, y)
      /\ \A x : C!PageDown(x) = P!PageDown(x)
      /\ C!NULL = P!NULL
  BY DEF C!Words, P!Words, C!Plus, P!Plus, C!Minus, P!Minus, C!PageDown,
         P!PageDown, C!NULL, P!NULL
<1>2. \A w, x : /\ C!Covers(w, x) <=> P!Covers(w, x)
                /\ C!Left(w, x) = P!Left(w, x)
                /\ C!View(w, x) = P!View(w, x)
  BY <1>1 DEF C!Covers, P!Covers, C!Left, P!Left, C!View, P!View
<1>3. \A x : C!PageFor(x) = P!PageFor(x)
  BY <1>1, <1>2 DEF C!PageFor, P!PageFor
<1>4. QED
  BY <1>1, <1>3

-----------------------------------------------------------------------------

(***************************************************************************)
(* The handle is open, and knows where the code is loaded.                 *)
(***************************************************************************)
HandleInv ==
  /\ code = C!Windows(Section, Segment)
  /\ base \in P!Words
  /\ base % PageSize = Segment.vaddr % PageSize
  /\ base + Segment.memsz < Word
  /\ reloc = P!Minus(Segment.vaddr, base)
  /\ DOMAIN proc = PageStarts

LEMMA TextIsTyped ==
  /\ Word \in Nat \ {0} /\ PageSize \in Nat \ {0}
  /\ Segment.vaddr \in P!Words /\ Segment.memsz \in P!Words
  /\ \A x \in Addrs : x \in P!Words /\ Segment.vaddr <= x
                      /\ x - Segment.vaddr < Segment.memsz
                      /\ Section.addr <= x /\ Section.addr \in P!Words
<1>1. /\ Section.addr \in P!Words /\ Section.size \in P!Words
      /\ Segment.vaddr \in P!Words /\ Segment.memsz \in P!Words
  BY SectionAssumption, SamePages DEF C!Sections, C!Segments
<1>2. Word \in Nat \ {0} /\ PageSize \in Nat \ {0}
  BY WidthAssumption
<1>3. QED
  BY <1>1, <1>2, SectionAssumption, SMTT(30) DEF P!Words

(***************************************************************************)
(* Where an address of the text is in the process, and where the library   *)
(* has what stands there.                                                  *)
(***************************************************************************)
LEMMA PlacesOfText ==
  ASSUME HandleInv, NEW x \in Addrs
  PROVE  /\ Remote(x) = base + (x - Segment.vaddr)
         /\ Remote(x) \in P!Words /\ base <= Remote(x)
         /\ C!View(code.text, x) = x - Segment.vaddr
<1> DEFINE v == Segment.vaddr
           t == Section.addr
<1>1. /\ Word \in Nat \ {0} /\ v \in P!Words /\ Segment.memsz \in P!Words
      /\ x \in P!Words /\ v <= x /\ x - v < Segment.memsz
      /\ t <= x /\ t \in P!Words
      /\ base \in P!Words /\ base + Segment.memsz < Word
  BY TextIsTyped DEF HandleInv
<1>2. t - v = Section.offset - Segment.offset /\ v <= t
  BY SectionAssumption
<1>3. Section.offset \in P!Words /\ Segment.offset \in P!Words
  BY SectionAssumption, SamePages DEF C!Sections, C!Segments
<1> HIDE DEF v, t
<1>4. P!Minus(x, v) = x - v
  BY <1>1, PagesApply, P!DifferencesAreExact DEF PagesAssumptions
<1>5. /\ base + (x - v) \in Nat /\ base + (x - v) < Word /\ base <= base + (x - v)
  BY <1>1 DEF P!Words
<1>6. P!Plus(base, x - v) = base + (x - v)
  BY <1>5, PagesApply, P!SmallModulo DEF P!Plus, PagesAssumptions
<1>7. Remote(x) = base + (x - v)
  BY <1>4, <1>6, SamePages DEF Remote, v
<1>8. Remote(x) \in P!Words /\ base <= Remote(x)
  BY <1>1, <1>5, <1>7 DEF P!Words
<1>9. code.text = [orig |-> t, data |-> P!Minus(Section.offset, Segment.offset),
                   length |-> Section.size]
  BY SectionAssumption, SamePages
     DEF HandleInv, C!Windows, C!WindowOf, C!TextData, t
<1>10. P!Minus(Section.offset, Segment.offset) = t - v
  <2>1. Segment.offset <= Section.offset
    BY <1>1, <1>2, <1>3 DEF P!Words
  <2>2. QED
    BY <1>2, <1>3, <2>1, PagesApply, P!DifferencesAreExact DEF PagesAssumptions
<1>11. P!Minus(x, t) = x - t
  BY <1>1, PagesApply, P!DifferencesAreExact DEF PagesAssumptions
<1>12. P!Plus(t - v, x - t) = x - v
  <2>1. (t - v) + (x - t) = x - v /\ x - v \in Nat /\ x - v < Word
    BY <1>1, <1>2 DEF P!Words
  <2>2. QED
    BY <2>1, PagesApply, P!SmallModulo DEF P!Plus, PagesAssumptions
<1>13. C!View(code.text, x) = x - v
  BY <1>9, <1>10, <1>11, <1>12, SamePages DEF C!View
<1>14. QED
  BY <1>7, <1>8, <1>13 DEF v

(***************************************************************************)
(* What the library has at the place of an address is its instruction.     *)
(***************************************************************************)
LEMMA LocalIsText ==
  ASSUME HandleInv, NEW x \in Addrs
  PROVE  Local(x - Segment.vaddr) = text[x]
<1> DEFINE index == x - Segment.vaddr
           at == CHOOSE a \in Addrs : C!View(code.text, a) = index
<1>1. C!View(code.text, x) = index
  BY PlacesOfText
<1>2. at \in Addrs /\ C!View(code.text, at) = index
  BY <1>1
<1>3. C!View(code.text, at) = at - Segment.vaddr
  BY <1>2, PlacesOfText
<1>4. at \in Int /\ x \in Int /\ Segment.vaddr \in Int
  BY <1>2, TextIsTyped DEF P!Words
<1>5. at = x
  <2> HIDE DEF at
  <2> QED
    BY <1>2, <1>3, <1>4
<1>6. QED
  BY <1>1, <1>5 DEF Local

(***************************************************************************)
(* A fault is answered with the page that the address is on.               *)
(***************************************************************************)
LEMMA FaultShowsText ==
  ASSUME HandleInv, NEW a \in Faults, C!PageFor(a) # C!NULL,
         NEW x \in Addrs, C!PageDown(Remote(x)) = C!PageDown(a)
  PROVE  Copied(C!PageFor(a))[Remote(x) % PageSize] = text[x]
<1> DEFINE v == Segment.vaddr
           r == Remote(x)
           p == P!PageDown(a)
           q == P!Plus(p, P!Minus(v, base))
           data == C!PageFor(a)
<1>1. /\ Word \in Nat \ {0} /\ PageSize \in Nat \ {0}
      /\ v \in P!Words /\ base \in P!Words /\ r \in P!Words /\ base <= r
      /\ base % PageSize = v % PageSize /\ r = base + (x - v) /\ x \in P!Words
      /\ a \in P!Words /\ p = P!PageDown(r)
  BY TextIsTyped, PlacesOfText, WidthAssumption, SamePages DEF HandleInv
<1>2. q \in P!Words /\ v <= q /\ data = q - v
  <2> DEFINE length == C!PageUp(Segment.memsz)
  <2>1. reloc = P!Minus(v, base) /\ reloc \in P!Words
    BY <1>1, PagesApply, P!SumsAreWords DEF HandleInv, PagesAssumptions
  <2>2. code.segment = P!WindowOf(v, 0, length)
    BY DEF HandleInv, C!Windows, C!WindowOf, P!WindowOf
  <2>3. length \in P!Words
    <3>1. Segment.memsz \in P!Words /\ PageSize - 1 \in P!Words
      BY TextIsTyped, PagesApply, WidthAssumption DEF P!Words
    <3>2. C!Plus(Segment.memsz, PageSize - 1) \in P!Words
      BY <3>1, SamePages, PagesApply, P!SumsAreWords DEF PagesAssumptions
    <3> DEFINE sum == C!Plus(Segment.memsz, PageSize - 1)
    <3>3. P!PageDown(sum) \in Nat /\ P!PageDown(sum) <= sum
      BY <1>1, <3>2, DownIsPage DEF P!Words
    <3>4. length = P!PageDown(sum)
      BY SamePages DEF C!PageUp
    <3> HIDE DEF sum, length
    <3>5. sum \in P!Words
      BY <3>2 DEF sum
    <3>6. QED
      BY <1>1, <3>3, <3>4, <3>5 DEF P!Words
  <2> HIDE DEF length, q
  <2>4. P!PageFor(a) # P!NULL /\ data = P!PageFor(a)
    BY SamePages
  <2>5. /\ P!Plus(P!PageDown(a), reloc) \in P!Words
        /\ v <= P!Plus(P!PageDown(a), reloc)
        /\ P!PageFor(a) = P!Plus(P!PageDown(a), reloc) - v
    BY <1>1, <2>1, <2>2, <2>3, <2>4, PagesApply, P!AnswerIsPage DEF PagesAssumptions
  <2>6. QED
    BY <2>1, <2>4, <2>5 DEF q
<1>3. /\ p \in Nat /\ p + (r % PageSize) = r
      /\ r % PageSize \in 0 .. PageSize - 1
      /\ q = p + (v - base)
  <2> HIDE DEF r
  <2>1. v <= P!Plus(P!PageDown(r), P!Minus(v, base))
    BY <1>1, <1>2
  <2> DEFINE d == P!PageDown(r)
  <2>2. /\ d \in Nat /\ d + (r % PageSize) = r
        /\ r % PageSize \in 0 .. PageSize - 1
        /\ P!Plus(d, P!Minus(v, base)) = d + (v - base)
    BY <1>1, <2>1, PagesApply, P!RelocatedIsNear DEF PagesAssumptions
  <2>3. p = d
    BY <1>1
  <2> HIDE DEF p, d
  <2>4. QED
    BY <2>2, <2>3
<1>4. data + (r % PageSize) = x - v
  <2> DEFINE k == r % PageSize
  <2>1. k \in Int /\ p + k = r /\ p \in Int
    <3>1. k \in 0 .. PageSize - 1 /\ p + k = r /\ p \in Nat
      BY <1>3
    <3> HIDE DEF k, p, r
    <3>2. QED
      BY <1>1, <3>1
  <2>2. base \in Int /\ v \in Int /\ x \in Int /\ r = base + (x - v)
    BY <1>1 DEF P!Words
  <2>3. data + k = x - v
    <3> HIDE DEF r, p, q, data, k, v
    <3>1. data = (p + (v - base)) - v
      BY <1>2, <1>3
    <3>2. QED
      BY <2>1, <2>2, <3>1
  <2>4. QED
    BY <2>3
<1>5. Copied(data)[r % PageSize] = Local(data + (r % PageSize))
  BY <1>3 DEF Copied
<1>6. QED
  BY <1>4, <1>5, LocalIsText

-----------------------------------------------------------------------------

LibInv == HandleInv /\ ProcessShowsText

LEMMA LibInitHolds == LibInit => LibInv
<1> SUFFICES ASSUME LibInit PROVE LibInv
  OBVIOUS
<1>1. /\ base \in LoadAddrs /\ base % PageSize = Segment.vaddr % PageSize
      /\ base + Segment.memsz < Word
  BY DEF LibInit
<1>2. base \in P!Words
  BY <1>1, WidthAssumption, SamePages
<1>3. reloc = P!Minus(Segment.vaddr, base)
  BY SamePages DEF LibInit, C!RelocOffset, C!Windows, C!WindowOf
<1>4. HandleInv
  BY <1>1, <1>2, <1>3 DEF LibInit, HandleInv
<1>5. \A p \in PageStarts : proc[p] = Missing
  BY DEF LibInit
<1>6. ProcessShowsText
  BY <1>5 DEF ProcessShowsText, Filled
<1>7. QED
  BY <1>4, <1>6 DEF LibInv

(***************************************************************************)
(* A process that was just given the code has nothing of it yet.           *)
(***************************************************************************)
LEMMA RelocateHolds ==
  ASSUME LibInv, Relocate
  PROVE  LibInv'
<1>1. PICK address \in LoadAddrs :
        /\ address % PageSize = Segment.vaddr % PageSize
        /\ address + Segment.memsz < Word
        /\ reloc' = C!RelocOffset(address)
        /\ base' = address
  BY DEF Relocate, C!Relocate
<1>2. code' = code
  BY DEF Relocate, C!Relocate
<1>3. base' \in P!Words
  BY <1>1, WidthAssumption, SamePages
<1>4. code = C!Windows(Section, Segment)
  BY DEF LibInv, HandleInv
<1>5. reloc' = P!Minus(Segment.vaddr, base')
  BY <1>1, <1>4, SamePages DEF C!RelocOffset, C!Windows, C!WindowOf
<1>6. proc' = [p \in PageStarts |-> Missing]
  BY DEF Relocate
<1>7. HandleInv'
  BY <1>1, <1>2, <1>3, <1>4, <1>5, <1>6 DEF HandleInv
<1>8. ProcessShowsText'
  BY <1>6 DEF ProcessShowsText, Filled
<1>9. QED
  BY <1>7, <1>8 DEF LibInv

LEMMA FaultHolds ==
  ASSUME LibInv, Fault
  PROVE  LibInv'
<1>1. PICK a \in Faults :
        /\ C!PageFor(a) # C!NULL
        /\ proc' = [proc EXCEPT ![C!PageDown(a)] = Copied(C!PageFor(a))]
  BY DEF Fault
<1>2. UNCHANGED <<code, reloc, base>> /\ text' = text
  BY DEF Fault, handle, vars
<1>3. HandleInv
  BY DEF LibInv
<1>4. HandleInv'
  BY <1>1, <1>2, <1>3 DEF HandleInv
<1>5. ASSUME NEW x \in Addrs, Filled(x)'
      PROVE  InProcess(x)' = text'[x]
  <2> DEFINE p == C!PageDown(Remote(x))
  <2>1. Remote(x)' = Remote(x)
    BY <1>2 DEF Remote
  <2>2. p' = p /\ p \in PageStarts /\ proc'[p] \notin {Missing, Stale}
        /\ InProcess(x)' = proc'[p][Remote(x) % PageSize]
    BY <1>5, <2>1 DEF Filled, InProcess
  <2>3. CASE p = C!PageDown(a)
    <3>1. proc'[p] = Copied(C!PageFor(a))
      BY <1>1, <1>3, <2>2, <2>3 DEF HandleInv
    <3>2. QED
      BY <1>1, <1>2, <1>3, <2>2, <2>3, <3>1, FaultShowsText
  <2>4. CASE p # C!PageDown(a)
    <3>1. proc'[p] = proc[p]
      BY <1>1, <1>3, <2>2, <2>4 DEF HandleInv
    <3>2. Filled(x) /\ InProcess(x) = proc[p][Remote(x) % PageSize]
      BY <2>2, <3>1 DEF Filled, InProcess
    <3>3. QED
      BY <1>2, <2>2, <3>1, <3>2 DEF LibInv, ProcessShowsText
  <2>5. QED
    BY <2>3, <2>4
<1>6. QED
  BY <1>4, <1>5 DEF LibInv, ProcessShowsText

LEMMA RandomizeHolds ==
  ASSUME LibInv, Randomize
  PROVE  LibInv'
<1>1. proc' = [p \in PageStarts |->
                 IF proc[p] # Missing /\ \E a \in Addrs : /\ text'[a] # text[a]
                                                          /\ C!PageDown(Remote(a)) = p
                   THEN Stale ELSE proc[p]]
  BY DEF Randomize
<1>2. UNCHANGED <<code, reloc, base>>
  BY DEF Randomize, handle
<1>3. HandleInv'
  BY <1>1, <1>2 DEF LibInv, HandleInv
<1>4. ASSUME NEW x \in Addrs, Filled(x)'
      PROVE  InProcess(x)' = text'[x]
  <2> DEFINE p == C!PageDown(Remote(x))
  <2>1. Remote(x)' = Remote(x)
    BY <1>2 DEF Remote
  <2>2. p' = p /\ p \in PageStarts /\ proc'[p] \notin {Missing, Stale}
        /\ InProcess(x)' = proc'[p][Remote(x) % PageSize]
    BY <1>4, <2>1 DEF Filled, InProcess
  <2>3. proc'[p] = proc[p] /\ text'[x] = text[x]
    BY <1>1, <2>2
  <2>4. Filled(x) /\ InProcess(x) = proc[p][Remote(x) % PageSize]
    BY <2>2, <2>3 DEF Filled, InProcess
  <2>5. QED
    BY <2>2, <2>3, <2>4 DEF LibInv, ProcessShowsText
<1>5. QED
  BY <1>3, <1>4 DEF LibInv, ProcessShowsText

LEMMA LibNextHolds == LibInv /\ [LibNext]_<<vars, handle, proc>> => LibInv'
<1> SUFFICES ASSUME LibInv, [LibNext]_<<vars, handle, proc>> PROVE LibInv'
  OBVIOUS
<1>1. CASE UNCHANGED <<vars, handle, proc>>
  <2>1. UNCHANGED <<code, reloc, base, proc, text>>
    BY <1>1 DEF handle, vars
  <2>2. HandleInv'
    BY <2>1 DEF LibInv, HandleInv
  <2>3. \A x : Filled(x)' = Filled(x) /\ InProcess(x)' = InProcess(x)
    BY <2>1 DEF Filled, InProcess, Remote
  <2>4. QED
    BY <2>1, <2>2, <2>3 DEF LibInv, ProcessShowsText
<1>2. QED
  BY <1>1, RelocateHolds, FaultHolds, RandomizeHolds DEF LibNext

LEMMA LibInvHolds == LibSpec => []LibInv
BY LibInitHolds, LibNextHolds, PTL DEF LibSpec

(***************************************************************************)
(* Serving and relocating do nothing to the text that Permute rewrites.    *)
(***************************************************************************)
LEMMA LibraryPermutes == LibSpec => Spec
<1>1. LibInit => Init
  BY DEF LibInit
<1>2. [LibNext]_<<vars, handle, proc>> => [Next]_vars
  BY DEF LibNext, Relocate, Fault, Randomize, vars
<1>3. QED
  BY <1>1, <1>2, PTL DEF LibSpec, Spec

-----------------------------------------------------------------------------

(***************************************************************************)
(* What the process sees of the text is what the library holds: windows,   *)
(* relocation and page arithmetic compose, wherever the code is loaded and *)
(* whenever a page is asked for (rave.c:127-137, 256, 267, 281-297).       *)
(***************************************************************************)
THEOREM ProcessSeesText == LibSpec => []ProcessShowsText
<1>1. LibInv => ProcessShowsText
  BY DEF LibInv
<1>2. QED
  BY <1>1, LibInvHolds, PTL

(***************************************************************************)
(* In the middle of a randomization and after a failed one too, each       *)
(* undisturbed function that the process has in full, on pages that were   *)
(* not rewritten since they were served, restores what it saves, unless    *)
(* its own rewriting was cut short.                                        *)
(***************************************************************************)
THEOREM ProcessRunsWhole ==
  LibSpec => []RunsWhole
<1>1. ASSUME WholeUnlessTorn, ProcessShowsText
      PROVE  RunsWhole
  <2> SUFFICES ASSUME NEW r \in Undisturbed \ torn, Present(r)
               PROVE  Consistent(ProcCode, r)
    BY DEF RunsWhole
  <2>0. r \in Regions
    BY DEF Undisturbed
  <2> DEFINE t == [a \in Addrs |-> InProcess(a)]
  <2>1. Consistent(CodeIn(text), r)
    BY <1>1 DEF WholeUnlessTorn
  <2>2. \A e \in SetsOf(r) : \A s \in SlotsOf(Size[r]) :
          t[CellAddr(r, e, s)] = text[CellAddr(r, e, s)]
    <3> SUFFICES ASSUME NEW e \in SetsOf(r), NEW s \in SlotsOf(Size[r])
                 PROVE  t[CellAddr(r, e, s)] = text[CellAddr(r, e, s)]
      OBVIOUS
    <3>1. CellAddr(r, e, s) \in Addrs
      BY <2>0, PlaceAssumption
    <3>2. Filled(CellAddr(r, e, s))
      BY DEF Present
    <3>3. QED
      BY <1>1, <3>1, <3>2 DEF ProcessShowsText
  <2> HIDE DEF t
  <2>3. Consistent(CodeIn(t), r)
    BY <2>0, <2>1, <2>2, ConsistentIsLocal
  <2>4. \A c \in Cells : CellAddr(c[1], c[2], c[3]) \in Addrs
    BY CellsAreTriples, PlaceAssumption
  <2>5. CodeIn(t) = ProcCode
    BY <2>4 DEF CodeIn, ProcCode, t
  <2>6. QED
    BY <2>3, <2>5
<1>2. Spec => []WholeUnlessTorn
  BY UntornIsWhole
<1>3. QED
  BY <1>1, <1>2, LibraryPermutes, ProcessSeesText, PTL

(***************************************************************************)
(* Faults answered in the middle of a call, and relocations, take nothing  *)
(* from what a caller of rave_randomize() is promised for the functions    *)
(* that are undisturbed.                                                   *)
(***************************************************************************)
THEOREM ServingKeepsPromise ==
  LibSpec => ImplementsRandomizer /\ []IndInv
BY LibraryPermutes, Refinement, Invariance, PTL

=============================================================================
