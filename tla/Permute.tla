------------------------------- MODULE Permute -------------------------------
(***************************************************************************)
(* transform_permute_all() of src/transform.c with permute() and           *)
(* instr_set_encode_order(): every transformable function in list order,   *)
(* its prologue and then its epilogues, slot by slot.  Encoding one        *)
(* instruction may fail, and the whole call then returns at once with what *)
(* was written so far left in the text.                                    *)
(*                                                                         *)
(* The instructions written are the ones decoded when the function was     *)
(* analysed, never the ones found in the text.  Where they are written is  *)
(* the address the analysis recorded, Rec, which is the address they came  *)
(* from, Place, unless the analysis got it wrong (module Analysis); a      *)
(* write that so goes past the end of the text is not followed.            *)
(*                                                                         *)
(* Two entries of the list may be the same function, because the list is   *)
(* filled from debug information and nothing looks for duplicates.         *)
(***************************************************************************)
EXTENDS Layout

CONSTANTS
  Addrs,     \* the addresses of the text section
  First,     \* First[r]: record.addr
  Len,       \* Len[r]: record.len
  Place,     \* Place[r][e]: the address at which set e of r stands
  Rec,       \* Rec[r][e]: the start the analysis has recorded for it
  Lengths,   \* the lengths the transformables list may have
  RegionOf   \* RegionOf[t]: the function at record.addr of the t-th entry

CellAddr(r, e, s) == Place[r][e] + s

ASSUME AddrsAssumption == Addrs \subseteq Nat
ASSUME LengthsAssumption == Lengths \subseteq Nat
ASSUME RegionOfAssumption ==
  \A n \in Lengths : \A t \in 1 .. n : RegionOf[t] \in Regions

\* Functions lie in the text, their sets in different places.
ASSUME PlaceAssumption ==
  /\ \A r \in Regions : \A e \in SetsOf(r) : Place[r][e] \in Nat
  /\ \A r \in Regions : \A e \in SetsOf(r) : \A s \in SlotsOf(Size[r]) :
       CellAddr(r, e, s) \in Addrs
  /\ \A r1, r2 \in Regions : \A e1 \in SetsOf(r1), e2 \in SetsOf(r2) :
       \A s1 \in SlotsOf(Size[r1]), s2 \in SlotsOf(Size[r2]) :
         CellAddr(r1, e1, s1) = CellAddr(r2, e2, s2)
           => r1 = r2 /\ e1 = e2 /\ s1 = s2

\* The analysis has recorded every set of r where it stands.
InPlace(r) == \A e \in SetsOf(r) : Rec[r][e] = Place[r][e]

\* window_view(fw, set->start, NULL) does not return NULL.
InFunction(r, e) == Rec[r][e] \in First[r] .. First[r] + Len[r] - 1

\* The addresses that rewriting set e of r writes to.
WrittenBy(r, e) ==
  IF InFunction(r, e) THEN {Rec[r][e] + s : s \in SlotsOf(Size[r])} ELSE {}

(***************************************************************************)
(* The functions that permuting is right about: those recorded in place    *)
(* that no set of another function, recorded past its place, runs into.    *)
(* That a function with a single run of pops is recorded in place is       *)
(* FirstPopsAreInPlace of AnalysisProofs; a later run of pops is not       *)
(* (transform.c:370).                                                      *)
(***************************************************************************)
Undisturbed ==
  {r \in Regions :
     /\ InPlace(r)
     /\ \A q \in Regions \ {r} : \A e \in SetsOf(q) :
          WrittenBy(q, e) \cap
            {CellAddr(r, c[1], c[2]) : c \in SetsOf(r) \X SlotsOf(Size[r])} = {}}

VARIABLES
  last,      \* the length of the list: where memory ran out while it was made,
             \* its end is missing, and rave_init() succeeds (rave.c:74-78)
  text,      \* what stands at each address
  order,     \* tf->order of each list entry
  pc,        \* "idle", where transform_permute_all has got to, or "dead"
  cur,       \* the list entry it is working on
  set,       \* the instruction set: 0 the prologue, e the e-th epilogue
  slot,      \* the next slot of that set to encode
             \* (cur, set and slot are locals: a return puts them back)
  rc,        \* what the last call returned: "ok" or "failed"
  torn,      \* history: regions whose rewriting has begun and not finished
  seen       \* history: text as its caller sees it, when no call is under way

vars == <<last, text, order, pc, cur, set, slot, rc, torn, seen>>

Tfs == 1 .. last

Here == RegionOf[cur]

\* The preservation code found in text t, cell by cell.
CodeIn(t) == [c \in Cells |-> t[CellAddr(c[1], c[2], c[3])]]

Caller == INSTANCE Randomizer WITH code <- CodeIn(seen), Kept <- Undisturbed

SetOrderOriginal(e) == IF e = 0 THEN order[cur] ELSE Identity(Size[Here])

\* The order vector in force for a set: tf->order, or eorder.
SetOrder(e) == IF e = 0 THEN order[cur] ELSE Mirror(order[cur], Size[Here])

\* Where slot s of a set is written: window_view() of the recorded start, and
\* the slots before it.
TargetOneOn(e, s) == Rec[Here][e] + s + 1

Target(e, s) == Rec[Here][e] + s

ChosenInPlace(e, s) == text[Target(e, Placed(SetOrder(e), Size[Here])[s])]

\* The instruction that instrs[s] holds once the set has been ordered.
Chosen(e, s) == InstrOf(Here, e, Placed(SetOrder(e), Size[Here])[s])

\* list_for_each_entry()
SameEntry(t) == t

NextEntry(t) == t + 1

\* What the program's instructions are, as far as permuting is concerned.
Other == <<"other", "none">>

Contents == { InstrOf(c[1], c[2], c[3]) : c \in Cells } \cup {Other}

CellAt(a) == CHOOSE c \in Cells : CellAddr(c[1], c[2], c[3]) = a

\* The text as it was compiled.
Original ==
  [a \in Addrs |->
     IF \E c \in Cells : CellAddr(c[1], c[2], c[3]) = a
       THEN InstrOf(CellAt(a)[1], CellAt(a)[2], CellAt(a)[3])
       ELSE Other]

-----------------------------------------------------------------------------

Init ==
  /\ last \in Lengths
  /\ text = Original
  /\ order = [t \in Tfs |-> Identity(Size[RegionOf[t]])]
  /\ pc = "idle"
  /\ cur = 1
  /\ set = 0
  /\ slot = 0
  /\ rc = "ok"
  /\ torn = {}
  /\ seen = text

\* The call of transform_permute_all, and the head of its loop.
Call ==
  /\ pc = "idle"
  /\ pc' = "function"
  /\ UNCHANGED <<last, text, order, cur, set, slot, rc, torn, seen>>

\* The next function of the list: permute() shuffles its order.
BeginFunction ==
  /\ pc = "function"
  /\ cur \in Tfs
  /\ \E o \in Orders(Size[Here]) : order' = [order EXCEPT ![cur] = o]
  /\ pc' = "encode"
  /\ torn' = torn \cup {Here}
  /\ UNCHANGED <<last, text, cur, set, slot, rc, seen>>

\* instr_encode_to_copy() writes the instruction chosen for this slot.  It takes
\* as many bytes as it was decoded from, so the set never outgrows its end
\* (transform.c:496).
Encode ==
  /\ pc = "encode"
  /\ InFunction(Here, set)
  /\ slot < Size[Here]
  /\ text' = [text EXCEPT ![Target(set, slot)] = Chosen(set, slot)]
  /\ slot' = slot + 1
  /\ UNCHANGED <<last, order, pc, cur, set, rc, torn, seen>>

EncodeFailsQuietly ==
  /\ pc = "encode"
  /\ InFunction(Here, set)
  /\ slot < Size[Here]
  /\ pc' = "idle"
  /\ rc' = "ok"
  /\ seen' = text
  /\ cur' = 1 /\ set' = 0 /\ slot' = 0
  /\ UNCHANGED <<last, text, order, torn>>

\* instr_encode_to_copy() returns NULL: the error is passed up through
\* permute() and transform_permute_all(), and nothing is put back.
EncodeFails ==
  /\ pc = "encode"
  /\ InFunction(Here, set)
  /\ slot < Size[Here]
  /\ pc' = "idle"
  /\ rc' = "failed"
  /\ seen' = text
  /\ cur' = 1 /\ set' = 0 /\ slot' = 0
  /\ UNCHANGED <<last, text, order, torn>>

\* The recorded start is not in the function: the set is encoded to NULL.
NullTarget ==
  /\ pc = "encode"
  /\ ~InFunction(Here, set)
  /\ pc' = "dead"
  /\ UNCHANGED <<last, text, order, cur, set, slot, rc, torn, seen>>

\* A set is done and the function has a further epilogue.
NextSet ==
  /\ pc = "encode"
  /\ slot = Size[Here]
  /\ set < NumEpis[Here]
  /\ set' = set + 1
  /\ slot' = 0
  /\ UNCHANGED <<last, text, order, pc, cur, rc, torn, seen>>

\* The last epilogue is done: permute() returns and the loop advances.
EndFunction ==
  /\ pc = "encode"
  /\ slot = Size[Here]
  /\ set = NumEpis[Here]
  /\ pc' = "function"
  /\ cur' = NextEntry(cur)
  /\ set' = 0 /\ slot' = 0
  /\ torn' = torn \ {Here}
  /\ UNCHANGED <<last, text, order, rc, seen>>

\* The list is exhausted.
Return ==
  /\ pc = "function"
  /\ cur \notin Tfs
  /\ pc' = "idle"
  /\ rc' = "ok"
  /\ seen' = text
  /\ cur' = 1 /\ set' = 0 /\ slot' = 0
  /\ UNCHANGED <<last, text, order, torn>>

Progress ==
  \/ BeginFunction \/ Encode \/ EncodeFails \/ NullTarget \/ NextSet
  \/ EndFunction \/ Return

Next == Call \/ Progress

Spec == Init /\ [][Next]_vars

\* The call runs in its caller's thread and does not block.
FairSpec == Spec /\ WF_vars(Progress)

-----------------------------------------------------------------------------

TypeOK ==
  /\ last \in Lengths
  /\ text \in [Addrs -> Contents]
  /\ seen \in [Addrs -> Contents]
  /\ DOMAIN order = Tfs
  /\ \A t \in Tfs : order[t] \in Orders(Size[RegionOf[t]])
  /\ pc \in {"idle", "function", "encode", "dead"}
  /\ cur \in 1 .. last + 1
  /\ pc = "encode" => /\ cur \in Tfs
                      /\ set \in SetsOf(Here)
                      /\ slot \in 0 .. Size[Here]
  /\ pc \in {"idle", "function"} => set = 0 /\ slot = 0
  /\ pc = "idle" => cur = 1
  /\ rc \in {"ok", "failed"}
  /\ torn \subseteq Regions

(***************************************************************************)
(* What the comment at transform.c:524-525 promises of every function: a   *)
(* call that returns success leaves it able to restore what it saves.      *)
(***************************************************************************)
SuccessIsWhole ==
  pc = "idle" /\ rc = "ok" => \A r \in Regions : Consistent(CodeIn(seen), r)

(***************************************************************************)
(* The promise is kept to every undisturbed function, whatever the calls   *)
(* before did and whatever becomes of the others: a function an earlier,   *)
(* failed call left half rewritten is whole again after a call that        *)
(* succeeds, because each pass starts from the decoded instructions and    *)
(* not from the text (transform.c:467-503).                                *)
(***************************************************************************)
SuccessMends ==
  pc = "idle" /\ rc = "ok" => \A r \in Undisturbed : Consistent(CodeIn(seen), r)

(***************************************************************************)
(* An undisturbed function that is not half way through being rewritten is *)
(* consistent, in the middle of a call and after a failure as well, two    *)
(* list entries for one function included.                                 *)
(***************************************************************************)
WholeUnlessTorn ==
  \A r \in Undisturbed \ torn : Consistent(CodeIn(text), r)

(***************************************************************************)
(* The text changes nowhere but in the sets as they are recorded: where    *)
(* the recorded starts are right the bodies of the functions stay as the   *)
(* compiler made them, and where one is wrong no more is overwritten than  *)
(* as many instructions as the set has.                                    *)
(***************************************************************************)
Targets == UNION { UNION {WrittenBy(r, e) : e \in SetsOf(r)} : r \in Regions }

BodyIsKept ==
  \A a \in Addrs \ Targets : text[a] = Original[a]

(***************************************************************************)
(* Why the invariants above hold.  The sets of the function at hand that   *)
(* are behind the encoder are already laid out by its new order; every     *)
(* torn function has an entry at or after the current one, so a call that  *)
(* reaches the end of the list has mended what an earlier one tore.        *)
(***************************************************************************)
Written ==
  pc = "encode" =>
    /\ Here \in torn
    /\ Here \in Undisturbed =>
         \A e \in SetsOf(Here) : \A s \in SlotsOf(Size[Here]) :
           e < set \/ (e = set /\ s < slot)
             => text[CellAddr(Here, e, s)] = Chosen(e, s)

TornIsAhead ==
  /\ pc \in {"idle", "function", "encode"} =>
       \A r \in torn : \E t \in cur .. last : RegionOf[t] = r
  /\ pc = "idle" /\ rc = "ok" => torn = {}

\* What this call has not come to is as the caller last saw it.
TornIsUntouched ==
  pc \in {"function", "encode"} =>
    \A r \in torn \cap Undisturbed : ~(pc = "encode" /\ r = Here) =>
      \A e \in SetsOf(r) : \A s \in SlotsOf(Size[r]) :
        text[CellAddr(r, e, s)] = seen[CellAddr(r, e, s)]

SeenWhenIdle == pc = "idle" => seen = text

IndInv ==
  /\ TypeOK
  /\ WholeUnlessTorn
  /\ Written
  /\ TornIsAhead
  /\ TornIsUntouched
  /\ SeenWhenIdle

(***************************************************************************)
(* Seen between calls, permuting implements Randomizer for the functions   *)
(* that are undisturbed: in particular a failed call spoils none of them   *)
(* but the one it stopped in.                                              *)
(***************************************************************************)
ImplementsRandomizer == Caller!Spec

\* Every call returns, whether or not an encoding fails on the way, unless an
\* epilogue recorded outside its function ends the program.
CallReturns == []<>(pc \in {"idle", "dead"})

=============================================================================
