------------------------------ MODULE Metadata ------------------------------
(***************************************************************************)
(* How the functions of a binary are found and offered for analysis:       *)
(* foreach_function(), process_die_and_siblings() and get_function_hilo()  *)
(* of src/metadata_dwarf.c with the callback process_function() of         *)
(* src/rave.c.  One step is one call that asks libdwarf for something,     *)
(* which may fail, with what is done about its answer, or one of the       *)
(* places where an error is passed on.                                     *)
(*                                                                         *)
(* The debug information is a sequence of compilation units, each with a   *)
(* DIE or without, and the children of that DIE.  A pc that a child does   *)
(* not have is NoPc.  What transform_add_function() does with a function   *)
(* is module Analysis; here it accepts it, rejects it or runs out of       *)
(* memory.                                                                 *)
(***************************************************************************)
EXTENDS Window, Sequences

CONSTANTS
  Trees,      \* the debug information a binary may have
  NoPc,       \* a pc that a DIE does not have
  Text,       \* the window of the text section
  MinLen      \* the shortest function that can be accepted

ASSUME TextAssumption ==
  /\ Text \in [orig : Words, data : Words, length : Words]
  /\ Text.orig + Text.length < Word
  /\ Text.data + Text.length < Word

\* A child of a unit's DIE: hi may be an address or, if constant, a length.
Dies == [subprogram : BOOLEAN, lo : Words \cup {NoPc}, hi : Words \cup {NoPc},
         constant : BOOLEAN]

ASSUME NoPcAssumption == NoPc \notin Words

ASSUME TreesAssumption ==
  \A t \in Trees : t \in Seq([hasDie : BOOLEAN, children : Seq(Dies)])

\* Two pushes and the two pops that mirror them take four bytes at least.
ASSUME MinLenAssumption == MinLen \in Nat \ {0}

VARIABLES
  tree,       \* the debug information of this binary
  pc,         \* the call of libdwarf that comes next, or where an error is
  cu,         \* the compilation unit at hand
  die,        \* cur_die: which child of its DIE, 0 for none
  next,       \* next_die, which keeps its value when there is no next one
  live,       \* what libdwarf has handed out and not been given back
  list,       \* self->transform->transformables
  ret,        \* what foreach_function() has returned
  starved,    \* history: the transformer ran out of memory
  misused     \* history: what was used or given back while not handed out

walk == <<die, next>>
owned == <<live, misused>>
vars == <<tree, pc, cu, walk, owned, list, ret, starved>>

Child == tree[cu].children[die]

-----------------------------------------------------------------------------

\* The record made of a child: high_pc may be an address or a length.
Record(d) ==
  [addr |-> d.lo,
   len  |-> Minus(IF d.constant THEN Plus(d.lo, d.hi) ELSE d.hi, d.lo)]

\* process_function() looks at the first address, and at the one after the
\* last.
InTextByStart(f) == Covers(Text, f.addr)

InText(f) == Covers(Text, f.addr) /\ Covers(Text, Plus(f.addr, f.len))

\* The end of the bytes to decode, bytes + len, wraps around as well, and then
\* nothing is decoded and no prologue found.
Decodable(f) == MinLen <= f.len /\ View(Text, f.addr) + f.len <= Word - 1

\* What libdwarf hands out: the DIE of a unit, those of its children, and an
\* error, which dwarf_dealloc() takes back as well.
CuDieOf(c) == <<c, "unit", 0>>
Kid(d)     == <<cu, "child", d>>
Error      == <<cu, "error", 0>>

\* libdwarf is asked about the members of uses, hands out those of out, and is
\* then given back those of back.
Deal(uses, out, back) ==
  /\ live' = (live \cup out) \ back
  /\ misused' = misused \cup (uses \ live) \cup (back \ (live \cup out))

Return(code) == pc' = "returned" /\ ret' = code

-----------------------------------------------------------------------------

Init ==
  /\ tree \in Trees
  /\ pc = "header"
  /\ cu = 0
  /\ die = 0
  /\ next = 0
  /\ live = {}
  /\ list = <<>>
  /\ ret = "none"
  /\ starved = FALSE
  /\ misused = {}

MoreUnitsOffByOne == cu <= Len(tree)

MoreUnits == cu < Len(tree)

\* dwarf_next_cu_header_d()
NextHeader ==
  /\ pc = "header"
  /\ \/ /\ MoreUnits
        /\ cu' = cu + 1 /\ pc' = "cudie"
        /\ UNCHANGED <<ret, owned>>
     \/ ~MoreUnits /\ Return("SUCCESS") /\ UNCHANGED <<cu, owned>>
     \/ pc' = "error" /\ Deal({}, {Error}, {}) /\ UNCHANGED <<cu, ret>>
  /\ UNCHANGED <<tree, walk, list, starved>>

\* dwarf_siblingof_b() of no DIE: the DIE of the unit, which may be missing.
\* process_die_and_siblings() begins with neither of its DIEs.
CuDie ==
  /\ pc = "cudie"
  /\ \/ tree[cu].hasDie /\ pc' = "child" /\ Deal({}, {CuDieOf(cu)}, {})
     \/ ~tree[cu].hasDie /\ pc' = "header" /\ UNCHANGED owned
     \/ pc' = "error" /\ Deal({}, {Error}, {})
  /\ die' = 0 /\ next' = 0
  /\ UNCHANGED <<tree, cu, list, ret, starved>>

\* dwarf_child()
FirstChild ==
  /\ pc = "child"
  /\ \/ /\ tree[cu].children # <<>>
        /\ die' = 1 /\ pc' = "tag" /\ Deal({CuDieOf(cu)}, {Kid(1)}, {})
     \/ /\ tree[cu].children = <<>>
        /\ pc' = "left" /\ Deal({CuDieOf(cu)}, {}, {})
        /\ UNCHANGED die
     \/ pc' = "walkerr" /\ Deal({CuDieOf(cu)}, {Error}, {}) /\ UNCHANGED die
  /\ UNCHANGED <<tree, cu, next, list, ret, starved>>

TagFailsForgets == pc' = "walkerr" /\ Deal({Kid(die)}, {Error}, {})

TagFails == pc' = "walkerr" /\ Deal({Kid(die)}, {Error}, {Kid(die)})

\* dwarf_tag()
Tag ==
  /\ pc = "tag"
  /\ \/ /\ pc' = (IF Child.subprogram THEN "lowpc" ELSE "sibling")
        /\ Deal({Kid(die)}, {}, {})
     \/ TagFails
  /\ UNCHANGED <<tree, cu, walk, list, ret, starved>>

\* dwarf_lowpc(): a subprogram without an address is passed over.
LowPc ==
  /\ pc = "lowpc"
  /\ \/ /\ pc' = (IF Child.lo # NoPc THEN "highpc" ELSE "sibling")
        /\ Deal({Kid(die)}, {}, {})
     \/ pc' = "hiloerr" /\ Deal({Kid(die)}, {Error}, {})
  /\ UNCHANGED <<tree, cu, walk, list, ret, starved>>

\* dwarf_highpc_b()
HighPc ==
  /\ pc = "highpc"
  /\ \/ /\ pc' = (IF Child.hi # NoPc THEN "function" ELSE "sibling")
        /\ Deal({Kid(die)}, {}, {})
     \/ pc' = "hiloerr" /\ Deal({Kid(die)}, {Error}, {})
  /\ UNCHANGED <<tree, cu, walk, list, ret, starved>>

\* get_function_hilo() reports its error.
HiloError ==
  /\ pc = "hiloerr"
  /\ pc' = "hilofailed" /\ Deal({}, {}, {Error})
  /\ UNCHANGED <<tree, cu, walk, list, ret, starved>>

\* The walk gives the child back and passes the error on.
HiloFailed ==
  /\ pc = "hilofailed"
  /\ pc' = "failed" /\ Deal({}, {}, {Kid(die)})
  /\ UNCHANGED <<tree, cu, walk, list, ret, starved>>

\* process_function(): whatever comes of it, it returns success.
ProcessFunction ==
  /\ pc = "function"
  /\ pc' = "sibling"
  /\ \/ /\ InText(Record(Child)) /\ Decodable(Record(Child))
        /\ list' = Append(list, Record(Child))
        /\ UNCHANGED starved
     \/ UNCHANGED <<list, starved>>
     \/ InText(Record(Child)) /\ starved' = TRUE /\ UNCHANGED list
  /\ UNCHANGED <<tree, cu, walk, owned, ret>>

SiblingNotTaken == die

Sibling == die + 1

\* dwarf_siblingof_b(): the next child is handed out, if there is one; this one
\* is given back in any case, and next_die put in its place.
NextSibling ==
  /\ pc = "sibling"
  /\ \/ /\ die < Len(tree[cu].children)
        /\ next' = Sibling /\ pc' = "tag"
        /\ Deal({Kid(die)}, {Kid(Sibling)}, {Kid(die)})
     \/ /\ die = Len(tree[cu].children)
        /\ pc' = "left" /\ Deal({Kid(die)}, {}, {Kid(die)})
        /\ UNCHANGED next
     \/ /\ pc' = "walkerr" /\ Deal({Kid(die)}, {Error}, {Kid(die)})
        /\ UNCHANGED next
  /\ die' = next'
  /\ UNCHANGED <<tree, cu, list, ret, starved>>

\* process_die_and_siblings() reports its error.
WalkError ==
  /\ pc = "walkerr"
  /\ pc' = "failed" /\ Deal({}, {}, {Error})
  /\ UNCHANGED <<tree, cu, walk, list, ret, starved>>

\* It has returned, and foreach_function() gives the DIE of the unit back.
LeaveUnit ==
  /\ pc \in {"left", "failed"}
  /\ Deal({}, {}, {CuDieOf(cu)})
  /\ \/ pc = "left" /\ pc' = "header" /\ UNCHANGED ret
     \/ pc = "failed" /\ Return("EDWARF")
  /\ UNCHANGED <<tree, cu, walk, list, starved>>

\* foreach_function() reports its error.
ForeachError ==
  /\ pc = "error"
  /\ Return("EDWARF") /\ Deal({}, {}, {Error})
  /\ UNCHANGED <<tree, cu, walk, list, starved>>

Step ==
  \/ NextHeader \/ CuDie \/ FirstChild \/ Tag \/ LowPc \/ HighPc
  \/ HiloError \/ HiloFailed \/ ProcessFunction \/ NextSibling
  \/ WalkError \/ LeaveUnit \/ ForeachError

\* The call has returned.
Returned == pc = "returned" /\ UNCHANGED vars

Next == Step \/ Returned

Spec == Init /\ [][Next]_vars

-----------------------------------------------------------------------------

Records == [addr : Words, len : Words]

Looking == {"tag", "lowpc", "highpc", "function", "sibling"}

TypeOK ==
  /\ tree \in Trees
  /\ pc \in Looking \cup {"header", "cudie", "child", "hiloerr", "hilofailed",
                         "walkerr", "left", "failed", "error", "returned"}
  /\ cu \in 0 .. Len(tree)
  /\ die \in Nat /\ next \in Nat
  /\ pc \in Looking => die \in DOMAIN tree[cu].children
  /\ live \subseteq Nat \X {"unit", "child", "error"} \X Nat
  /\ list \in Seq(Records)
  /\ ret \in {"none", "SUCCESS", "EDWARF"}
  /\ starved \in BOOLEAN

(***************************************************************************)
(* At every moment what libdwarf has handed out and not been given back is *)
(* what the walk has in hand, on each of its error paths as well; nothing  *)
(* is given back twice, and libdwarf is never asked about a DIE that it    *)
(* has back, although cur_die and next_die keep such DIEs after the last   *)
(* child (metadata_dwarf.c:51-54, 124-153, 191-213, 217-220).              *)
(***************************************************************************)
InHand ==
  (IF pc \in Looking \cup {"child", "hiloerr", "hilofailed", "walkerr", "left", "failed"}
     THEN {CuDieOf(cu)} ELSE {})
  \cup (IF pc \in Looking \cup {"hiloerr", "hilofailed"} THEN {Kid(die)} ELSE {})
  \cup (IF pc \in {"hiloerr", "walkerr", "error"} THEN {Error} ELSE {})

DiesAreGivenBack == live = InHand /\ misused = {}

\* What ought to become of a child: it is a function with a place and a size.
IsFunction(d) == d.subprogram /\ d.lo # NoPc /\ d.hi # NoPc

(***************************************************************************)
(* Whatever the debug information says, a function in the list lies in the *)
(* text from its first byte to its last, without wrapping around: a high   *)
(* pc below the low one, which makes a length of nearly Word, passes the   *)
(* check of process_function() and is caught further on                    *)
(* (rave.c:62-65, transform.c:336).                                        *)
(***************************************************************************)
ListedLieInText ==
  \A i \in DOMAIN list :
    /\ Text.orig <= list[i].addr
    /\ list[i].addr + list[i].len <= Text.orig + Text.length

\* The functions the callback is told of if no call fails: the child d of the
\* DIE of unit c is <<c, d>>.
Told ==
  UNION { {<<c, d>> : d \in { e \in DOMAIN tree[c].children :
                               IsFunction(tree[c].children[e]) }} :
          c \in { u \in DOMAIN tree : tree[u].hasDie } }

\* The walk comes to p before it comes to q.
Before(p, q) == p[1] < q[1] \/ (p[1] = q[1] /\ p[2] < q[2])

\* The functions the list was made of, if at says which.
IsPickedAt(at) ==
  /\ \A i \in DOMAIN list : list[i] = Record(tree[at[i][1]].children[at[i][2]])
  /\ \A i, j \in DOMAIN list : i < j => Before(at[i], at[j])

(***************************************************************************)
(* The list is a selection of the functions told of, each taken once at    *)
(* most and in their order, also when an error cuts the walk short         *)
(* (metadata_dwarf.c:104-225, rave.c:49-81).                               *)
(***************************************************************************)
ListIsPicked == \E at \in [DOMAIN list -> Told] : IsPickedAt(at)

(***************************************************************************)
(* "Returns success unless there is a fatal error (e.g. nomem)" says the   *)
(* comment on process_function() (rave.c:49-50), whose return value        *)
(* foreach_function() passes on.                                           *)
(***************************************************************************)
StarvationIsReported == pc = "returned" /\ starved => ret # "SUCCESS"

=============================================================================
