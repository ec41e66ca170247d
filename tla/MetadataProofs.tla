--------------------------- MODULE MetadataProofs ---------------------------
(***************************************************************************)
(* Proofs about Metadata, for every width of addresses, every text section *)
(* and all debug information.                                              *)
(***************************************************************************)
EXTENDS Metadata, TLAPS

LEMMA SmallModulo == \A x \in Nat : x < Word => x % Word = x
  BY WordAssumption

LEMMA LargeModulo ==
  \A x \in Nat : Word <= x /\ x < 2 * Word => x % Word = x - Word
  BY WordAssumption

LEMMA SumsAreWords == \A a, b \in Words : Plus(a, b) \in Words /\ Minus(a, b) \in Words
  BY WordAssumption DEF Words, Plus, Minus

(***************************************************************************)
(* Two checks that look incomplete are complete together: the ends of a    *)
(* function may both be in the text though its length wraps around, but    *)
(* then the end of its bytes wraps around too and nothing is decoded.      *)
(***************************************************************************)
LEMMA ChecksSuffice ==
  ASSUME NEW f \in Records, InText(f), Decodable(f)
  PROVE  Text.orig <= f.addr /\ f.addr + f.len <= Text.orig + Text.length
<1> USE WordAssumption, TextAssumption DEF Words, Records
<1>1. Plus(Text.orig, Text.length) = Text.orig + Text.length
  BY SmallModulo DEF Plus
<1>2. Text.orig <= f.addr /\ f.addr < Text.orig + Text.length
  BY <1>1 DEF InText, Covers
<1>3. Minus(f.addr, Text.orig) = f.addr - Text.orig
  BY <1>2, LargeModulo DEF Minus
<1>4. View(Text, f.addr) = Text.data + (f.addr - Text.orig)
  BY <1>2, <1>3, SmallModulo DEF View, Plus
<1>5. CASE f.addr + f.len < Word
  <2>1. Plus(f.addr, f.len) = f.addr + f.len
    BY <1>5, SmallModulo DEF Plus
  <2>2. QED
    BY <1>1, <1>2, <2>1 DEF InText, Covers
<1>6. CASE f.addr + f.len >= Word
  <2>1. Plus(f.addr, f.len) = f.addr + f.len - Word
    BY <1>6, LargeModulo DEF Plus
  <2>2. f.len >= Text.orig + Word - f.addr
    BY <2>1 DEF InText, Covers
  <2>3. Text.data + (f.addr - Text.orig) + f.len <= Word - 1
    BY <1>4 DEF Decodable
  <2>4. FALSE
    BY <1>2, <2>2, <2>3
  <2>5. QED
    BY <2>4
<1>7. QED
  BY <1>5, <1>6

-----------------------------------------------------------------------------

(***************************************************************************)
(* Where the walk is, and what it has read of the child at hand.           *)
(***************************************************************************)
Position ==
  /\ tree \in Trees
  /\ cu \in 0 .. Len(tree)
  /\ pc \in {"cudie", "child"} \cup Looking => cu \in 1 .. Len(tree)
  /\ pc \in Looking => die \in 1 .. Len(tree[cu].children)
  /\ pc \in {"highpc", "function"} => Child.lo \in Words
  /\ pc = "function" => Child.hi \in Words

(***************************************************************************)
(* What TreesAssumption says of one entry.                                 *)
(***************************************************************************)
LEMMA EntriesAreTyped ==
  ASSUME NEW t \in Trees
  PROVE  /\ Len(t) \in Nat
         /\ \A c \in 1 .. Len(t) :
              /\ Len(t[c].children) \in Nat
              /\ t[c].children # <<>> => 1 <= Len(t[c].children)
              /\ \A d \in 1 .. Len(t[c].children) : t[c].children[d] \in Dies
<1> DEFINE U == [hasDie : BOOLEAN, children : Seq(Dies)]
<1>1. t \in Seq(U)
  BY TreesAssumption
<1>2. Len(t) \in Nat /\ \A c \in 1 .. Len(t) : t[c] \in U
  <2> HIDE DEF U
  <2> QED
    BY <1>1
<1>3. \A c \in 1 .. Len(t) : t[c].children \in Seq(Dies)
  BY <1>2
<1>4. ASSUME NEW s \in Seq(Dies)
      PROVE  /\ Len(s) \in Nat
             /\ s # <<>> => 1 <= Len(s)
             /\ \A d \in 1 .. Len(s) : s[d] \in Dies
  BY <1>4
<1>5. QED
  <2> HIDE DEF U
  <2> QED
    BY <1>2, <1>3, <1>4

LEMMA ChildIsDie ==
  ASSUME Position, pc \in Looking
  PROVE  Child \in Dies
<1>1. tree \in Trees /\ cu \in 1 .. Len(tree)
  BY DEF Position
<1>2. die \in 1 .. Len(tree[cu].children)
  BY DEF Position
<1>3. QED
  BY <1>1, <1>2, EntriesAreTyped DEF Child

LEMMA PositionInit == Init => Position
<1>1. ASSUME Init PROVE Len(tree) \in Nat
  BY <1>1, EntriesAreTyped DEF Init
<1>2. QED
  BY <1>1 DEF Init, Position, Looking

LEMMA PositionStep == Position /\ [Next]_vars => Position'
<1> SUFFICES ASSUME Position, [Next]_vars
             PROVE  Position'
  OBVIOUS
<1> USE DEF Looking, walk
<1>1. /\ tree \in Trees
      /\ Len(tree) \in Nat
      /\ cu \in 0 .. Len(tree)
  BY EntriesAreTyped DEF Position
<1>2. pc \in Looking => Child \in Dies
  BY ChildIsDie
<1>3. CASE NextHeader
  BY <1>1, <1>3 DEF NextHeader, MoreUnits, Return, Position
<1>4. CASE CuDie
  BY <1>1, <1>4 DEF CuDie, Position
<1>5. CASE FirstChild
  <2>1. cu \in 1 .. Len(tree)
    BY <1>5 DEF FirstChild, Position
  <2>2. /\ Len(tree[cu].children) \in Nat
        /\ tree[cu].children # <<>> => 1 <= Len(tree[cu].children)
    BY <1>1, <2>1, EntriesAreTyped
  <2>3. QED
    BY <1>1, <1>5, <2>1, <2>2 DEF FirstChild, Position
<1>6. CASE Tag
  BY <1>1, <1>6 DEF Tag, TagFails, Position
<1>7. CASE LowPc
  <2>1. Child \in Dies /\ Child' = Child /\ tree' = tree /\ cu' = cu /\ die' = die
    BY <1>2, <1>7 DEF LowPc, Child
  <2>2. CASE pc' = "highpc"
    <3>1. Child.lo # NoPc
      BY <1>7, <2>2 DEF LowPc
    <3>2. Child.lo \in Words
      BY <2>1, <3>1 DEF Dies
    <3>3. QED
      BY <1>7, <2>1, <2>2, <3>2 DEF LowPc, Position
  <2>3. CASE pc' # "highpc"
    BY <1>1, <1>7, <2>1, <2>3 DEF LowPc, Position
  <2>4. QED
    BY <2>2, <2>3
<1>8. CASE HighPc
  <2>1. Child \in Dies /\ Child' = Child /\ tree' = tree /\ cu' = cu /\ die' = die
    BY <1>2, <1>8 DEF HighPc, Child
  <2>2. CASE pc' = "function"
    <3>1. Child.hi # NoPc
      BY <1>8, <2>2 DEF HighPc
    <3>2. Child.hi \in Words /\ Child.lo \in Words
      BY <1>8, <2>1, <3>1 DEF Dies, HighPc, Position
    <3>3. QED
      BY <1>8, <2>1, <2>2, <3>2 DEF HighPc, Position
  <2>3. CASE pc' # "function"
    BY <1>1, <1>8, <2>1, <2>3 DEF HighPc, Position
  <2>4. QED
    BY <2>2, <2>3
<1>9. CASE ProcessFunction
  BY <1>1, <1>9 DEF ProcessFunction, Position
<1>10. CASE NextSibling
  <2>1. cu \in 1 .. Len(tree) /\ die \in 1 .. Len(tree[cu].children)
    BY <1>10 DEF NextSibling, Position
  <2>2. Len(tree[cu].children) \in Nat
    BY <1>1, <2>1, EntriesAreTyped
  <2>3. QED
    BY <1>1, <1>10, <2>1, <2>2 DEF NextSibling, Sibling, Position
<1>11. CASE HiloError \/ HiloFailed \/ WalkError \/ LeaveUnit \/ ForeachError
  BY <1>1, <1>11
     DEF HiloError, HiloFailed, WalkError, LeaveUnit, ForeachError, Return, Position
<1>12. CASE UNCHANGED vars
  BY <1>12 DEF vars, Position, Child
<1>13. QED
  BY <1>3, <1>4, <1>5, <1>6, <1>7, <1>8, <1>9, <1>10, <1>11, <1>12
     DEF Next, Step, Returned

-----------------------------------------------------------------------------

\* The children at hand are numbered, so that two of them differ.
LEMMA ChildIsNumbered ==
  ASSUME Position, pc \in Looking
  PROVE  die \in Nat
<1>1. tree \in Trees /\ cu \in 1 .. Len(tree) /\ die \in 1 .. Len(tree[cu].children)
  BY DEF Position
<1>2. Len(tree[cu].children) \in Nat
  BY <1>1, EntriesAreTyped
<1>3. QED
  BY <1>1, <1>2

(***************************************************************************)
(* On every path of the walk libdwarf gets back what it has handed out,    *)
(* once, and is not asked about what it has back; for any debug            *)
(* information, whichever call fails (metadata_dwarf.c:51-54, 124-153,     *)
(* 191-213, 217-220).                                                      *)
(***************************************************************************)
THEOREM DiesBalance == Spec => []DiesAreGivenBack
<1>1. Init => Position /\ DiesAreGivenBack
  <2>1. Init => DiesAreGivenBack
    BY DEF Init, DiesAreGivenBack, InHand, Looking
  <2>2. QED
    BY <2>1, PositionInit
<1>2. Position /\ DiesAreGivenBack /\ [Next]_vars => Position' /\ DiesAreGivenBack'
  <2> SUFFICES ASSUME Position, DiesAreGivenBack, [Next]_vars
               PROVE  DiesAreGivenBack'
    BY PositionStep
  <2>1. live = InHand /\ misused = {}
    BY DEF DiesAreGivenBack
  <2> USE <2>1 DEF DiesAreGivenBack, InHand, Looking, Deal, CuDieOf, Kid, Error,
                   walk, owned
  <2>2. CASE NextHeader
    BY <2>2 DEF NextHeader, Return
  <2>3. CASE CuDie
    BY <2>3 DEF CuDie
  <2>4. CASE FirstChild
    BY <2>4 DEF FirstChild
  <2>5. CASE Tag
    BY <2>5 DEF Tag, TagFails
  <2>6. CASE LowPc
    BY <2>6 DEF LowPc
  <2>7. CASE HighPc
    BY <2>7 DEF HighPc
  <2>8. CASE HiloError
    BY <2>8 DEF HiloError
  <2>9. CASE HiloFailed
    BY <2>9 DEF HiloFailed
  <2>10. CASE ProcessFunction
    BY <2>10 DEF ProcessFunction
  <2>11. CASE NextSibling
    <3>1. die \in Nat
      BY <2>11, ChildIsNumbered DEF NextSibling
    <3>2. QED
      BY <2>11, <3>1 DEF NextSibling, Sibling
  <2>12. CASE WalkError
    BY <2>12 DEF WalkError
  <2>13. CASE LeaveUnit
    BY <2>13 DEF LeaveUnit, Return
  <2>14. CASE ForeachError
    BY <2>14 DEF ForeachError, Return
  <2>15. CASE UNCHANGED vars
    BY <2>15 DEF vars
  <2>16. QED
    BY <2>2, <2>3, <2>4, <2>5, <2>6, <2>7, <2>8, <2>9, <2>10, <2>11, <2>12, <2>13,
       <2>14, <2>15 DEF Next, Step, Returned
<1>3. QED
  BY <1>1, <1>2, PTL DEF Spec

-----------------------------------------------------------------------------

LEMMA RecordIsRecord ==
  ASSUME Position, pc = "function"
  PROVE  Record(Child) \in Records
<1>1. Child.lo \in Words /\ Child.hi \in Words
  BY DEF Position
<1>2. QED
  BY <1>1, SumsAreWords DEF Record, Records

Listed == list \in Seq(Records) /\ ListedLieInText

(***************************************************************************)
(* Whatever the debug information says, a function in the list lies in the *)
(* text from its first byte to its last (rave.c:60-68, transform.c:314).   *)
(***************************************************************************)
THEOREM ListedAreInText == Spec => []ListedLieInText
<1>1. Init => Position /\ Listed
  BY PositionInit DEF Init, Listed, ListedLieInText
<1>2. Position /\ Listed /\ [Next]_vars => Position' /\ Listed'
  <2> SUFFICES ASSUME Position, Listed, [Next]_vars
               PROVE  Listed'
    BY PositionStep
  <2>1. CASE ProcessFunction
    <3>1. CASE UNCHANGED list
      BY <3>1 DEF Listed, ListedLieInText
    <3>2. CASE /\ InText(Record(Child)) /\ Decodable(Record(Child))
               /\ list' = Append(list, Record(Child))
      <4>1. Record(Child) \in Records
        BY <2>1, RecordIsRecord DEF ProcessFunction
      <4>2. /\ Text.orig <= Record(Child).addr
            /\ Record(Child).addr + Record(Child).len <= Text.orig + Text.length
        BY <3>2, <4>1, ChecksSuffice
      <4>3. list' \in Seq(Records)
        BY <3>2, <4>1 DEF Listed
      <4>4. \A k \in DOMAIN list' :
              list'[k] = Record(Child) \/ (k \in DOMAIN list /\ list'[k] = list[k])
        BY <3>2, <4>1 DEF Listed
      <4>5. QED
        BY <4>2, <4>3, <4>4 DEF Listed, ListedLieInText
    <3>3. QED
      BY <2>1, <3>1, <3>2 DEF ProcessFunction
  <2>2. CASE UNCHANGED list
    BY <2>2 DEF Listed, ListedLieInText
  <2>3. QED
    BY <2>1, <2>2 DEF Next, Step, Returned, vars, NextHeader, CuDie, FirstChild,
       Tag, LowPc, HighPc, HiloError, HiloFailed, NextSibling, WalkError, LeaveUnit,
       ForeachError
<1>3. Listed => ListedLieInText
  BY DEF Listed
<1>4. QED
  BY <1>1, <1>2, <1>3, PTL DEF Spec

-----------------------------------------------------------------------------

\* The rest of TypeOK.
Counted ==
  /\ pc \in Looking \cup {"header", "cudie", "child", "hiloerr", "hilofailed",
                         "walkerr", "left", "failed", "error", "returned"}
  /\ die \in Nat /\ next \in Nat
  /\ live \subseteq Nat \X {"unit", "child", "error"} \X Nat
  /\ list \in Seq(Records)
  /\ ret \in {"none", "SUCCESS", "EDWARF"}

LEMMA StarvedIsBoolean == Spec => [](starved \in BOOLEAN)
<1>1. Init => starved \in BOOLEAN
  BY DEF Init
<1>2. starved \in BOOLEAN /\ [Next]_vars => (starved \in BOOLEAN)'
  <2> SUFFICES ASSUME starved \in BOOLEAN, [Next]_vars
               PROVE  starved' \in BOOLEAN
    OBVIOUS
  <2>1. starved' = starved \/ starved' = TRUE
    BY Zenon DEF Next, Step, Returned, vars, NextHeader, CuDie, FirstChild, Tag,
       LowPc, HighPc, HiloError, HiloFailed, ProcessFunction, NextSibling, WalkError,
       LeaveUnit, ForeachError
  <2>2. QED
    BY <2>1
<1>3. QED
  BY <1>1, <1>2, PTL DEF Spec

(***************************************************************************)
(* The walk never looks at a unit or a child that is not there, whichever  *)
(* call ends it, and what it lists are records of whole words              *)
(* (metadata_dwarf.c:104-225, rave.c:49-81).                               *)
(***************************************************************************)
THEOREM WalkStaysInTree == Spec => []TypeOK
<1>1. Init => Position /\ Counted
  <2>1. <<>> \in Seq(Records)
    OBVIOUS
  <2>2. Init => Counted
    BY <2>1 DEF Init, Counted
  <2>3. QED
    BY <2>2, PositionInit
<1>2. Position /\ Counted /\ [Next]_vars => Position' /\ Counted'
  <2> SUFFICES ASSUME Position, Counted, [Next]_vars
               PROVE  Counted'
    BY PositionStep
  <2> USE DEF Looking, walk, owned
  <2>1. CASE ProcessFunction
    <3>1. Record(Child) \in Records
      BY <2>1, RecordIsRecord DEF ProcessFunction
    <3>2. list' \in Seq(Records)
      <4>1. CASE list' = Append(list, Record(Child))
        BY <3>1, <4>1 DEF Counted
      <4>2. CASE list' = list
        BY <4>2 DEF Counted
      <4>3. QED
        BY <2>1, <4>1, <4>2 DEF ProcessFunction
    <3>3. QED
      BY <2>1, <3>2 DEF ProcessFunction, Counted
  <2>2. cu \in Nat
    BY EntriesAreTyped DEF Position
  <2>3. \A uses, out, back :
          /\ Deal(uses, out, back)
          /\ out \subseteq {CuDieOf(cu), Error} \cup {Kid(d) : d \in Nat}
          => live' \subseteq Nat \X {"unit", "child", "error"} \X Nat
    BY <2>2 DEF Deal, CuDieOf, Error, Kid, Counted
  <2>4. CASE NextHeader
    BY <2>3, <2>4 DEF NextHeader, Return, Counted
  <2>5. CASE CuDie
    BY <2>3, <2>5 DEF CuDie, Counted
  <2>6. CASE FirstChild
    BY <2>3, <2>6 DEF FirstChild, Counted
  <2>7. CASE Tag
    BY <2>3, <2>7 DEF Tag, TagFails, Counted
  <2>8. CASE LowPc
    BY <2>3, <2>8 DEF LowPc, Counted
  <2>9. CASE HighPc
    BY <2>3, <2>9 DEF HighPc, Counted
  <2>10. CASE NextSibling
    <3>1. Sibling \in Nat
      BY DEF Sibling, Counted
    <3>2. QED
      BY <2>3, <2>10, <3>1 DEF NextSibling, Counted
  <2>11. CASE HiloError \/ HiloFailed \/ WalkError
    BY <2>3, <2>11 DEF HiloError, HiloFailed, WalkError, Counted
  <2>12. CASE LeaveUnit \/ ForeachError
    BY <2>3, <2>12 DEF LeaveUnit, ForeachError, Return, Counted
  <2>13. CASE UNCHANGED vars
    BY <2>13 DEF vars, Counted
  <2>14. QED
    BY <2>1, <2>4, <2>5, <2>6, <2>7, <2>8, <2>9, <2>10, <2>11, <2>12, <2>13
       DEF Next, Step, Returned
<1>3. Position /\ Counted /\ starved \in BOOLEAN => TypeOK
  <2> SUFFICES ASSUME Position, Counted, starved \in BOOLEAN PROVE TypeOK
    OBVIOUS
  <2> USE DEF Looking
  <2>1. pc \in Looking => die \in DOMAIN tree[cu].children
    <3>1. SUFFICES ASSUME pc \in Looking
                   PROVE  die \in DOMAIN tree[cu].children
      OBVIOUS
    <3>2. tree \in Trees /\ cu \in 1 .. Len(tree) /\ die \in 1 .. Len(tree[cu].children)
      BY <3>1 DEF Position
    <3>3. tree \in Seq([hasDie : BOOLEAN, children : Seq(Dies)])
      BY <3>2, TreesAssumption
    <3> DEFINE U == [hasDie : BOOLEAN, children : Seq(Dies)]
    <3>4. tree[cu] \in U
      <4>1. tree \in Seq(U)
        BY <3>3
      <4> HIDE DEF U
      <4>2. QED
        BY <3>2, <4>1
    <3>5. tree[cu].children \in Seq(Dies)
      BY <3>4
    <3>6. QED
      BY <3>2, <3>5
  <2>2. QED
    BY <2>1 DEF Position, Counted, TypeOK
<1>4. QED
  BY <1>1, <1>2, <1>3, StarvedIsBoolean, PTL DEF Spec

-----------------------------------------------------------------------------

(***************************************************************************)
(* What the walk has already come to: everything, once it has ended.       *)
(***************************************************************************)
Passed(p) ==
  /\ pc \in {"left", "header"} => p[1] <= cu
  /\ pc \in {"cudie", "child"} => p[1] < cu
  /\ pc \in {"tag", "lowpc", "highpc", "function"} =>
       p[1] < cu \/ (p[1] = cu /\ p[2] < die)
  /\ pc = "sibling" => p[1] < cu \/ (p[1] = cu /\ p[2] <= die)

(***************************************************************************)
(* What a call of libdwarf has established of the child at hand.           *)
(***************************************************************************)
Learnt ==
  /\ pc \in {"child"} \cup Looking => tree[cu].hasDie
  /\ pc \in {"lowpc", "highpc", "function"} => Child.subprogram
  /\ pc \in {"highpc", "function"} => Child.lo # NoPc
  /\ pc = "function" => Child.hi # NoPc

(***************************************************************************)
(* ListIsPicked with what makes it inductive: nothing was picked that the  *)
(* walk has not come to yet.                                               *)
(***************************************************************************)
PickedFromPassed ==
  \E at \in [DOMAIN list -> Told] :
    /\ IsPickedAt(at)
    /\ \A i \in DOMAIN list : Passed(at[i])

PickInv == Learnt /\ list \in Seq(Records) /\ PickedFromPassed

LEMMA PickInit == Init => PickInv
<1> SUFFICES ASSUME Init PROVE PickInv
  OBVIOUS
<1>1. list = <<>> /\ DOMAIN list = {} /\ list \in Seq(Records)
  BY DEF Init
<1>2. [i \in {} |-> 0] \in [DOMAIN list -> Told]
  BY <1>1
<1>3. PickedFromPassed
  BY <1>1, <1>2 DEF PickedFromPassed, IsPickedAt
<1>4. QED
  BY <1>1, <1>3 DEF PickInv, Learnt, Init, Looking

LEMMA ToldAreNumbered ==
  ASSUME Position, NEW p \in Told
  PROVE  /\ p[1] \in Nat /\ p[2] \in Nat
         /\ p[1] <= Len(tree)
         /\ p[2] <= Len(tree[p[1]].children)
<1>1. PICK c \in { u \in DOMAIN tree : tree[u].hasDie } :
        \E d \in DOMAIN tree[c].children : p = <<c, d>>
  BY DEF Told
<1>2. PICK d \in DOMAIN tree[c].children : p = <<c, d>>
  BY <1>1
<1> DEFINE U == [hasDie : BOOLEAN, children : Seq(Dies)]
<1>3. tree \in Seq(U)
  BY TreesAssumption DEF Position
<1>4. c \in 1 .. Len(tree) /\ tree[c] \in U /\ Len(tree) \in Nat
  <2> HIDE DEF U
  <2> QED
    BY <1>1, <1>3
<1>5. tree[c].children \in Seq(Dies)
  BY <1>4
<1>6. d \in 1 .. Len(tree[c].children) /\ Len(tree[c].children) \in Nat
  <2> DEFINE s == tree[c].children
  <2>1. s \in Seq(Dies) /\ d \in DOMAIN s
    BY <1>5, <1>2
  <2> HIDE DEF s
  <2>2. d \in 1 .. Len(s) /\ Len(s) \in Nat
    BY <2>1
  <2>3. QED
    BY <2>2 DEF s
<1>7. p[1] = c /\ p[2] = d
  BY <1>2
<1>8. QED
  BY <1>4, <1>6, <1>7

(***************************************************************************)
(* The child at hand is one of those the callback is told of.              *)
(***************************************************************************)
LEMMA ChildIsTold ==
  ASSUME Position, Learnt, pc = "function"
  PROVE  <<cu, die>> \in Told
<1> DEFINE U == [hasDie : BOOLEAN, children : Seq(Dies)]
<1>1. tree \in Seq(U) /\ cu \in 1 .. Len(tree) /\ tree[cu].hasDie
  BY TreesAssumption DEF Position, Learnt, Looking
<1>2. cu \in DOMAIN tree /\ tree[cu] \in U
  <2> HIDE DEF U
  <2> QED
    BY <1>1
<1>3. tree[cu].children \in Seq(Dies) /\ die \in 1 .. Len(tree[cu].children)
  BY <1>2 DEF Position, Looking
<1>4. die \in DOMAIN tree[cu].children
  BY <1>3
<1>5. IsFunction(tree[cu].children[die])
  BY DEF Learnt, Child, IsFunction
<1>6. QED
  BY <1>1, <1>2, <1>4, <1>5 DEF Told

(***************************************************************************)
(* A step that leaves the list alone and goes forward keeps the picking.   *)
(***************************************************************************)
LEMMA PickKept ==
  ASSUME PickedFromPassed, tree' = tree, list' = list,
         \A p \in Told : Passed(p) => Passed(p)'
  PROVE  PickedFromPassed'
<1>1. PICK at \in [DOMAIN list -> Told] :
        IsPickedAt(at) /\ \A i \in DOMAIN list : Passed(at[i])
  BY DEF PickedFromPassed
<1>2. Told' = Told
  BY DEF Told
<1>3. at \in [DOMAIN list' -> Told']
  BY <1>1, <1>2
<1>4. IsPickedAt(at)'
  BY <1>1 DEF IsPickedAt
<1>5. \A i \in DOMAIN list' : Passed(at[i])'
  <2> TAKE i \in DOMAIN list'
  <2>1. at[i] \in Told /\ Passed(at[i])
    BY <1>1
  <2>2. QED
    BY <2>1
<1>6. QED
  BY <1>3, <1>4, <1>5 DEF PickedFromPassed

(***************************************************************************)
(* process_function() adds the child at hand behind what was picked.       *)
(***************************************************************************)
LEMMA PickAdds ==
  ASSUME Position, PickInv, pc = "function", pc' = "sibling",
         UNCHANGED <<tree, cu, die>>,
         list' = Append(list, Record(Child))
  PROVE  PickedFromPassed'
<1>1. PICK at \in [DOMAIN list -> Told] :
        IsPickedAt(at) /\ \A i \in DOMAIN list : Passed(at[i])
  BY DEF PickInv, PickedFromPassed
<1>2. <<cu, die>> \in Told /\ Told' = Told
  BY ChildIsTold DEF PickInv, Told
<1> DEFINE n == Len(list) + 1
<1>3. /\ n \in Nat
      /\ DOMAIN list = 1 .. n - 1
      /\ DOMAIN list' = 1 .. n
      /\ list'[n] = Record(Child)
      /\ \A i \in 1 .. n - 1 : list'[i] = list[i]
  <2>1. list \in Seq(Records) /\ Record(Child) \in Records
    BY RecordIsRecord DEF PickInv
  <2>2. QED
    BY <2>1
<1> HIDE DEF n
<1>4. PICK more \in [DOMAIN list' -> Told'] :
        more = [i \in 1 .. n |-> IF i = n THEN <<cu, die>> ELSE at[i]]
  <2>1. \A i \in 1 .. n : i = n \/ i \in DOMAIN list
    BY <1>3
  <2>2. \A i \in 1 .. n : (IF i = n THEN <<cu, die>> ELSE at[i]) \in Told
    BY <2>1, <1>1, <1>2
  <2>3. [i \in 1 .. n |-> IF i = n THEN <<cu, die>> ELSE at[i]] \in [1 .. n -> Told]
    BY <2>2
  <2>4. QED
    BY <2>3, <1>2, <1>3
<1>5. /\ more[n] = <<cu, die>>
      /\ \A i \in 1 .. n - 1 : more[i] = at[i]
  BY <1>3, <1>4
<1>6. /\ \A i \in 1 .. n - 1 : list[i] = Record(tree[at[i][1]].children[at[i][2]])
      /\ \A i, j \in 1 .. n - 1 : i < j => Before(at[i], at[j])
      /\ \A i \in 1 .. n - 1 : Passed(at[i]) /\ at[i] \in Told
  BY <1>1, <1>3 DEF IsPickedAt
<1>7. \A i \in 1 .. n : list'[i] = Record(tree[more[i][1]].children[more[i][2]])
  <2> SUFFICES ASSUME NEW i \in 1 .. n
               PROVE  list'[i] = Record(tree[more[i][1]].children[more[i][2]])
    OBVIOUS
  <2>1. CASE i = n
    BY <2>1, <1>3, <1>5 DEF Child
  <2>2. CASE i # n
    <3>1. i \in 1 .. n - 1
      BY <2>2, <1>3
    <3>2. QED
      BY <3>1, <1>3, <1>5, <1>6
  <2>3. QED
    BY <2>1, <2>2
<1>8. \A i \in 1 .. n - 1 : Before(at[i], <<cu, die>>)
  BY <1>6 DEF Passed, Before
<1>9. \A i, j \in 1 .. n : i < j => Before(more[i], more[j])
  <2> SUFFICES ASSUME NEW i \in 1 .. n, NEW j \in 1 .. n, i < j
               PROVE  Before(more[i], more[j])
    OBVIOUS
  <2>1. i \in 1 .. n - 1
    BY <1>3
  <2>2. CASE j = n
    BY <2>1, <2>2, <1>5, <1>8
  <2>3. CASE j # n
    <3>1. j \in 1 .. n - 1
      BY <2>3, <1>3
    <3>2. QED
      BY <2>1, <3>1, <1>5, <1>6
  <2>4. QED
    BY <2>2, <2>3
<1>10. \A i \in 1 .. n : Passed(more[i])'
  <2> SUFFICES ASSUME NEW i \in 1 .. n PROVE Passed(more[i])'
    OBVIOUS
  <2>0. cu \in Nat /\ die \in Nat
    BY ToldAreNumbered, <1>2
  <2>1. CASE i = n
    BY <2>0, <2>1, <1>5 DEF Passed
  <2>2. CASE i # n
    <3>1. i \in 1 .. n - 1
      BY <2>2, <1>3
    <3>2. Passed(at[i]) /\ at[i][2] \in Nat
      BY <3>1, <1>6, ToldAreNumbered
    <3>3. at[i][1] < cu \/ (at[i][1] = cu /\ at[i][2] <= die)
      BY <3>2, <2>0 DEF Passed
    <3>4. QED
      BY <3>1, <3>3, <1>5 DEF Passed
  <2>3. QED
    BY <2>1, <2>2
<1>11. IsPickedAt(more)'
  BY <1>3, <1>7, <1>9 DEF IsPickedAt
<1>12. QED
  BY <1>3, <1>4, <1>10, <1>11 DEF PickedFromPassed

LEMMA LearntStep ==
  ASSUME Learnt, Position, [Next]_vars
  PROVE  Learnt'
<1> USE DEF Looking, walk
<1>1. CASE NextHeader
  BY <1>1 DEF NextHeader, Return, Learnt
<1>2. CASE CuDie
  BY <1>2 DEF CuDie, Learnt
<1>3. CASE FirstChild
  BY <1>3 DEF FirstChild, Learnt
<1>4. CASE Tag
  BY <1>4 DEF Tag, TagFails, Learnt, Child
<1>5. CASE LowPc
  BY <1>5 DEF LowPc, Learnt, Child
<1>6. CASE HighPc
  BY <1>6 DEF HighPc, Learnt, Child
<1>7. CASE ProcessFunction
  BY <1>7 DEF ProcessFunction, Learnt
<1>8. CASE NextSibling
  BY <1>8 DEF NextSibling, Learnt
<1>9. CASE HiloError \/ HiloFailed \/ WalkError \/ LeaveUnit \/ ForeachError
  BY <1>9 DEF HiloError, HiloFailed, WalkError, LeaveUnit, ForeachError, Return, Learnt
<1>10. CASE UNCHANGED vars
  BY <1>10 DEF vars, Learnt, Child
<1>11. QED
  BY <1>1, <1>2, <1>3, <1>4, <1>5, <1>6, <1>7, <1>8, <1>9, <1>10
     DEF Next, Step, Returned

(***************************************************************************)
(* Every step but process_function() only goes forward.                    *)
(***************************************************************************)
LEMMA WalkGoesForward ==
  ASSUME Position, [Next]_vars, ~ProcessFunction, NEW p \in Told, Passed(p)
  PROVE  Passed(p)'
<1> USE DEF walk
<1>1. /\ p[1] \in Nat /\ p[2] \in Nat
      /\ p[1] <= Len(tree)
      /\ p[2] <= Len(tree[p[1]].children)
  BY ToldAreNumbered
<1>2. cu \in Nat
  BY EntriesAreTyped DEF Position
<1>3. pc \in Looking => die \in Nat
  BY ChildIsNumbered
<1>4. CASE NextHeader
  BY <1>1, <1>2, <1>4 DEF NextHeader, Return, Passed
<1>5. CASE CuDie
  BY <1>1, <1>2, <1>5 DEF CuDie, Passed
<1>6. CASE FirstChild
  BY <1>1, <1>2, <1>6 DEF FirstChild, Passed
<1>7. CASE Tag
  BY <1>1, <1>2, <1>3, <1>7 DEF Tag, TagFails, Passed, Looking
<1>8. CASE LowPc
  BY <1>1, <1>2, <1>3, <1>8 DEF LowPc, Passed, Looking
<1>9. CASE HighPc
  BY <1>1, <1>2, <1>3, <1>9 DEF HighPc, Passed, Looking
<1>10. CASE NextSibling
  <2>1. die \in Nat
    BY <1>3, <1>10 DEF NextSibling, Looking
  <2>2. p[1] < cu \/ (p[1] = cu /\ p[2] <= die)
    BY <1>10 DEF NextSibling, Passed
  <2>3. QED
    BY <1>1, <1>2, <1>10, <2>1, <2>2 DEF NextSibling, Sibling, Passed
<1>11. CASE HiloError \/ HiloFailed \/ WalkError \/ LeaveUnit \/ ForeachError
  BY <1>1, <1>2, <1>11
     DEF HiloError, HiloFailed, WalkError, LeaveUnit, ForeachError, Return, Passed
<1>12. CASE UNCHANGED vars
  BY <1>12 DEF vars, Passed
<1>13. QED
  BY <1>4, <1>5, <1>6, <1>7, <1>8, <1>9, <1>10, <1>11, <1>12 DEF Next, Step, Returned

(***************************************************************************)
(* What is listed are functions of the debug information, each taken once  *)
(* at most and in its order, wherever an error cuts the walk short; for    *)
(* any debug information (metadata_dwarf.c:104-225, rave.c:49-81).         *)
(***************************************************************************)
THEOREM ListingPicks == Spec => []ListIsPicked
<1>1. Init => Position /\ PickInv
  BY PositionInit, PickInit
<1>2. Position /\ PickInv /\ [Next]_vars => Position' /\ PickInv'
  <2> SUFFICES ASSUME Position, PickInv, [Next]_vars
               PROVE  PickInv'
    BY PositionStep
  <2>1. Learnt'
    BY LearntStep DEF PickInv
  <2>2. CASE ~ProcessFunction
    <3>1. tree' = tree /\ list' = list
      BY <2>2 DEF Next, Step, Returned, vars, NextHeader, CuDie, FirstChild,
         Tag, LowPc, HighPc, HiloError, HiloFailed, NextSibling, WalkError, LeaveUnit,
         ForeachError
    <3>2. PickedFromPassed'
      BY <2>2, <3>1, WalkGoesForward, PickKept DEF PickInv
    <3>3. QED
      BY <2>1, <3>1, <3>2 DEF PickInv
  <2>3. CASE ProcessFunction
    <3>1. pc = "function" /\ pc' = "sibling" /\ UNCHANGED <<tree, cu, die>>
      BY <2>3 DEF ProcessFunction, walk
    <3>2. CASE list' = list
      <4>1. ASSUME NEW p \in Told, Passed(p)
            PROVE  Passed(p)'
        <5>1. p[2] \in Nat /\ die \in Nat
          BY <3>1, ToldAreNumbered DEF Position, Looking
        <5>2. QED
          BY <3>1, <4>1, <5>1 DEF Passed
      <4>2. PickedFromPassed'
        BY <3>1, <3>2, <4>1, PickKept DEF PickInv
      <4>3. QED
        BY <2>1, <3>2, <4>2 DEF PickInv
    <3>3. CASE list' = Append(list, Record(Child))
      <4>1. PickedFromPassed'
        BY <3>1, <3>3, PickAdds
      <4>2. Record(Child) \in Records
        BY <3>1, RecordIsRecord
      <4>3. list' \in Seq(Records)
        BY <3>3, <4>2 DEF PickInv
      <4>4. QED
        BY <2>1, <4>1, <4>3 DEF PickInv
    <3>4. QED
      BY <2>3, <3>2, <3>3 DEF ProcessFunction
  <2>4. QED
    BY <2>2, <2>3
<1>3. PickInv => ListIsPicked
  BY DEF PickInv, PickedFromPassed, ListIsPicked
<1>4. QED
  BY <1>1, <1>2, <1>3, PTL DEF Spec

=============================================================================
