---------------------------- MODULE PermuteProofs ----------------------------
(***************************************************************************)
(* Proofs about Permute, for every program: any number of functions, of    *)
(* registers saved, of epilogues and of list entries, wherever the         *)
(* analysis recorded its sets.  What is said of a function being whole is  *)
(* said of those that are Undisturbed.                                     *)
(***************************************************************************)
EXTENDS Permute, FunctionTheorems, TLAPS

(***************************************************************************)
(* An order is a function on the slots that neither repeats nor misses one *)
(* (what tf->order may hold, transform.c:343-351).                         *)
(***************************************************************************)
LEMMA OrderIsOneToOne ==
  ASSUME NEW n \in Nat, NEW o \in Orders(n)
  PROVE  /\ o \in [SlotsOf(n) -> SlotsOf(n)]
         /\ \A s1, s2 \in SlotsOf(n) : o[s1] = o[s2] => s1 = s2
         /\ \A s \in SlotsOf(n) : \E i \in SlotsOf(n) : o[i] = s
BY Fun_BijectionProperties DEF Orders

(***************************************************************************)
(* Conversely, a one-to-one map of the slots onto themselves is an order.  *)
(***************************************************************************)
LEMMA OneToOneIsOrder ==
  ASSUME NEW n \in Nat, NEW o \in [SlotsOf(n) -> SlotsOf(n)],
         \A s1, s2 \in SlotsOf(n) : o[s1] = o[s2] => s1 = s2,
         \A s \in SlotsOf(n) : \E i \in SlotsOf(n) : o[i] = s
  PROVE  o \in Orders(n)
BY Fun_IsBij DEF Orders

(***************************************************************************)
(* The order a fresh transformable gets (transform.c:349-351) is an order. *)
(***************************************************************************)
LEMMA IdentityIsOrder ==
  ASSUME NEW n \in Nat
  PROVE  Identity(n) \in Orders(n)
BY OneToOneIsOrder DEF Identity

(***************************************************************************)
(* The loop of instr_set_encode_order that stores instruction i at         *)
(* instrs[order[i]] fills every entry of the array once, so no entry is    *)
(* read uninitialised and no instruction is lost (transform.c:478-481).    *)
(***************************************************************************)
LEMMA PlacedIsOrder ==
  ASSUME NEW n \in Nat, NEW o \in Orders(n)
  PROVE  /\ Placed(o, n) \in Orders(n)
         /\ \A s \in SlotsOf(n) : o[Placed(o, n)[s]] = s
         /\ \A i \in SlotsOf(n) : Placed(o, n)[o[i]] = i
<1>1. /\ Placed(o, n) \in Orders(n)
      /\ \A i \in SlotsOf(n) : Placed(o, n)[o[i]] = i
  BY Fun_BijInverse DEF Orders, Placed
<1>2. ASSUME NEW s \in SlotsOf(n)
      PROVE  o[Placed(o, n)[s]] = s
  <2>1. PICK i \in SlotsOf(n) : o[i] = s
    BY OrderIsOneToOne
  <2>2. QED
    BY <2>1, <1>1
<1>3. QED
  BY <1>1, <1>2

(***************************************************************************)
(* eorder is an order whenever tf->order is (transform.c:526-528).         *)
(***************************************************************************)
LEMMA MirrorIsOrder ==
  ASSUME NEW n \in Nat, NEW o \in Orders(n)
  PROVE  Mirror(o, n) \in Orders(n)
<1> DEFINE m == Mirror(o, n)
<1>1. /\ o \in [SlotsOf(n) -> SlotsOf(n)]
      /\ \A s1, s2 \in SlotsOf(n) : o[s1] = o[s2] => s1 = s2
      /\ \A s \in SlotsOf(n) : \E i \in SlotsOf(n) : o[i] = s
  BY OrderIsOneToOne
<1>2. \A s \in SlotsOf(n) : (n - 1) - s \in SlotsOf(n)
  BY DEF SlotsOf
<1>3. \A s \in SlotsOf(n) : m[s] = (n - 1) - o[(n - 1) - s]
  BY DEF Mirror
<1>4. m \in [SlotsOf(n) -> SlotsOf(n)]
  BY <1>1, <1>2 DEF Mirror
<1>5. ASSUME NEW s1 \in SlotsOf(n), NEW s2 \in SlotsOf(n), m[s1] = m[s2]
      PROVE  s1 = s2
  <2>1. o[(n - 1) - s1] \in SlotsOf(n) /\ o[(n - 1) - s2] \in SlotsOf(n)
    BY <1>1, <1>2
  <2>2. o[(n - 1) - s1] = o[(n - 1) - s2]
    BY <1>3, <1>5, <2>1 DEF SlotsOf
  <2>3. (n - 1) - s1 = (n - 1) - s2
    BY <1>1, <1>2, <2>2
  <2>4. QED
    BY <2>3 DEF SlotsOf
<1>6. ASSUME NEW s \in SlotsOf(n)
      PROVE  \E i \in SlotsOf(n) : m[i] = s
  <2>1. PICK i \in SlotsOf(n) : o[i] = (n - 1) - s
    BY <1>1, <1>2
  <2>2. m[(n - 1) - i] = s
    <3>1. (n - 1) - ((n - 1) - i) = i
      BY DEF SlotsOf
    <3>2. m[(n - 1) - i] = (n - 1) - o[i]
      BY <1>2, <1>3, <3>1
    <3>3. QED
      BY <2>1, <3>2 DEF SlotsOf
  <2>3. QED
    BY <1>2, <2>2
<1>7. QED
  BY <1>4, <1>5, <1>6, OneToOneIsOrder

(***************************************************************************)
(* The comment at transform.c:524 in full: whatever the order, the         *)
(* epilogue laid out by eorder undoes the prologue laid out by tf->order.  *)
(***************************************************************************)
THEOREM MirrorUndoes ==
  ASSUME NEW n \in Nat, NEW o \in Orders(n)
  PROVE  Undoes(Placed(Mirror(o, n), n), Placed(o, n), n)
<1> DEFINE p == Placed(o, n)
           m == Mirror(o, n)
           e == Placed(m, n)
<1>1. \A s \in SlotsOf(n) : p[s] \in SlotsOf(n) /\ o[p[s]] = s
  BY PlacedIsOrder, OrderIsOneToOne
<1>2. m \in Orders(n) /\ \A i \in SlotsOf(n) : e[m[i]] = i
  BY MirrorIsOrder, PlacedIsOrder
<1>3. ASSUME NEW s \in SlotsOf(n)
      PROVE  e[Partner(s, n)] = Partner(p[s], n)
  <2>1. Partner(p[s], n) \in SlotsOf(n)
    BY <1>1 DEF Partner, SlotsOf
  <2>2. (n - 1) - Partner(p[s], n) = p[s]
    BY <1>1 DEF Partner, SlotsOf
  <2>3. m[Partner(p[s], n)] = (n - 1) - o[p[s]]
    BY <2>1, <2>2 DEF Mirror
  <2>4. m[Partner(p[s], n)] = Partner(s, n)
    BY <1>1, <2>3 DEF Partner
  <2>5. QED
    BY <1>2, <2>1, <2>4
<1>4. QED
  BY <1>3 DEF Undoes
-----------------------------------------------------------------------------

LEMMA SizeIsNat == \A r \in Regions : Size[r] \in Nat /\ NumEpis[r] \in Nat
BY SizeAssumption, NumEpisAssumption

LEMMA CellsAreTriples ==
  /\ \A r \in Regions : \A e \in SetsOf(r) : \A s \in SlotsOf(Size[r]) :
       <<r, e, s>> \in Cells
  /\ \A c \in Cells : /\ c[1] \in Regions
                      /\ c[2] \in SetsOf(c[1])
                      /\ c[3] \in SlotsOf(Size[c[1]])
                      /\ c = <<c[1], c[2], c[3]>>
BY DEF Cells

(***************************************************************************)
(* The compiled text holds, at the address of each cell, the instruction   *)
(* of that cell: no two cells share an address.                            *)
(***************************************************************************)
LEMMA OriginalAtCells ==
  ASSUME NEW r \in Regions, NEW e \in SetsOf(r), NEW s \in SlotsOf(Size[r])
  PROVE  /\ CellAddr(r, e, s) \in Addrs
         /\ Original[CellAddr(r, e, s)] = InstrOf(r, e, s)
<1> DEFINE a == CellAddr(r, e, s)
<1>1. a \in Addrs
  BY PlaceAssumption
<1>2. \E c \in Cells : CellAddr(c[1], c[2], c[3]) = a
  <2>1. <<r, e, s>> \in Cells
    BY CellsAreTriples
  <2>2. QED
    BY <2>1
<1>3. CellAt(a) \in Cells /\ CellAddr(CellAt(a)[1], CellAt(a)[2], CellAt(a)[3]) = a
  BY <1>2 DEF CellAt
<1>4. CellAt(a)[1] = r /\ CellAt(a)[2] = e /\ CellAt(a)[3] = s
  <2> DEFINE c == CellAt(a)
  <2>1. c[1] \in Regions /\ c[2] \in SetsOf(c[1]) /\ c[3] \in SlotsOf(Size[c[1]])
    BY <1>3, CellsAreTriples
  <2>2. CellAddr(c[1], c[2], c[3]) = CellAddr(r, e, s)
    BY <1>3
  <2>3. QED
    BY <2>1, <2>2, PlaceAssumption
<1>5. QED
  BY <1>1, <1>2, <1>4 DEF Original

LEMMA OriginalInContents == Original \in [Addrs -> Contents]
<1>1. ASSUME NEW a \in Addrs, \E c \in Cells : CellAddr(c[1], c[2], c[3]) = a
      PROVE  InstrOf(CellAt(a)[1], CellAt(a)[2], CellAt(a)[3]) \in Contents
  <2>1. CellAt(a) \in Cells
    BY <1>1 DEF CellAt
  <2>2. QED
    BY <2>1 DEF Contents
<1>2. QED
  BY <1>1 DEF Original, Contents

(***************************************************************************)
(* Whether a function is whole depends on the text of its own cells only.  *)
(***************************************************************************)
LEMMA ConsistentIsLocal ==
  ASSUME NEW r \in Regions, NEW t1, NEW t2, Consistent(CodeIn(t1), r),
         \A e \in SetsOf(r) : \A s \in SlotsOf(Size[r]) :
           t2[CellAddr(r, e, s)] = t1[CellAddr(r, e, s)]
  PROVE  Consistent(CodeIn(t2), r)
<1>1. PICK p \in Orders(Size[r]) : LaidOut(CodeIn(t1), r, p)
  BY DEF Consistent
<1>2. \A e \in SetsOf(r) : \A s \in SlotsOf(Size[r]) :
        CodeIn(t2)[<<r, e, s>>] = CodeIn(t1)[<<r, e, s>>]
  BY CellsAreTriples DEF CodeIn
<1>3. \A s \in SlotsOf(Size[r]) : Partner(s, Size[r]) \in SlotsOf(Size[r])
  BY SizeIsNat DEF Partner, SlotsOf
<1>4. 0 \in SetsOf(r)
  BY SizeIsNat DEF SetsOf
<1>5. LaidOut(CodeIn(t2), r, p)
  BY <1>1, <1>2, <1>3, <1>4 DEF LaidOut
<1>6. QED
  BY <1>5 DEF Consistent

(***************************************************************************)
(* A function whose prologue is laid out by an order and whose epilogues   *)
(* by its mirror is whole.                                                 *)
(***************************************************************************)
LEMMA MirroredIsConsistent ==
  ASSUME NEW r \in Regions, NEW t, NEW o \in Orders(Size[r]),
         \A s \in SlotsOf(Size[r]) :
           t[CellAddr(r, 0, s)] = InstrOf(r, 0, Placed(o, Size[r])[s]),
         \A e \in SetsOf(r) \ {0} : \A s \in SlotsOf(Size[r]) :
           t[CellAddr(r, e, s)] =
             InstrOf(r, e, Placed(Mirror(o, Size[r]), Size[r])[s])
  PROVE  Consistent(CodeIn(t), r)
<1> DEFINE n == Size[r]
           p == Placed(o, n)
           q == Placed(Mirror(o, n), n)
<1>1. n \in Nat /\ p \in Orders(n) /\ 0 \in SetsOf(r)
  BY SizeIsNat, PlacedIsOrder DEF SetsOf
<1>2. \A s \in SlotsOf(n) : /\ p[s] \in SlotsOf(n)
                            /\ Partner(s, n) \in SlotsOf(n)
                            /\ Partner(Partner(p[s], n), n) = p[s]
  <2>1. \A s \in SlotsOf(n) : p[s] \in SlotsOf(n)
    BY <1>1, OrderIsOneToOne
  <2>2. QED
    BY <1>1, <2>1 DEF Partner, SlotsOf
<1>3. \A s \in SlotsOf(n) : q[Partner(s, n)] = Partner(p[s], n)
  BY <1>1, MirrorUndoes DEF Undoes
<1>4. ASSUME NEW s \in SlotsOf(n)
      PROVE  CodeIn(t)[<<r, 0, s>>] = Push(Saved[r][p[s]])
  <2>1. CodeIn(t)[<<r, 0, s>>] = t[CellAddr(r, 0, s)]
    BY <1>1, CellsAreTriples DEF CodeIn
  <2>2. QED
    BY <2>1 DEF InstrOf
<1>5. ASSUME NEW s \in SlotsOf(n), NEW e \in SetsOf(r) \ {0}
      PROVE  CodeIn(t)[<<r, e, Partner(s, n)>>] = Pop(Saved[r][p[s]])
  <2>1. CodeIn(t)[<<r, e, Partner(s, n)>>] = t[CellAddr(r, e, Partner(s, n))]
    BY <1>2, CellsAreTriples DEF CodeIn
  <2>2. t[CellAddr(r, e, Partner(s, n))] = InstrOf(r, e, q[Partner(s, n)])
    BY <1>2
  <2>3. InstrOf(r, e, q[Partner(s, n)]) = Pop(Saved[r][Partner(Partner(p[s], n), n)])
    BY <1>3 DEF InstrOf
  <2>4. QED
    BY <1>2, <2>1, <2>2, <2>3
<1>6. LaidOut(CodeIn(t), r, p)
  BY <1>4, <1>5 DEF LaidOut
<1>7. QED
  BY <1>1, <1>6 DEF Consistent

(***************************************************************************)
(* The list has a length, and its entries are functions.                   *)
(***************************************************************************)
LEMMA ListIsTyped ==
  ASSUME TypeOK
  PROVE  /\ last \in Nat
         /\ \A t \in Tfs : RegionOf[t] \in Regions
BY LengthsAssumption, RegionOfAssumption DEF TypeOK, Tfs

(***************************************************************************)
(* Every instruction that permute() chooses for a slot is one of the       *)
(* program's, and the chosen array is never read where it was not written. *)
(***************************************************************************)
LEMMA ChosenIsInstr ==
  ASSUME TypeOK, pc = "encode", NEW e \in SetsOf(Here),
         NEW s \in SlotsOf(Size[Here])
  PROVE  Chosen(e, s) \in Contents
<1> DEFINE n == Size[Here]
<1>1. Here \in Regions /\ n \in Nat /\ order[cur] \in Orders(n)
  BY RegionOfAssumption, SizeIsNat DEF TypeOK, Here, Tfs
<1>2. SetOrder(e) \in Orders(n)
  BY <1>1, MirrorIsOrder DEF SetOrder
<1>3. Placed(SetOrder(e), n)[s] \in SlotsOf(n)
  BY <1>1, <1>2, PlacedIsOrder, OrderIsOneToOne
<1>4. <<Here, e, Placed(SetOrder(e), n)[s]>> \in Cells
  BY <1>1, <1>3, CellsAreTriples
<1>5. QED
  BY <1>4 DEF Contents, Chosen

(***************************************************************************)
(* The invariant holds of the program as compiled.                         *)
(***************************************************************************)
LEMMA InitIndInv ==
  ASSUME Init
  PROVE  IndInv
<1>1. TypeOK
  <2>1. \A t \in Tfs : order[t] \in Orders(Size[RegionOf[t]])
    BY RegionOfAssumption, SizeIsNat, IdentityIsOrder DEF Init, Tfs
  <2>2. QED
    BY <2>1, OriginalInContents, LengthsAssumption DEF Init, TypeOK
<1>2. ASSUME NEW r \in Regions
      PROVE  Consistent(CodeIn(text), r)
  <2> DEFINE n == Size[r]
  <2>1. n \in Nat /\ 0 \in SetsOf(r)
    BY SizeIsNat DEF SetsOf
  <2>2. \A e \in SetsOf(r) : \A s \in SlotsOf(n) :
          CodeIn(text)[<<r, e, s>>] = InstrOf(r, e, s)
    BY CellsAreTriples, OriginalAtCells DEF Init, CodeIn
  <2>3. \A s \in SlotsOf(n) : /\ Identity(n)[s] = s
                              /\ Partner(s, n) \in SlotsOf(n)
                              /\ Partner(Partner(s, n), n) = s
    BY <2>1 DEF Identity, Partner, SlotsOf
  <2>4. LaidOut(CodeIn(text), r, Identity(n))
    BY <2>1, <2>2, <2>3 DEF LaidOut, InstrOf
  <2>5. QED
    BY <2>1, <2>4, IdentityIsOrder DEF Consistent
<1>3. Written /\ TornIsAhead /\ TornIsUntouched /\ SeenWhenIdle
  BY DEF Init, Written, TornIsAhead, TornIsUntouched, SeenWhenIdle
<1>4. QED
  BY <1>1, <1>2, <1>3 DEF IndInv, WholeUnlessTorn, Undisturbed

(***************************************************************************)
(* Only a function with a set recorded past its place can disturb another: *)
(* where every function has been recorded in place, what is said below of  *)
(* the undisturbed ones is said of all.                                    *)
(***************************************************************************)
LEMMA OnlyDriftDisturbs ==
  ASSUME NEW r \in Regions, InPlace(r),
         \A q \in Regions \ {r} : \A e \in SetsOf(q) : \A s \in SlotsOf(Size[q]) :
           Rec[q][e] = Place[q][e]
             \/ \A e1 \in SetsOf(r) : \A s1 \in SlotsOf(Size[r]) :
                  Rec[q][e] + s # CellAddr(r, e1, s1)
  PROVE  r \in Undisturbed
<1> DEFINE Own == {CellAddr(r, c[1], c[2]) : c \in SetsOf(r) \X SlotsOf(Size[r])}
<1>1. ASSUME NEW q \in Regions \ {r}, NEW e \in SetsOf(q),
             NEW s \in SlotsOf(Size[q]),
             NEW e1 \in SetsOf(r), NEW s1 \in SlotsOf(Size[r])
      PROVE  Rec[q][e] + s # CellAddr(r, e1, s1)
  <2>1. CASE Rec[q][e] = Place[q][e]
    <3>1. Rec[q][e] + s = CellAddr(q, e, s)
      BY <2>1 DEF CellAddr
    <3>2. QED
      BY <3>1, PlaceAssumption
  <2>2. CASE Rec[q][e] # Place[q][e]
    BY <2>2
  <2>3. QED
    BY <2>1, <2>2
<1>2. ASSUME NEW q \in Regions \ {r}, NEW e \in SetsOf(q), NEW a \in Own
      PROVE  a \notin WrittenBy(q, e)
  <2>1. PICK c \in SetsOf(r) \X SlotsOf(Size[r]) : a = CellAddr(r, c[1], c[2])
    BY <1>2
  <2>2. c[1] \in SetsOf(r) /\ c[2] \in SlotsOf(Size[r])
    OBVIOUS
  <2>3. QED
    BY <1>1, <2>1, <2>2 DEF WrittenBy
<1>3. \A q \in Regions \ {r} : \A e \in SetsOf(q) : WrittenBy(q, e) \cap Own = {}
  BY <1>2
<1>4. QED
  BY <1>3 DEF Undisturbed

(***************************************************************************)
(* One encoded instruction: it goes to an address that the set's recorded  *)
(* start says, and of the cells of an undisturbed function it changes none *)
(* but its own.                                                            *)
(***************************************************************************)
LEMMA EncodeAtWork ==
  ASSUME TypeOK, Encode
  PROVE  /\ Here \in Regions /\ set \in SetsOf(Here)
         /\ slot \in SlotsOf(Size[Here])
         /\ Target(set, slot) \in WrittenBy(Here, set)
<1>1. /\ Here \in Regions /\ set \in SetsOf(Here)
      /\ slot \in SlotsOf(Size[Here])
  BY RegionOfAssumption, SizeIsNat DEF TypeOK, Encode, Here, Tfs, SlotsOf
<1>2. QED
  BY <1>1 DEF Encode, Target, WrittenBy

LEMMA EncodeWritesOneCell ==
  ASSUME TypeOK, Encode, NEW r \in Undisturbed, NEW e \in SetsOf(r),
         NEW s \in SlotsOf(Size[r])
  PROVE  /\ r = Here /\ e = set /\ s = slot =>
              text'[CellAddr(r, e, s)] = Chosen(e, s)
         /\ r # Here \/ e # set \/ s # slot =>
              text'[CellAddr(r, e, s)] = text[CellAddr(r, e, s)]
<1>1. /\ Here \in Regions /\ set \in SetsOf(Here)
      /\ slot \in SlotsOf(Size[Here])
      /\ Target(set, slot) \in WrittenBy(Here, set)
  BY EncodeAtWork
<1>2. r \in Regions /\ InPlace(r) /\ CellAddr(r, e, s) \in Addrs
  BY PlaceAssumption DEF Undisturbed
<1>3. text' = [text EXCEPT ![Target(set, slot)] = Chosen(set, slot)]
  BY DEF Encode
<1>4. CASE r = Here
  <2>1. Target(set, slot) = CellAddr(Here, set, slot)
    BY <1>1, <1>2, <1>4 DEF Target, InPlace, CellAddr
  <2>2. e # set \/ s # slot => CellAddr(r, e, s) # CellAddr(Here, set, slot)
    BY <1>1, <1>2, PlaceAssumption
  <2>3. QED
    BY <1>2, <1>3, <1>4, <2>1, <2>2 DEF TypeOK
<1>5. CASE r # Here
  <2>1. CellAddr(r, e, s) \in
          {CellAddr(r, c[1], c[2]) : c \in SetsOf(r) \X SlotsOf(Size[r])}
    <3>1. <<e, s>> \in SetsOf(r) \X SlotsOf(Size[r])
      OBVIOUS
    <3>2. CellAddr(r, e, s) = CellAddr(r, <<e, s>>[1], <<e, s>>[2])
      OBVIOUS
    <3>3. QED
      BY <3>1, <3>2
  <2>2. CellAddr(r, e, s) # Target(set, slot)
    BY <1>1, <1>5, <2>1 DEF Undisturbed
  <2>3. QED
    BY <1>2, <1>3, <1>5, <2>2 DEF TypeOK
<1>6. QED
  BY <1>4, <1>5

LEMMA TypeOKStep ==
  ASSUME TypeOK, [Next]_vars
  PROVE  TypeOK'
<1> USE DEF Tfs
<1>0. last \in Nat /\ \A t \in Tfs : RegionOf[t] \in Regions
  BY ListIsTyped
<1>1. CASE Call
  BY <1>1 DEF Call, TypeOK, Here
<1>2. CASE BeginFunction
  <2>1. PICK o \in Orders(Size[Here]) : order' = [order EXCEPT ![cur] = o]
    BY <1>2 DEF BeginFunction
  <2>2. Here \in Regions /\ Here' = Here /\ Size[Here] \in Nat
          /\ NumEpis[Here] \in Nat
    BY <1>0, <1>2, SizeIsNat DEF BeginFunction, Here
  <2>3. \A t \in Tfs : order'[t] \in Orders(Size[RegionOf[t]])
    BY <1>2, <2>1 DEF BeginFunction, TypeOK, Here
  <2>4. DOMAIN order' = Tfs
    BY <2>1 DEF TypeOK
  <2>5. set' \in SetsOf(Here) /\ slot' \in 0 .. Size[Here]
    BY <1>2, <2>2 DEF BeginFunction, TypeOK, SetsOf
  <2>6. QED
    BY <1>2, <2>2, <2>3, <2>4, <2>5 DEF BeginFunction, TypeOK
<1>3. CASE Encode
  <2>1. text' \in [Addrs -> Contents]
    BY <1>3, EncodeAtWork, ChosenIsInstr DEF TypeOK, Encode
  <2>2. slot' \in 0 .. Size[Here] /\ Here' = Here
    BY <1>3, EncodeAtWork, SizeIsNat DEF TypeOK, Encode, Here, SlotsOf
  <2>3. QED
    BY <1>3, <2>1, <2>2 DEF TypeOK, Encode
<1>4. CASE EncodeFails
  BY <1>0, <1>4 DEF EncodeFails, TypeOK
<1>5. CASE NullTarget
  BY <1>5 DEF NullTarget, TypeOK
<1>6. CASE NextSet
  <2>1. Here \in Regions /\ Here' = Here /\ Size[Here] \in Nat
          /\ NumEpis[Here] \in Nat
    BY <1>0, <1>6, SizeIsNat DEF NextSet, TypeOK, Here
  <2>2. set' \in SetsOf(Here) /\ slot' \in 0 .. Size[Here]
    BY <1>6, <2>1 DEF NextSet, TypeOK, SetsOf
  <2>3. QED
    BY <1>6, <2>1, <2>2 DEF NextSet, TypeOK
<1>7. CASE EndFunction
  <2>1. cur' \in 1 .. last + 1
    BY <1>0, <1>7 DEF EndFunction, NextEntry, TypeOK
  <2>2. QED
    BY <1>7, <2>1 DEF EndFunction, TypeOK
<1>8. CASE Return
  BY <1>0, <1>8 DEF Return, TypeOK
<1>9. CASE UNCHANGED vars
  BY <1>9 DEF vars, TypeOK, Here
<1>10. QED
  BY <1>1, <1>2, <1>3, <1>4, <1>5, <1>6, <1>7, <1>8, <1>9 DEF Next, Progress

LEMMA WholeUnlessTornStep ==
  ASSUME IndInv, [Next]_vars
  PROVE  WholeUnlessTorn'
<1> USE DEF IndInv
<1>1. CASE Encode
  <2>1. ASSUME NEW r \in Undisturbed \ torn
        PROVE  Consistent(CodeIn(text'), r)
    <3>1. r # Here /\ r \in Regions
      BY <1>1, <2>1 DEF Encode, Written, Undisturbed
    <3>2. \A e \in SetsOf(r) : \A s \in SlotsOf(Size[r]) :
            text'[CellAddr(r, e, s)] = text[CellAddr(r, e, s)]
      BY <1>1, <3>1, EncodeWritesOneCell
    <3>3. Consistent(CodeIn(text), r)
      BY DEF WholeUnlessTorn
    <3>4. QED
      BY <3>1, <3>2, <3>3, ConsistentIsLocal
  <2>2. torn' = torn
    BY <1>1 DEF Encode
  <2>3. QED
    BY <2>1, <2>2 DEF WholeUnlessTorn, CodeIn
<1>2. CASE EndFunction /\ Here \in Undisturbed
  <2> DEFINE o == order[cur]
  <2>0. Here \in Undisturbed
    BY <1>2
  <2>1. Here \in Regions /\ o \in Orders(Size[Here]) /\ NumEpis[Here] \in Nat
          /\ Size[Here] \in Nat
    BY <1>2, RegionOfAssumption, SizeIsNat DEF EndFunction, TypeOK, Here, Tfs
  <2>2. \A e \in SetsOf(Here) : \A s \in SlotsOf(Size[Here]) :
          text[CellAddr(Here, e, s)] = Chosen(e, s)
    BY <1>2, <2>0, <2>1 DEF EndFunction, Written, SetsOf, SlotsOf
  <2>3. 0 \in SetsOf(Here)
    BY <2>1 DEF SetsOf
  <2>4. \A s \in SlotsOf(Size[Here]) :
          text[CellAddr(Here, 0, s)] = InstrOf(Here, 0, Placed(o, Size[Here])[s])
    BY <2>2, <2>3 DEF Chosen, SetOrder
  <2>5. \A e \in SetsOf(Here) \ {0} : \A s \in SlotsOf(Size[Here]) :
          text[CellAddr(Here, e, s)] =
            InstrOf(Here, e, Placed(Mirror(o, Size[Here]), Size[Here])[s])
    BY <2>2 DEF Chosen, SetOrder
  <2>6. Consistent(CodeIn(text), Here)
    BY <2>1, <2>4, <2>5, MirroredIsConsistent
  <2>7. text' = text /\ torn' = torn \ {Here}
    BY <1>2 DEF EndFunction
  <2>8. QED
    BY <2>6, <2>7 DEF WholeUnlessTorn, CodeIn
<1>3. CASE /\ text' = text
           /\ Undisturbed \ torn' \subseteq Undisturbed \ torn
  BY <1>3 DEF WholeUnlessTorn, CodeIn
<1>4. QED
  BY <1>1, <1>2, <1>3
  DEF Next, Progress, Call, BeginFunction, EncodeFails, NullTarget, NextSet,
      EndFunction, Return, vars

LEMMA WrittenStep ==
  ASSUME IndInv, [Next]_vars
  PROVE  Written'
<1> USE DEF IndInv
<1>1. CASE Encode
  <2>1. Here' = Here /\ pc' = pc /\ set' = set /\ slot' = slot + 1 /\ torn' = torn
          /\ order' = order /\ cur' = cur
    BY <1>1 DEF Encode, Here
  <2>2. ASSUME Here \in Undisturbed,
               NEW e \in SetsOf(Here), NEW s \in SlotsOf(Size[Here]),
               e < set \/ (e = set /\ s < slot + 1)
        PROVE  text'[CellAddr(Here, e, s)] = Chosen(e, s)
    <3>1. CASE e = set /\ s = slot
      BY <1>1, <2>2, <3>1, EncodeWritesOneCell
    <3>2. CASE ~(e = set /\ s = slot)
      <4>1. Size[Here] \in Nat /\ NumEpis[Here] \in Nat
        BY <1>1, EncodeAtWork, SizeIsNat
      <4>2. slot \in Nat /\ set \in Nat /\ s \in Nat /\ e \in Nat
        BY <1>1, <4>1, EncodeAtWork DEF SlotsOf, SetsOf
      <4>3. e < set \/ (e = set /\ s < slot)
        BY <2>2, <3>2, <4>2
      <4>4. text[CellAddr(Here, e, s)] = Chosen(e, s)
        BY <1>1, <2>2, <4>3 DEF Encode, Written
      <4>5. QED
        BY <1>1, <2>2, <3>2, <4>4, EncodeWritesOneCell
    <3>3. QED
      BY <3>1, <3>2
  <2>3. \A e, s : Chosen(e, s)' = Chosen(e, s)
    BY <2>1 DEF Chosen, SetOrder, Here
  <2>4. Here \in torn
    BY <1>1 DEF Encode, Written
  <2>5. QED
    BY <2>1, <2>2, <2>3, <2>4 DEF Written
<1>2. CASE BeginFunction
  <2>1. Here' = Here /\ set' = 0 /\ slot' = 0 /\ Here \in torn'
    BY <1>2 DEF BeginFunction, TypeOK, Here
  <2>2. Here \in Regions /\ Size[Here] \in Nat /\ NumEpis[Here] \in Nat
    BY <1>2, ListIsTyped, SizeIsNat DEF BeginFunction, Here
  <2>3. \A e \in SetsOf(Here) : \A s \in SlotsOf(Size[Here]) :
          ~(e < 0 \/ (e = 0 /\ s < 0))
    BY <2>2 DEF SetsOf, SlotsOf
  <2>4. QED
    BY <2>1, <2>3 DEF Written
<1>3. CASE NextSet
  <2>1. Here' = Here /\ set' = set + 1 /\ slot' = 0 /\ torn' = torn
          /\ text' = text /\ order' = order /\ cur' = cur /\ slot = Size[Here]
          /\ pc = "encode"
    BY <1>3 DEF NextSet, Here
  <2>2. Here \in Regions /\ Size[Here] \in Nat /\ NumEpis[Here] \in Nat
          /\ set \in Nat
    BY <1>3, ListIsTyped, SizeIsNat DEF NextSet, TypeOK, Here, Tfs, SetsOf
  <2>3. \A e \in SetsOf(Here) : \A s \in SlotsOf(Size[Here]) :
          e < set + 1 \/ (e = set + 1 /\ s < 0) => e < set \/ (e = set /\ s < slot)
    BY <2>1, <2>2 DEF SetsOf, SlotsOf
  <2>4. \A e, s : Chosen(e, s)' = Chosen(e, s)
    BY <2>1 DEF Chosen, SetOrder, Here
  <2>5. QED
    BY <2>1, <2>3, <2>4 DEF Written
<1>4. CASE UNCHANGED vars
  <2>1. \A e, s : Chosen(e, s)' = Chosen(e, s)
    BY <1>4 DEF vars, Chosen, SetOrder, Here
  <2>2. QED
    BY <1>4, <2>1 DEF vars, Written, Here
<1>5. CASE Call \/ EncodeFails \/ NullTarget \/ EndFunction \/ Return
  <2>1. pc' # "encode"
    BY <1>5 DEF Call, EncodeFails, NullTarget, EndFunction, Return
  <2>2. QED
    BY <2>1 DEF Written
<1>6. QED
  BY <1>1, <1>2, <1>3, <1>4, <1>5 DEF Next, Progress

LEMMA TornIsAheadStep ==
  ASSUME IndInv, [Next]_vars
  PROVE  TornIsAhead'
<1> USE DEF IndInv
<1>1. CASE Call
  BY <1>1 DEF Call, TornIsAhead
<1>2. CASE BeginFunction
  <2>1. cur \in cur .. last /\ Here = RegionOf[cur]
    BY <1>2, ListIsTyped DEF BeginFunction, Tfs, Here
  <2>2. QED
    BY <1>2, <2>1 DEF BeginFunction, TornIsAhead
<1>3. CASE Encode
  BY <1>3 DEF Encode, TornIsAhead
<1>4. CASE EncodeFails
  <2>1. \A t \in cur .. last : t \in 1 .. last
    BY ListIsTyped DEF TypeOK
  <2>2. QED
    BY <1>4, <2>1 DEF EncodeFails, TornIsAhead
<1>5. CASE NullTarget
  BY <1>5 DEF NullTarget, TornIsAhead
<1>6. CASE NextSet
  BY <1>6 DEF NextSet, TornIsAhead
<1>7. CASE EndFunction
  <2>1. ASSUME NEW r \in torn \ {Here}
        PROVE  \E t \in cur + 1 .. last : RegionOf[t] = r
    <3>1. PICK t \in cur .. last : RegionOf[t] = r
      BY <1>7 DEF EndFunction, TornIsAhead
    <3>2. t # cur
      BY <2>1, <3>1 DEF Here
    <3>3. t \in cur + 1 .. last
      BY <3>1, <3>2, ListIsTyped DEF TypeOK
    <3>4. QED
      BY <3>1, <3>3
  <2>2. QED
    BY <1>7, <2>1 DEF EndFunction, NextEntry, TornIsAhead
<1>8. CASE Return
  <2>1. cur = last + 1
    BY <1>8, ListIsTyped DEF Return, TypeOK, Tfs
  <2>2. torn = {}
    <3>1. cur .. last = {}
      BY <2>1, ListIsTyped
    <3>2. QED
      BY <1>8, <3>1 DEF Return, TornIsAhead
  <2>3. QED
    BY <1>8, <2>2 DEF Return, TornIsAhead
<1>9. CASE UNCHANGED vars
  BY <1>9 DEF vars, TornIsAhead
<1>10. QED
  BY <1>1, <1>2, <1>3, <1>4, <1>5, <1>6, <1>7, <1>8, <1>9 DEF Next, Progress

LEMMA TornIsUntouchedStep ==
  ASSUME IndInv, [Next]_vars
  PROVE  TornIsUntouched'
<1> USE DEF IndInv
<1>1. CASE Call
  BY <1>1 DEF Call, TornIsUntouched, SeenWhenIdle
<1>2. CASE BeginFunction
  BY <1>2 DEF BeginFunction, TornIsUntouched, Here
<1>3. CASE Encode
  <2>1. ASSUME NEW r \in torn \cap Undisturbed, r # Here, NEW e \in SetsOf(r),
               NEW s \in SlotsOf(Size[r])
        PROVE  text'[CellAddr(r, e, s)] = seen[CellAddr(r, e, s)]
    <3>1. text'[CellAddr(r, e, s)] = text[CellAddr(r, e, s)]
      BY <1>3, <2>1, EncodeWritesOneCell
    <3>2. QED
      BY <1>3, <2>1, <3>1 DEF Encode, TornIsUntouched
  <2>2. torn' = torn /\ seen' = seen /\ Here' = Here
    BY <1>3 DEF Encode, Here
  <2>3. QED
    BY <1>3, <2>1, <2>2 DEF Encode, TornIsUntouched
<1>4. CASE EncodeFails
  BY <1>4 DEF EncodeFails, TornIsUntouched
<1>5. CASE NullTarget
  BY <1>5 DEF NullTarget, TornIsUntouched
<1>6. CASE NextSet
  BY <1>6 DEF NextSet, TornIsUntouched, Here
<1>7. CASE EndFunction
  BY <1>7 DEF EndFunction, TornIsUntouched
<1>8. CASE Return
  BY <1>8 DEF Return, TornIsUntouched
<1>9. CASE UNCHANGED vars
  BY <1>9 DEF vars, TornIsUntouched, Here
<1>10. QED
  BY <1>1, <1>2, <1>3, <1>4, <1>5, <1>6, <1>7, <1>8, <1>9 DEF Next, Progress

LEMMA SeenWhenIdleStep ==
  ASSUME IndInv, [Next]_vars
  PROVE  SeenWhenIdle'
BY DEF IndInv, SeenWhenIdle, Next, Progress, vars, Call, BeginFunction, Encode,
       EncodeFails, NullTarget, NextSet, EndFunction, Return

(***************************************************************************)
(* IndInv is inductive, whatever the program and whatever was recorded of  *)
(* it: the types are kept, what is undisturbed and not torn is whole, and  *)
(* what is torn lies ahead of the encoder.                                 *)
(***************************************************************************)
THEOREM Invariance ==
  Spec => []IndInv
<1>1. Init => IndInv
  BY InitIndInv
<1>2. IndInv /\ [Next]_vars => IndInv'
  BY TypeOKStep, WholeUnlessTornStep, WrittenStep, TornIsAheadStep,
     TornIsUntouchedStep, SeenWhenIdleStep DEF IndInv
<1>3. QED
  BY <1>1, <1>2, PTL DEF Spec

(***************************************************************************)
(* Type correctness: the order of every entry stays an order, and the text *)
(* holds nothing but instructions of the program.                          *)
(***************************************************************************)
THEOREM TypeCorrect ==
  Spec => []TypeOK
<1>1. IndInv => TypeOK
  BY DEF IndInv
<1>2. QED
  BY <1>1, Invariance, PTL

(***************************************************************************)
(* At every moment, and after every failure, each undisturbed function     *)
(* that is not half way through being rewritten restores what it saves.    *)
(***************************************************************************)
THEOREM UntornIsWhole ==
  Spec => []WholeUnlessTorn
<1>1. IndInv => WholeUnlessTorn
  BY DEF IndInv
<1>2. QED
  BY <1>1, Invariance, PTL

(***************************************************************************)
(* After a call that reports success every undisturbed function restores   *)
(* what it saves, the ones that an earlier failed call had left torn       *)
(* included.                                                               *)
(***************************************************************************)
THEOREM SuccessHeals ==
  Spec => []SuccessMends
<1>1. IndInv => SuccessMends
  BY DEF IndInv, SuccessMends, WholeUnlessTorn, TornIsAhead, SeenWhenIdle
<1>2. QED
  BY <1>1, Invariance, PTL

(***************************************************************************)
(* Permuting writes nowhere but to the sets as they are recorded, right or *)
(* wrong: every other address of the text keeps what the compiler put      *)
(* there.                                                                  *)
(***************************************************************************)
THEOREM BodyIsSafe ==
  Spec => []BodyIsKept
<1>1. Init => BodyIsKept
  BY DEF Init, BodyIsKept
<1>2. ASSUME IndInv, BodyIsKept, [Next]_vars
      PROVE  BodyIsKept'
  <2>1. CASE Encode
    <3>1. Target(set, slot) \in Targets
      BY <1>2, <2>1, EncodeAtWork DEF IndInv, Targets
    <3>2. text' = [text EXCEPT ![Target(set, slot)] = Chosen(set, slot)]
      BY <2>1 DEF Encode
    <3>3. QED
      BY <1>2, <3>1, <3>2 DEF BodyIsKept, IndInv, TypeOK
  <2>2. CASE text' = text
    BY <1>2, <2>2 DEF BodyIsKept
  <2>3. QED
    BY <1>2, <2>1, <2>2
    DEF Next, Progress, Call, BeginFunction, EncodeFails, NullTarget, NextSet,
        EndFunction, Return, vars
<1>3. QED
  BY <1>1, <1>2, Invariance, PTL DEF Spec

-----------------------------------------------------------------------------

\* The layout that Randomizer speaks of is the one Permute speaks of.
LEMMA SameLayout ==
  /\ Caller!Cells = Cells
  /\ \A r, e, i : Caller!InstrOf(r, e, i) = InstrOf(r, e, i)
  /\ \A r : Caller!SetsOf(r) = SetsOf(r)
  /\ \A r : Caller!SlotsOf(Size[r]) = SlotsOf(Size[r])
  /\ \A t, r : Caller!Consistent(t, r) <=> Consistent(t, r)
<1>1. /\ \A n : Caller!SlotsOf(n) = SlotsOf(n)
      /\ \A r : Caller!SetsOf(r) = SetsOf(r)
      /\ \A s, n : Caller!Partner(s, n) = Partner(s, n)
      /\ \A x : Caller!Push(x) = Push(x) /\ Caller!Pop(x) = Pop(x)
  BY DEF Caller!SlotsOf, SlotsOf, Caller!SetsOf, SetsOf, Caller!Partner,
         Partner, Caller!Push, Push, Caller!Pop, Pop
<1>2. \A n : Caller!Orders(n) = Orders(n)
  BY <1>1 DEF Caller!Orders, Orders, Caller!Bijection, Bijection,
              Caller!Injection, Injection, Caller!Surjection, Surjection,
              Caller!IsInjective, IsInjective
<1>3. \A t, r, p : Caller!LaidOut(t, r, p) <=> LaidOut(t, r, p)
  BY <1>1 DEF Caller!LaidOut, LaidOut
<1>4. \A t, r : Caller!Consistent(t, r) <=> Consistent(t, r)
  BY <1>2, <1>3 DEF Caller!Consistent, Consistent
<1>5. \A r, e, i : Caller!InstrOf(r, e, i) = InstrOf(r, e, i)
  BY <1>1 DEF Caller!InstrOf, InstrOf
<1>6. Caller!Cells = Cells
  BY <1>1 DEF Caller!Cells, Cells
<1>7. QED
  BY <1>1, <1>4, <1>5, <1>6

(***************************************************************************)
(* Between calls, permuting implements Randomizer for the functions that   *)
(* are undisturbed: each call is one step of it, a failed call spoils none *)
(* of them but the one it stopped in.                                      *)
(***************************************************************************)
THEOREM Refinement ==
  Spec => ImplementsRandomizer
<1>1. Init => Caller!Init
  <2>1. ASSUME Init
        PROVE  CodeIn(seen) = [c \in Cells |-> InstrOf(c[1], c[2], c[3])]
    <3>1. \A c \in Cells : Original[CellAddr(c[1], c[2], c[3])]
                             = InstrOf(c[1], c[2], c[3])
      BY CellsAreTriples, OriginalAtCells
    <3>2. QED
      BY <2>1, <3>1 DEF Init, CodeIn
  <2>2. QED
    BY <2>1, SameLayout DEF Init, Caller!Init
<1>2. ASSUME IndInv, IndInv', [Next]_vars
      PROVE  [Caller!Next]_<<CodeIn(seen), rc>>
  <2>1. CASE Return
    <3>1. torn' = {}
      BY <1>2, <2>1 DEF IndInv, TornIsAhead, Return
    <3>2. \A r \in Undisturbed : Consistent(CodeIn(text'), r)
      BY <1>2, <3>1 DEF IndInv, WholeUnlessTorn, CodeIn
    <3>3. seen' = text' /\ rc' = "ok"
      BY <2>1 DEF Return
    <3>4. CodeIn(seen)' = CodeIn(text')
      BY <3>3 DEF CodeIn
    <3>5. Caller!Succeed
      BY <3>2, <3>3, <3>4, SameLayout DEF Caller!Succeed
    <3>6. QED
      BY <3>5 DEF Caller!Next
  <2>2. CASE EncodeFails
    <3>1. Here \in Regions /\ rc' = "failed" /\ seen' = text
      BY <1>2, <2>2, RegionOfAssumption DEF EncodeFails, IndInv, TypeOK, Here, Tfs
    <3>2. CodeIn(seen)' = CodeIn(text)
      BY <3>1 DEF CodeIn
    <3>3. ASSUME NEW r \in Undisturbed \ {Here}, r \in torn
          PROVE  Caller!Unchanged(r)
      <4>1. \A e \in SetsOf(r) : \A s \in SlotsOf(Size[r]) :
              text[CellAddr(r, e, s)] = seen[CellAddr(r, e, s)]
        BY <1>2, <2>2, <3>3 DEF IndInv, TornIsUntouched, EncodeFails
      <4>2. \A e \in SetsOf(r) : \A s \in SlotsOf(Size[r]) :
              CodeIn(text)[<<r, e, s>>] = CodeIn(seen)[<<r, e, s>>]
        BY <3>3, <4>1, CellsAreTriples DEF CodeIn, Undisturbed
      <4>3. QED
        BY <3>2, <4>2, SameLayout DEF Caller!Unchanged
    <3>4. ASSUME NEW r \in Undisturbed \ {Here}, r \notin torn
          PROVE  Caller!Consistent(CodeIn(seen)', r)
      BY <1>2, <3>2, <3>4, SameLayout DEF IndInv, WholeUnlessTorn
    <3>5. Caller!Fail
      BY <3>1, <3>3, <3>4 DEF Caller!Fail
    <3>6. QED
      BY <3>5 DEF Caller!Next
  <2>3. CASE seen' = seen /\ rc' = rc
    BY <2>3 DEF CodeIn
  <2>4. QED
    BY <1>2, <2>1, <2>2, <2>3
    DEF Next, Progress, Call, BeginFunction, Encode, NullTarget, NextSet,
        EndFunction, vars
<1>3. QED
  BY <1>1, <1>2, Invariance, PTL DEF Spec, ImplementsRandomizer, Caller!Spec

=============================================================================
