---------------------------- MODULE HandleProofs ----------------------------
(***************************************************************************)
(* Proofs about Handle, for any number of handles used one after the       *)
(* other.                                                                  *)
(***************************************************************************)
EXTENDS Handle, TLAPS

States == {"garbage", "null", "live", "dead", "refused"}

\* The fields that have been filled when rave_init() comes to a stage.
Filled(s) ==
  CASE s = "metadata" -> {}
    [] s = "transform" -> {"metadata"}
    [] s \in {"libelf", "map"} -> {"metadata", "transform"}
    [] s = "elf" -> {"metadata", "transform", "mapping"}
    [] s \in {"kind", "header", "section", "segment", "dwarf"} ->
         {"metadata", "transform", "mapping", "elf"}
    [] s = "isa" -> {"metadata", "transform", "mapping", "elf", "dbg"}
    [] s = "code" -> Fields \ {"segment"}
    [] OTHER -> Fields

\* The file has been found to be an ELF file, so its mapping is one.
Checked == Stages \ {"metadata", "transform", "libelf", "map", "elf", "kind"}

(***************************************************************************)
(* How far rave_init() has come says which fields are filled; the static   *)
(* flag of libelf outlives the handles.                                    *)
(***************************************************************************)
Inv ==
  /\ self \in {"null", "handle"}
  /\ h \in [Fields -> States]
  /\ pc = "init" => stage \in Stages
  /\ pc = "init" =>
       /\ \A f \in Filled(stage) : h[f] = "live" \/ (f = "mapping" /\ h[f] = "refused")
       /\ stage \in Checked => class # "other" /\ h["mapping"] = "live"
       /\ "elf" \in Filled(stage) => libelf.ready
  /\ libelf \in [initialized : BOOLEAN, ready : BOOLEAN]
  /\ libelf.ready => libelf.initialized
  /\ OpenIsWhole
  /\ UndefinedOnlyInFailedInit
  /\ CloseReleases

\* Before the first handle nothing is claimed of its fields.
LEMMA InvInit == Init => Inv
  BY DEF Init, Inv, Fresh, States, Fields, OpenIsWhole,
     UndefinedOnlyInFailedInit, CloseReleases


(***************************************************************************)
(* A stage that fails leaves no open handle and no closed one, and what it *)
(* leads to is undefined only at a stage that goes to err.                 *)
(***************************************************************************)
LEMMA FailedKeepsInv ==
  ASSUME Inv, NEW s \in Stages, NEW x \in [Fields -> States], Failed(s, x),
         libelf' \in [initialized : BOOLEAN, ready : BOOLEAN],
         libelf'.ready => libelf'.initialized
  PROVE  Inv'
<1>1. pc' \in {"failed", "undefined"} /\ stage' = s /\ self' = self
  BY DEF Failed
<1>2. pc' = "undefined" => s \in Abandoning
  BY DEF Failed, Abandoning
<1>3. ASSUME NEW finished \in BOOLEAN, NEW unmapped \in BOOLEAN
      PROVE  AfterClose(x, finished, unmapped) \in [Fields -> States]
  BY DEF AfterClose, Release, Reset, Fields, States
<1>4. h' \in [Fields -> States]
  BY <1>3 DEF Failed
<1>5. QED
  BY <1>1, <1>2, <1>4
     DEF Inv, OpenIsWhole, UndefinedOnlyInFailedInit, CloseReleases

(***************************************************************************)
(* A stage that succeeds and is not the last.                              *)
(***************************************************************************)
LEMMA PassedKeepsInv ==
  ASSUME Inv, NEW s \in Stages \ {"functions"},
         NEW x \in [Fields -> States], Passed(s, x),
         \A f \in Filled(Follows[s]) :
           x[f] = "live" \/ (f = "mapping" /\ x[f] = "refused"),
         Follows[s] \in Checked => class # "other" /\ x["mapping"] = "live",
         "elf" \in Filled(Follows[s]) => libelf'.ready,
         libelf' \in [initialized : BOOLEAN, ready : BOOLEAN],
         libelf'.ready => libelf'.initialized
  PROVE  Inv'
<1>1. Follows[s] \in Stages /\ Follows[s] # "done"
  BY DEF Stages, Follows
<1>2. pc' = "init" /\ stage' = Follows[s] /\ h' = x /\ class' = class
      /\ self' = self
  BY <1>1 DEF Passed, Inv
<1>3. QED
  BY <1>1, <1>2 DEF Inv, OpenIsWhole, UndefinedOnlyInFailedInit, CloseReleases

(***************************************************************************)
(* Each part rave_init() opens fills the field that the next stage expects *)
(* (rave.c:157-215, binary.c:71-127).                                      *)
(***************************************************************************)
LEMMA InitStepKeepsInv == Inv /\ InitStep => Inv'
<1> SUFFICES ASSUME Inv, InitStep
             PROVE  Inv'
  OBVIOUS
<1>1. /\ h \in [Fields -> States]
      /\ libelf \in [initialized : BOOLEAN, ready : BOOLEAN]
      /\ libelf.ready => libelf.initialized
  BY DEF Inv
<1>2. ASSUME NEW f \in Fields, NEW v \in States
      PROVE  [h EXCEPT ![f] = v] \in [Fields -> States]
  BY <1>1
<1> DEFINE Same == libelf' = libelf
<1>3. ASSUME NEW f \in {"metadata", "transform"}, Allocate(f)
      PROVE  Inv'
  <2>1. f \in Fields /\ f \in Stages \ {"functions"} /\ Same
    BY <1>3 DEF Fields, Stages, Follows, Allocate
  <2>2. CASE Passed(f, [h EXCEPT ![f] = "live"])
    <3>1. pc = "init" /\ stage = f
      BY <2>2 DEF Passed
    <3>2. [h EXCEPT ![f] = "live"] \in [Fields -> States]
      BY <1>2, <2>1 DEF States
    <3>3. \A k \in Filled(Follows[f]) : [h EXCEPT ![f] = "live"][k] = "live"
      BY <1>1, <2>1, <3>1 DEF Inv, Filled, Follows, Fields
    <3>4. Follows[f] \notin Checked /\ "elf" \notin Filled(Follows[f])
      BY DEF Filled, Follows, Checked
    <3>5. QED
      BY <1>1, <2>1, <2>2, <3>2, <3>3, <3>4, PassedKeepsInv
  <2>3. CASE Failed(f, [h EXCEPT ![f] = "null"])
    <3>1. [h EXCEPT ![f] = "null"] \in [Fields -> States]
      BY <1>2, <2>1 DEF States
    <3>2. QED
      BY <1>1, <2>1, <2>3, <3>1, FailedKeepsInv
  <2>4. QED
    BY <1>3, <2>2, <2>3 DEF Allocate
<1>4. CASE InitLibelf
  <2> DEFINE x == [h EXCEPT !.mapping = "null", !.elf = "null"]
  <2>1. x \in [Fields -> States]
    BY <1>1 DEF Fields, States
  <2>2. /\ libelf' \in [initialized : BOOLEAN, ready : BOOLEAN]
        /\ libelf'.ready => libelf'.initialized
    <3>1. CASE libelf' = libelf
      BY <1>1, <3>1
    <3>2. CASE \E b \in BOOLEAN : libelf' = [initialized |-> TRUE, ready |-> b]
      BY <3>2
    <3>3. \/ libelf' = libelf
          \/ \E b \in BOOLEAN : libelf' = [initialized |-> TRUE, ready |-> b]
      BY <1>4, Zenon DEF InitLibelf
    <3>4. QED
      BY <3>1, <3>2, <3>3
  <2>3. "libelf" \in Stages \ {"functions"}
    BY DEF Stages, Follows
  <2>4. CASE Passed("libelf", x)
    <3>1. pc = "init" /\ stage = "libelf"
      BY <2>4 DEF Passed
    <3>2. \A k \in Filled(Follows["libelf"]) : x[k] = "live"
      BY <1>1, <3>1 DEF Inv, Filled, Follows, Fields
    <3>3. Follows["libelf"] \notin Checked /\ "elf" \notin Filled(Follows["libelf"])
      BY DEF Filled, Follows, Checked
    <3>4. QED
      BY <2>1, <2>2, <2>3, <2>4, <3>2, <3>3, PassedKeepsInv
  <2>5. CASE Failed("libelf", x)
    BY <2>1, <2>2, <2>3, <2>5, FailedKeepsInv
  <2>6. QED
    BY <1>4, <2>4, <2>5 DEF InitLibelf
<1>5. CASE MapFile
  <2>1. "map" \in Stages \ {"functions"} /\ Same /\ "mapping" \in Fields
    BY <1>5 DEF Fields, Stages, Follows, MapFile
  <2>2. ASSUME NEW v \in {"live", "refused"}, Passed("map", [h EXCEPT !.mapping = v])
        PROVE  Inv'
    <3>1. pc = "init" /\ stage = "map"
      BY <2>2 DEF Passed
    <3>2. [h EXCEPT !.mapping = v] \in [Fields -> States]
      BY <1>2, <2>1 DEF States
    <3>3. \A k \in Filled(Follows["map"]) :
            LET y == [h EXCEPT !.mapping = v]
            IN  y[k] = "live" \/ (k = "mapping" /\ y[k] = "refused")
      BY <1>1, <2>1, <3>1 DEF Inv, Filled, Follows, Fields
    <3>4. Follows["map"] \notin Checked /\ "elf" \notin Filled(Follows["map"])
      BY DEF Filled, Follows, Checked
    <3>5. QED
      BY <1>1, <2>1, <2>2, <3>2, <3>3, <3>4, PassedKeepsInv
  <2>3. CASE Failed("map", h)
    BY <1>1, <2>1, <2>3, FailedKeepsInv
  <2>4. CASE Failed("map", [h EXCEPT !.mapping = "live"])
    <3>1. [h EXCEPT !.mapping = "live"] \in [Fields -> States]
      BY <1>2, <2>1 DEF States
    <3>2. QED
      BY <1>1, <2>1, <2>4, <3>1, FailedKeepsInv
  <2>5. QED
    BY <1>5, <2>2, <2>3, <2>4 DEF MapFile
<1>6. CASE OpenElf
  <2>1. "elf" \in Stages \ {"functions"} /\ Same /\ "elf" \in Fields
    BY <1>6 DEF Fields, Stages, Follows, OpenElf
  <2>2. CASE libelf.ready /\ Passed("elf", [h EXCEPT !.elf = "live"])
    <3>1. pc = "init" /\ stage = "elf"
      BY <2>2 DEF Passed
    <3>2. [h EXCEPT !.elf = "live"] \in [Fields -> States]
      BY <1>2, <2>1 DEF States
    <3>3. \A k \in Filled(Follows["elf"]) :
            LET y == [h EXCEPT !.elf = "live"]
            IN  y[k] = "live" \/ (k = "mapping" /\ y[k] = "refused")
      BY <1>1, <2>1, <3>1 DEF Inv, Filled, Follows, Fields
    <3>4. Follows["elf"] \notin Checked
      BY DEF Follows, Checked
    <3>5. QED
      BY <1>1, <2>1, <2>2, <3>2, <3>3, <3>4, PassedKeepsInv
  <2>3. CASE Failed("elf", h)
    BY <1>1, <2>1, <2>3, FailedKeepsInv
  <2>4. CASE pc' = "undefined" /\ stage = "elf" /\ UNCHANGED <<self, stage, h>>
    BY <1>1, <2>1, <2>4
       DEF Inv, OpenIsWhole, UndefinedOnlyInFailedInit, CloseReleases,
           Abandoning, Returning
  <2>5. QED
    BY <1>6, <2>2, <2>3, <2>4 DEF OpenElf
<1>7. CASE CheckKind
  <2>1. "kind" \in Stages \ {"functions"} /\ Same
    BY <1>7 DEF Stages, Follows, CheckKind
  <2>2. CASE ~WrongKind /\ Passed("kind", h)
    <3>1. pc = "init" /\ stage = "kind"
      BY <2>2 DEF Passed
    <3>2. class # "other" /\ h["mapping"] = "live"
      BY <2>2, <3>1 DEF Inv, WrongKind, Filled
    <3>3. (\A k \in Filled(Follows["kind"]) : h[k] = "live") /\ libelf.ready
      BY <3>1, <3>2 DEF Inv, Filled, Follows
    <3>4. QED
      BY <1>1, <2>1, <2>2, <3>2, <3>3, PassedKeepsInv
  <2>3. CASE Failed("kind", h)
    BY <1>1, <2>1, <2>3, FailedKeepsInv
  <2>4. QED
    BY <1>7, <2>2, <2>3 DEF CheckKind
<1>8. ASSUME NEW s \in {"header", "section", "segment"}, Look(s)
      PROVE  Inv'
  <2>1. s \in Stages \ {"functions"} /\ Same
    BY <1>8 DEF Stages, Follows, Look
  <2>2. CASE Passed(s, h)
    <3>1. pc = "init" /\ stage = s
      BY <2>2 DEF Passed
    <3>2. s \in Checked
      BY DEF Checked, Stages, Follows
    <3>3. /\ class # "other" /\ h["mapping"] = "live" /\ libelf.ready
          /\ \A k \in Filled(Follows[s]) : h[k] = "live"
      BY <3>1, <3>2 DEF Inv, Filled, Follows
    <3>4. QED
      BY <1>1, <2>1, <2>2, <3>3, PassedKeepsInv
  <2>3. CASE Failed(s, h)
    BY <1>1, <2>1, <2>3, FailedKeepsInv
  <2>4. QED
    BY <1>8, <2>2, <2>3 DEF Look
<1>9. ASSUME NEW s, NEW f, <<s, f>> \in {<<"dwarf", "dbg">>, <<"isa", "transformables">>,
                                        <<"code", "segment">>},
             Open(s, f)
      PROVE  Inv'
  <2>1. s \in Stages \ {"functions"} /\ Same /\ f \in Fields
    BY <1>9 DEF Fields, Stages, Follows, Open
  <2> DEFINE x == [h EXCEPT ![f] = "live"]
  <2>2. CASE Passed(s, x)
    <3>1. pc = "init" /\ stage = s
      BY <2>2 DEF Passed
    <3>2. s \in Checked
      BY <1>9 DEF Checked, Stages, Follows
    <3>3. x \in [Fields -> States] /\ x[f] = "live" /\ f # "mapping"
          /\ \A k \in Fields \ {f} : x[k] = h[k]
      BY <1>1, <1>2, <1>9, <2>1 DEF States
    <3>4. class # "other" /\ h["mapping"] = "live" /\ libelf.ready
      BY <1>9, <3>1, <3>2 DEF Inv, Filled, Fields
    <3>5. Filled(Follows[s]) = Filled(s) \cup {f} /\ Filled(s) \subseteq Fields
      BY <1>9 DEF Filled, Follows, Fields
    <3>6. \A k \in Filled(s) : h[k] = "live"
      BY <3>1, <3>4 DEF Inv
    <3>7. \A k \in Filled(Follows[s]) : x[k] = "live"
      BY <3>3, <3>5, <3>6
    <3>8. x["mapping"] = "live"
      BY <3>3, <3>4 DEF Fields
    <3>9. QED
      BY <1>1, <2>1, <2>2, <3>3, <3>4, <3>7, <3>8, PassedKeepsInv
  <2>3. CASE Failed(s, h)
    BY <1>1, <2>1, <2>3, FailedKeepsInv
  <2>4. QED
    BY <1>9, <2>2, <2>3 DEF Open
<1>10. CASE FindFunctions
  <2>1. Same /\ "functions" \in Stages
    BY <1>10 DEF FindFunctions, Stages, Follows
  <2>2. CASE Passed("functions", h)
    <3>1. pc = "init" /\ stage = "functions" /\ pc' = "open"
          /\ UNCHANGED <<self, stage, h, class>>
      BY <2>2 DEF Passed, Follows
    <3>2. "functions" \in Checked
      BY DEF Checked, Stages, Follows
    <3>3. class # "other" /\ h["mapping"] = "live" /\ libelf.ready
      BY <3>1, <3>2 DEF Inv, Filled, Fields
    <3>4. \A k \in Fields : h[k] = "live"
      BY <3>1, <3>3 DEF Inv, Filled
    <3>5. Held(h) = Fields
      BY <3>4 DEF Held
    <3>6. QED
      BY <1>1, <2>1, <3>1, <3>3, <3>5
         DEF Inv, OpenIsWhole, UndefinedOnlyInFailedInit, CloseReleases
  <2>3. CASE Failed("functions", h)
    BY <1>1, <2>1, <2>3, FailedKeepsInv
  <2>4. QED
    BY <1>10, <2>2, <2>3 DEF FindFunctions
<1>11. QED
  BY <1>3, <1>4, <1>5, <1>6, <1>7, <1>8, <1>9, <1>10 DEF InitStep

(***************************************************************************)
(* Closing an opened handle finds every field live, so nothing in it is    *)
(* undefined, and releases all but what rave_close() leaves.               *)
(***************************************************************************)
LEMMA ClosingWhole ==
  ASSUME h \in [Fields -> States], Held(h) = Fields,
         NEW finished \in BOOLEAN, NEW unmapped \in BOOLEAN
  PROVE  /\ ~ClosingIsUndefined(h)
         /\ AfterClose(h, finished, unmapped) \in [Fields -> States]
         /\ finished => Held(AfterClose(h, finished, unmapped))
                           \subseteq {"transformables", "mapping"}
<1>1. \A f \in Fields : h[f] = "live"
  BY DEF Held
<1>2. ~ClosingIsUndefined(h)
  BY <1>1 DEF ClosingIsUndefined, Fields
<1> DEFINE x1 == Release(h, "segment")
           x2 == IF finished THEN Release(x1, "dbg") ELSE x1
           x3 == Release(x2, "metadata")
           x4 == Reset(x3, "elf")
           x5 == IF unmapped THEN Reset(x4, "mapping") ELSE x4
           x6 == Release(x5, "transform")
<1>3. ASSUME NEW x \in [Fields -> States], NEW f \in Fields
      PROVE  /\ Release(x, f) \in [Fields -> States]
             /\ Reset(x, f) \in [Fields -> States]
             /\ Release(x, f)[f] # "live" /\ Reset(x, f)[f] # "live"
             /\ \A k \in Fields : x[k] # "live" =>
                   Release(x, f)[k] # "live" /\ Reset(x, f)[k] # "live"
  BY <1>3 DEF Release, Reset, States
<1>4. {"segment", "dbg", "metadata", "elf", "mapping", "transform"} \subseteq Fields
  BY DEF Fields
<1>5. x1 \in [Fields -> States] /\ x1["segment"] # "live"
  BY <1>3, <1>4
<1>6. x2 \in [Fields -> States] /\ x2["segment"] # "live"
      /\ (finished => x2["dbg"] # "live")
  BY <1>3, <1>4, <1>5
<1> HIDE DEF x1, x2
<1>7. x3 \in [Fields -> States] /\ x3["segment"] # "live"
      /\ (finished => x3["dbg"] # "live") /\ x3["metadata"] # "live"
  BY <1>3, <1>4, <1>6
<1> HIDE DEF x3
<1>8. x4 \in [Fields -> States] /\ x4["segment"] # "live"
      /\ (finished => x4["dbg"] # "live") /\ x4["metadata"] # "live"
      /\ x4["elf"] # "live"
  BY <1>3, <1>4, <1>7
<1> HIDE DEF x4
<1>9. x5 \in [Fields -> States] /\ x5["segment"] # "live"
      /\ (finished => x5["dbg"] # "live") /\ x5["metadata"] # "live"
      /\ x5["elf"] # "live"
  BY <1>3, <1>4, <1>8
<1> HIDE DEF x5
<1>10. x6 \in [Fields -> States] /\ x6["segment"] # "live"
       /\ (finished => x6["dbg"] # "live") /\ x6["metadata"] # "live"
       /\ x6["elf"] # "live" /\ x6["transform"] # "live"
  BY <1>3, <1>4, <1>9
<1> HIDE DEF x6
<1>11. AfterClose(h, finished, unmapped) = x6
  BY DEF AfterClose, x1, x2, x3, x4, x5, x6
<1>12. finished => Held(x6) \subseteq {"transformables", "mapping"}
  BY <1>10 DEF Held, Fields
<1>13. QED
  BY <1>2, <1>10, <1>11, <1>12

\* Every call of the library keeps the invariant.
LEMMA InvStep == Inv /\ [Next]_vars => Inv'
<1> SUFFICES ASSUME Inv, [Next]_vars
             PROVE  Inv'
  OBVIOUS
<1>1. CASE Create
  <2>1. Fresh \in [Fields -> States]
    BY DEF Fresh, States
  <2>2. "metadata" \in Stages /\ Filled("metadata") = {} /\ "metadata" \notin Checked
    BY DEF Stages, Follows, Filled, Checked
  <2>3. /\ h' = Fresh /\ stage' = "metadata" /\ libelf' = libelf
        /\ self' \in {"null", "handle"}
        /\ pc' = "init" \/ (pc' = "open" /\ self' = "null")
    BY <1>1 DEF Create
  <2>4. QED
    BY <2>1, <2>2, <2>3
       DEF Inv, OpenIsWhole, UndefinedOnlyInFailedInit, CloseReleases
<1>2. CASE InitStep
  BY <1>2, InitStepKeepsInv
<1>3. CASE Close
  <2>1. pc = "open" /\ UNCHANGED <<self, stage, class, libelf>>
    BY <1>3 DEF Close
  <2>2. CASE self = "null"
    <3>1. pc' = "closed" /\ h' = h
      BY <1>3, <2>2 DEF Close
    <3>2. QED
      BY <2>1, <2>2, <3>1
         DEF Inv, OpenIsWhole, UndefinedOnlyInFailedInit, CloseReleases
  <2>3. CASE self # "null"
    <3>1. h \in [Fields -> States] /\ Held(h) = Fields
      BY <2>1, <2>3 DEF Inv, OpenIsWhole
    <3>2. ~ClosingIsUndefined(h)
      BY <3>1, ClosingWhole
    <3>3. PICK finished \in BOOLEAN, unmapped \in BOOLEAN :
            /\ h' = AfterClose(h, finished, unmapped)
            /\ rc' = IF finished THEN "ok" ELSE "error"
            /\ pc' = "closed"
      BY <1>3, <2>3, <3>2 DEF Close
    <3>4. h' \in [Fields -> States]
          /\ (rc' = "ok" => Held(h') \subseteq {"transformables", "mapping"})
      BY <3>1, <3>3, ClosingWhole
    <3>5. CloseReleases'
      BY <3>4 DEF CloseReleases, Held
    <3>6. QED
      BY <2>1, <3>3, <3>4, <3>5
         DEF Inv, OpenIsWhole, UndefinedOnlyInFailedInit
  <2>4. QED
    BY <2>2, <2>3
<1>4. CASE Destroy
  <2>1. pc' = "none" /\ h' = Fresh /\ UNCHANGED <<self, stage, class, libelf>>
    BY <1>4 DEF Destroy
  <2>2. Fresh \in [Fields -> States]
    BY DEF Fresh, States
  <2>3. QED
    BY <2>1, <2>2
       DEF Inv, OpenIsWhole, UndefinedOnlyInFailedInit, CloseReleases
<1>5. CASE UNCHANGED vars
  BY <1>5 DEF vars, Inv, OpenIsWhole, UndefinedOnlyInFailedInit,
              CloseReleases, Held
<1>6. QED
  BY <1>1, <1>2, <1>3, <1>4, <1>5 DEF Next

(***************************************************************************)
(* In every state, how far rave_init() has come says what is filled in.    *)
(***************************************************************************)
THEOREM InvHolds == Spec => []Inv
  BY InvInit, InvStep, PTL DEF Spec

(***************************************************************************)
(* A successful rave_init() leaves every part in place, a libelf that an   *)
(* earlier handle could not initialize and MAP_FAILED included             *)
(* (rave.c:157-215).                                                       *)
(***************************************************************************)
THEOREM OpenIsComplete == Spec => []OpenIsWhole
<1>1. Inv => OpenIsWhole
  BY DEF Inv
<1>2. QED
  BY <1>1, InvHolds, PTL

(***************************************************************************)
(* Only a rave_init() whose failure goes to err closes what was never      *)
(* opened, however many handles came before (rave.c:169-197, 216-219).     *)
(***************************************************************************)
THEOREM UndefinedIsInFailure == Spec => []UndefinedOnlyInFailedInit
<1>1. Inv => UndefinedOnlyInFailedInit
  BY DEF Inv
<1>2. QED
  BY <1>1, InvHolds, PTL

(***************************************************************************)
(* A close that reports success keeps no more than the transformables and  *)
(* a mapping that munmap() refused to remove (rave.c:227-244).             *)
(***************************************************************************)
THEOREM ClosingReleases == Spec => []CloseReleases
<1>1. Inv => CloseReleases
  BY DEF Inv
<1>2. QED
  BY <1>1, InvHolds, PTL

-----------------------------------------------------------------------------

\* What TypeOK says of the fields.
FieldsTyped(x) ==
  /\ x \in [Fields -> States]
  /\ \A f \in {"segment", "dbg", "transformables"} : x[f] \in {"garbage", "live", "dead"}
  /\ x["metadata"] \in {"garbage", "null", "live", "dead"}
  /\ x["transform"] \in {"garbage", "null", "live", "dead"}
  /\ x["elf"] \in {"garbage", "null", "live"}
  /\ x["mapping"] \in {"garbage", "null", "live", "refused"}

(***************************************************************************)
(* Closing a handle leaves in each field what may be there, on a handle    *)
(* that is not complete as well.                                           *)
(***************************************************************************)
LEMMA CloseKeepsTypes ==
  ASSUME NEW x, FieldsTyped(x), NEW finished \in BOOLEAN, NEW unmapped \in BOOLEAN
  PROVE  FieldsTyped(AfterClose(x, finished, unmapped))
<1> USE DEF FieldsTyped, Fields, States
<1>1. ASSUME NEW y, FieldsTyped(y),
             NEW f \in {"segment", "dbg", "metadata", "transform"}
      PROVE  FieldsTyped(Release(y, f))
  BY <1>1 DEF Release
<1>2. ASSUME NEW y, FieldsTyped(y), NEW f \in {"elf", "mapping"}
      PROVE  FieldsTyped(Reset(y, f))
  BY <1>2 DEF Reset
<1> DEFINE x1 == Release(x, "segment")
           x2 == IF finished THEN Release(x1, "dbg") ELSE x1
           x3 == Release(x2, "metadata")
           x4 == Reset(x3, "elf")
           x5 == IF unmapped THEN Reset(x4, "mapping") ELSE x4
           x6 == Release(x5, "transform")
<1> HIDE DEF FieldsTyped, Fields, States
<1>3. FieldsTyped(x1)
  BY <1>1
<1> HIDE DEF x1
<1>4. FieldsTyped(x2)
  BY <1>1, <1>3
<1> HIDE DEF x2
<1>5. FieldsTyped(x3)
  BY <1>1, <1>4
<1> HIDE DEF x3
<1>6. FieldsTyped(x4)
  BY <1>2, <1>5
<1> HIDE DEF x4
<1>7. FieldsTyped(x5)
  BY <1>2, <1>6
<1> HIDE DEF x5
<1>8. FieldsTyped(x6)
  BY <1>1, <1>7
<1> HIDE DEF x6
<1>9. AfterClose(x, finished, unmapped) = x6
  BY DEF AfterClose, x1, x2, x3, x4, x5, x6
<1>10. QED
  BY <1>8, <1>9

\* The rest of TypeOK.
ControlTyped ==
  /\ pc \in {"none", "init", "open", "failed", "closed", "undefined"}
  /\ self \in {"null", "handle"}
  /\ stage \in Stages
  /\ class \in {"elf64", "elf32", "other"}
  /\ libelf \in [initialized : BOOLEAN, ready : BOOLEAN]
  /\ rc \in {"ok", "error"}
  /\ lost \subseteq Fields \cup {"fd"}
  /\ handles \in 0 .. MaxHandles

Typed == ControlTyped /\ FieldsTyped(h)

LEMMA PassedKeepsTypes ==
  ASSUME Typed, NEW s \in Stages, NEW x, Passed(s, x), FieldsTyped(x),
         libelf' \in [initialized : BOOLEAN, ready : BOOLEAN],
         lost' \subseteq Fields \cup {"fd"}
  PROVE  Typed'
<1>1. Follows[s] # "done" => Follows[s] \in Stages
  BY DEF Stages, Follows
<1>2. QED
  BY <1>1 DEF Passed, Typed, ControlTyped, FieldsTyped

LEMMA FailedKeepsTypes ==
  ASSUME Typed, NEW s \in Stages, NEW x, Failed(s, x), FieldsTyped(x),
         libelf' \in [initialized : BOOLEAN, ready : BOOLEAN],
         lost' \subseteq Fields \cup {"fd"}
  PROVE  Typed'
<1>1. \A finished, unmapped \in BOOLEAN : FieldsTyped(AfterClose(x, finished, unmapped))
  BY CloseKeepsTypes
<1>2. h' = x \/ \E finished, unmapped \in BOOLEAN : h' = AfterClose(x, finished, unmapped)
  BY DEF Failed
<1>3. FieldsTyped(h')
  BY <1>1, <1>2
<1>4. ControlTyped'
  BY DEF Failed, Typed, ControlTyped
<1>5. QED
  BY <1>3, <1>4 DEF Typed, FieldsTyped

LEMMA InitStepKeepsTypes == Typed /\ InitStep => Typed'
<1> SUFFICES ASSUME Typed, InitStep PROVE Typed'
  OBVIOUS
<1>1. /\ libelf \in [initialized : BOOLEAN, ready : BOOLEAN]
      /\ lost \subseteq Fields \cup {"fd"}
      /\ lost \cup {"fd"} \subseteq Fields \cup {"fd"}
      /\ FieldsTyped(h)
  BY DEF Typed, ControlTyped
<1>2. /\ \A f \in {"metadata", "transform", "mapping", "elf", "dbg", "transformables",
                   "segment"} : FieldsTyped([h EXCEPT ![f] = "live"])
      /\ \A f \in {"metadata", "transform"} : FieldsTyped([h EXCEPT ![f] = "null"])
      /\ FieldsTyped([h EXCEPT !["mapping"] = "refused"])
      /\ FieldsTyped([h EXCEPT !["mapping"] = "null", !["elf"] = "null"])
  BY <1>1 DEF FieldsTyped, Fields, States
<1>3. {"metadata", "transform", "libelf", "map", "elf", "kind", "header", "section",
       "segment", "dwarf", "isa", "code", "functions"} \subseteq Stages
  BY DEF Stages, Follows
<1>4. ASSUME NEW f \in {"metadata", "transform"}, Allocate(f) PROVE Typed'
  BY <1>1, <1>2, <1>3, <1>4, PassedKeepsTypes, FailedKeepsTypes DEF Allocate
<1>5. CASE InitLibelf
  <2> DEFINE x == [h EXCEPT !.mapping = "null", !.elf = "null"]
  <2>1. FieldsTyped(x) /\ lost' = lost /\ "libelf" \in Stages
    BY <1>2, <1>3, <1>5 DEF InitLibelf
  <2>2. libelf' \in [initialized : BOOLEAN, ready : BOOLEAN]
    <3>1. \/ libelf' = libelf
          \/ \E b \in BOOLEAN : libelf' = [initialized |-> TRUE, ready |-> b]
      BY <1>5, Zenon DEF InitLibelf
    <3>2. CASE libelf' = libelf
      BY <1>1, <3>2
    <3>3. CASE \E b \in BOOLEAN : libelf' = [initialized |-> TRUE, ready |-> b]
      BY <3>3
    <3>4. QED
      BY <3>1, <3>2, <3>3
  <2>3. CASE Passed("libelf", x)
    BY <1>1, <2>1, <2>2, <2>3, PassedKeepsTypes
  <2>4. CASE Failed("libelf", x)
    BY <1>1, <2>1, <2>2, <2>4, FailedKeepsTypes
  <2>5. QED
    BY <1>5, <2>3, <2>4 DEF InitLibelf
<1>6. CASE MapFile
  <2>1. /\ libelf' = libelf /\ lost' \subseteq Fields \cup {"fd"}
        /\ \/ Passed("map", [h EXCEPT !["mapping"] = "live"])
           \/ Passed("map", [h EXCEPT !["mapping"] = "refused"])
           \/ Failed("map", h)
           \/ Failed("map", [h EXCEPT !["mapping"] = "live"])
    BY <1>1, <1>6 DEF MapFile
  <2>2. QED
    BY <1>1, <1>2, <1>3, <2>1, PassedKeepsTypes, FailedKeepsTypes
<1>7. CASE OpenElf
  <2>1. CASE Passed("elf", [h EXCEPT !["elf"] = "live"])
    BY <1>1, <1>2, <1>3, <1>7, <2>1, PassedKeepsTypes DEF OpenElf
  <2>2. CASE Failed("elf", h)
    BY <1>1, <1>3, <1>7, <2>2, FailedKeepsTypes DEF OpenElf
  <2>3. CASE pc' = "undefined" /\ UNCHANGED <<self, stage, h, class, rc, handles>>
    BY <1>7, <2>3 DEF OpenElf, Typed, ControlTyped, FieldsTyped
  <2>4. QED
    BY <1>7, <2>1, <2>2, <2>3 DEF OpenElf
<1>8. CASE CheckKind
  BY <1>1, <1>3, <1>8, PassedKeepsTypes, FailedKeepsTypes DEF CheckKind
<1>9. ASSUME NEW s \in {"header", "section", "segment"}, Look(s) PROVE Typed'
  BY <1>1, <1>3, <1>9, PassedKeepsTypes, FailedKeepsTypes DEF Look
<1>10. ASSUME NEW s \in {"dwarf", "isa", "code"},
              NEW f \in {"dbg", "transformables", "segment"}, Open(s, f)
       PROVE  Typed'
  BY <1>1, <1>2, <1>3, <1>10, PassedKeepsTypes, FailedKeepsTypes DEF Open
<1>11. CASE FindFunctions
  BY <1>1, <1>3, <1>11, PassedKeepsTypes, FailedKeepsTypes DEF FindFunctions
<1>12. QED
  BY <1>4, <1>5, <1>6, <1>7, <1>8, <1>9, <1>10, <1>11 DEF InitStep

(***************************************************************************)
(* No field is ever left in a state that its kind does not have: a mapping *)
(* that was refused is never taken for one that is there or was closed, and*)
(* what is lost are fields and the descriptor of map_file() (rave.c:83-245,*)
(* binary.c:39-127).                                                       *)
(***************************************************************************)
THEOREM HandleIsTyped == Spec => []TypeOK
<1>1. Init => Typed
  <2> SUFFICES ASSUME Init PROVE Typed
    OBVIOUS
  <2>1. FieldsTyped(Fresh)
    BY DEF FieldsTyped, Fresh, Fields, States
  <2>2. "metadata" \in Stages
    BY DEF Stages, Follows
  <2>3. QED
    BY <2>1, <2>2, MaxHandlesAssumption DEF Init, Typed, ControlTyped
<1>2. Typed /\ [Next]_vars => Typed'
  <2> SUFFICES ASSUME Typed, [Next]_vars PROVE Typed'
    OBVIOUS
  <2>1. FieldsTyped(Fresh) /\ "metadata" \in Stages
    BY DEF FieldsTyped, Fresh, Fields, States, Stages, Follows
  <2>2. CASE Create
    <3>1. handles' \in 0 .. MaxHandles
      BY <2>2, MaxHandlesAssumption DEF Create, Typed, ControlTyped
    <3>2. QED
      BY <2>1, <2>2, <3>1 DEF Create, Typed, ControlTyped
  <2>3. CASE InitStep
    BY <2>3, InitStepKeepsTypes
  <2>4. CASE Close
    <3>1. FieldsTyped(h')
      BY <2>4, CloseKeepsTypes DEF Close, Typed
    <3>2. ControlTyped'
      BY <2>4 DEF Close, Typed, ControlTyped
    <3>3. QED
      BY <3>1, <3>2 DEF Typed
  <2>5. CASE Destroy
    BY <2>1, <2>5 DEF Destroy, Held, Typed, ControlTyped
  <2>6. CASE UNCHANGED vars
    BY <2>6 DEF vars, Typed, ControlTyped, FieldsTyped
  <2>7. QED
    BY <2>2, <2>3, <2>4, <2>5, <2>6 DEF Next
<1>3. Typed => TypeOK
  BY DEF Typed, ControlTyped, FieldsTyped, TypeOK
<1>4. QED
  BY <1>1, <1>2, <1>3, PTL DEF Spec

=============================================================================
