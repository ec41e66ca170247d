------------------------------- MODULE Handle -------------------------------
(***************************************************************************)
(* The life of a handle: rave_create(), rave_init(), rave_close() and      *)
(* rave_destroy() of src/rave.c, with the parts of src/binary.c,           *)
(* src/metadata_dwarf.c and src/transform.c they open and close.           *)
(*                                                                         *)
(* The handle comes from malloc(), so a field that nothing has written is  *)
(* "garbage"; one that has been released and not reset is "dead".  The     *)
(* program that uses the library does what the tests do: it closes a       *)
(* handle whose rave_init() succeeded, once, and otherwise leaves the      *)
(* closing to rave_init() (rave.c:216-219).                                *)
(***************************************************************************)
EXTENDS Naturals

CONSTANT
  MaxHandles    \* how many handles the program uses, one after the other

ASSUME MaxHandlesAssumption == MaxHandles \in Nat \ {0}

VARIABLES
  pc,       \* what the program is doing with its handle
  self,     \* "null" when malloc() refused rave_create() a handle
  stage,    \* the next thing rave_init() will do
  h,        \* the handle's fields, and those of what they point at
  class,    \* the class of the file: "elf64", "elf32" or "other"
  libelf,   \* initialized: the static variable; ready: elf_version() succeeded
  rc,       \* what the last call that has returned said: "ok" or "error"
  lost,     \* what was held when the last pointer to it went
  handles   \* how many handles have been created

vars == <<pc, self, stage, h, class, libelf, rc, lost, handles>>

-----------------------------------------------------------------------------

Fields == {"segment", "metadata", "dbg", "elf", "mapping", "transform",
           "transformables"}

Fresh == [f \in Fields |-> "garbage"]

\* What rave_init() does, in order, and what each success initializes.
FollowsWithoutIsa ==
  [metadata |-> "transform", transform |-> "libelf", libelf |-> "map",
   map |-> "elf", elf |-> "kind", kind |-> "header", header |-> "section",
   section |-> "segment", segment |-> "dwarf", dwarf |-> "code", isa |-> "code",
   code |-> "functions", functions |-> "done"]

Follows ==
  [metadata |-> "transform", transform |-> "libelf", libelf |-> "map",
   map |-> "elf", elf |-> "kind", kind |-> "header", header |-> "section",
   section |-> "segment", segment |-> "dwarf", dwarf |-> "isa", isa |-> "code",
   code |-> "functions", functions |-> "done"]

Stages == DOMAIN Follows

\* The failures that return at once, and those that go to err.
Returning == {"metadata", "transform", "segment", "dwarf", "code", "functions"}

Abandoning == Stages \ Returning

\* rave_close() reads, or frees, something that was never written or is gone.
ClosingIsUndefined(x) ==
  \/ \E f \in {"segment", "metadata", "elf", "mapping", "transform"} :
       x[f] \in {"garbage", "dead"}
  \/ x.metadata = "live" /\ x.dbg \in {"garbage", "dead"}
  \/ x.transform = "live" /\ x.transformables \in {"garbage", "dead"}

Release(x, f) == IF x[f] = "live" THEN [x EXCEPT ![f] = "dead"] ELSE x

ResetForgets(x, f) == IF x[f] = "live" THEN [x EXCEPT ![f] = "dead"] ELSE x

Reset(x, f) == IF x[f] = "live" THEN [x EXCEPT ![f] = "null"] ELSE x

AfterCloseNoDwarf(x, finished, unmapped) ==
  LET x1 == Release(Release(x, "segment"), "metadata")
      x2 == Reset(x1, "elf")
      x3 == IF unmapped THEN Reset(x2, "mapping") ELSE x2
  IN  Release(x3, "transform")

\* rave_close(): finished and unmapped say whether dwarf_finish() and munmap()
\* do their work.  transform_close() empties the list and frees what the
\* transformables own, but not the transformables.
AfterClose(x, finished, unmapped) ==
  LET x1 == Release(x, "segment")
      x2 == IF finished THEN Release(x1, "dbg") ELSE x1
      x3 == Reset(Release(x2, "metadata"), "elf")
      x4 == IF unmapped THEN Reset(x3, "mapping") ELSE x3
  IN  Release(x4, "transform")

Held(x) == { f \in Fields : x[f] = "live" }

-----------------------------------------------------------------------------

Init ==
  /\ pc = "none"
  /\ self = "null"
  /\ stage = "metadata"
  /\ h = Fresh
  /\ class = "other"
  /\ libelf = [initialized |-> FALSE, ready |-> FALSE]
  /\ rc = "ok"
  /\ lost = {}
  /\ handles = 0

\* rave_create(), then the call of rave_init().  A handle of NULL is not an
\* error to rave_init(): it returns 0.
Create ==
  /\ pc = "none"
  /\ handles < MaxHandles
  /\ handles' = handles + 1
  /\ h' = Fresh
  /\ class' \in {"elf64", "elf32", "other"}
  /\ stage' = "metadata"
  /\ \/ self' = "handle" /\ pc' = "init" /\ UNCHANGED rc
     \/ self' = "null" /\ pc' = "open" /\ rc' = "ok"
  /\ UNCHANGED <<libelf, lost>>

\* Stage s of rave_init() does its work and leaves x.
Passed(s, x) ==
  /\ pc = "init" /\ stage = s
  /\ h' = x
  /\ IF Follows[s] = "done"
       THEN pc' = "open" /\ rc' = "ok" /\ UNCHANGED stage
       ELSE stage' = Follows[s] /\ UNCHANGED <<pc, rc>>
  /\ UNCHANGED <<self, class, handles>>

\* Stage s fails with x written so far: it returns, or goes to err, where
\* rave_close() is called on the handle as it stands.  If that reads what was
\* never written, anything may happen, and by chance nothing does: the memory
\* may hold what reads as empty, and the program goes on.
Failed(s, x) ==
  /\ pc = "init" /\ stage = s
  /\ \/ s \in Returning /\ pc' = "failed" /\ h' = x
     \/ s \in Abandoning /\ ClosingIsUndefined(x) /\ pc' = "undefined" /\ h' = x
     \/ /\ s \in Abandoning
        /\ pc' = "failed"
        /\ \E finished, unmapped \in BOOLEAN : h' = AfterClose(x, finished, unmapped)
  /\ rc' = "error"
  /\ UNCHANGED <<self, stage, class, handles>>

\* mop->create() and transform_create()
Allocate(f) ==
  \/ Passed(f, [h EXCEPT ![f] = "live"]) /\ UNCHANGED <<libelf, lost>>
  \/ Failed(f, [h EXCEPT ![f] = "null"]) /\ UNCHANGED <<libelf, lost>>

\* The head of binary_init() and init_libelf(), which asks libelf once only.
InitLibelf ==
  LET x == [h EXCEPT !.mapping = "null", !.elf = "null"]
  IN  /\ UNCHANGED lost
      /\ \/ libelf.initialized /\ Passed("libelf", x) /\ UNCHANGED libelf
         \/ /\ ~libelf.initialized
            /\ Passed("libelf", x)
            /\ libelf' = [initialized |-> TRUE, ready |-> TRUE]
         \/ /\ ~libelf.initialized
            /\ Failed("libelf", x)
            /\ libelf' = [initialized |-> TRUE, ready |-> FALSE]

\* map_file(): a refused mapping is MAP_FAILED, which is not NULL.
MapFile ==
  /\ UNCHANGED libelf
  /\ \/ Passed("map", [h EXCEPT !.mapping = "live"]) /\ UNCHANGED lost
     \/ Passed("map", [h EXCEPT !.mapping = "refused"]) /\ UNCHANGED lost
     \/ Failed("map", h) /\ UNCHANGED lost                 \* open()
     \/ Failed("map", h) /\ lost' = lost \cup {"fd"}       \* fstat()
     \/ Failed("map", [h EXCEPT !.mapping = "live"]) /\ UNCHANGED lost

\* elf_memory() needs an initialized libelf.  It is handed MAP_FAILED too, and
\* may then look for the file there.
OpenElf ==
  /\ UNCHANGED <<libelf, lost>>
  /\ \/ libelf.ready /\ Passed("elf", [h EXCEPT !.elf = "live"])
     \/ Failed("elf", h)
     \/ /\ pc = "init" /\ stage = "elf"
        /\ h.mapping = "refused"
        /\ pc' = "undefined"
        /\ UNCHANGED <<self, stage, h, class, rc, handles>>

\* elf_kind() and gelf_getclass(): refused only when both are wrong, and the
\* kind is wrong only for what is no ELF file.
WrongKindIfRefused == h.mapping = "refused"

WrongKind == class = "other" \/ h.mapping = "refused"

CheckKind ==
  /\ UNCHANGED <<libelf, lost>>
  /\ \/ ~WrongKind /\ Passed("kind", h)
     \/ WrongKind /\ Failed("kind", h)

\* gelf_getehdr(), e_type and check_arch(); binary_find_section();
\* binary_find_segment()
Look(s) ==
  /\ UNCHANGED <<libelf, lost>>
  /\ Passed(s, h) \/ Failed(s, h)

\* dwarf_elf_init(); transform_init(); map_code_pages(): each writes its field
\* when it succeeds.
Open(s, f) ==
  /\ UNCHANGED <<libelf, lost>>
  /\ Passed(s, [h EXCEPT ![f] = "live"]) \/ Failed(s, h)

\* mop->foreach_function() fills the list of transformables, or stops part way.
FindFunctions ==
  /\ UNCHANGED <<libelf, lost>>
  /\ Passed("functions", h) \/ Failed("functions", h)

InitStep ==
  \/ Allocate("metadata") \/ Allocate("transform")
  \/ InitLibelf \/ MapFile \/ OpenElf \/ CheckKind
  \/ Look("header") \/ Look("section") \/ Look("segment")
  \/ Open("dwarf", "dbg") \/ Open("isa", "transformables")
  \/ Open("code", "segment")
  \/ FindFunctions

\* rave_close() of a handle that was opened.  It adds up what its parts return,
\* and binary_close() returns success even if munmap() has failed.
Close ==
  /\ pc = "open"
  /\ IF self = "null"
       THEN pc' = "closed" /\ rc' = "ok" /\ UNCHANGED h
       ELSE IF ClosingIsUndefined(h)
              THEN pc' = "undefined" /\ UNCHANGED <<h, rc>>
              ELSE /\ pc' = "closed"
                   /\ \E finished, unmapped \in BOOLEAN :
                        /\ h' = AfterClose(h, finished, unmapped)
                        /\ rc' = IF finished THEN "ok" ELSE "error"
  /\ UNCHANGED <<self, stage, class, libelf, lost, handles>>

\* rave_destroy(): what the handle still held is out of reach.
Destroy ==
  /\ pc \in {"closed", "failed"}
  /\ pc' = "none"
  /\ lost' = lost \cup Held(h)
  /\ h' = Fresh
  /\ UNCHANGED <<self, stage, class, libelf, rc, handles>>

Next == Create \/ InitStep \/ Close \/ Destroy

Spec == Init /\ [][Next]_vars

-----------------------------------------------------------------------------

\* binary_close() resets what it releases; nothing else is ever reset.
TypeOK ==
  /\ pc \in {"none", "init", "open", "failed", "closed", "undefined"}
  /\ self \in {"null", "handle"}
  /\ stage \in Stages
  /\ \A f \in {"segment", "dbg", "transformables"} :
       h[f] \in {"garbage", "live", "dead"}
  /\ h.metadata \in {"garbage", "null", "live", "dead"}
  /\ h.transform \in {"garbage", "null", "live", "dead"}
  /\ h.elf \in {"garbage", "null", "live"}
  /\ h.mapping \in {"garbage", "null", "live", "refused"}
  /\ class \in {"elf64", "elf32", "other"}
  /\ libelf \in [initialized : BOOLEAN, ready : BOOLEAN]
  /\ rc \in {"ok", "error"}
  /\ lost \subseteq Fields \cup {"fd"}
  /\ handles \in 0 .. MaxHandles

(***************************************************************************)
(* A handle that rave_init() returned 0 for has every part in place: no    *)
(* error on the way was taken for a success, neither a refused mapping,    *)
(* which is MAP_FAILED and not NULL, nor a libelf that an earlier handle   *)
(* failed to initialize and the static variable says has been; and the     *)
(* file is an ELF file (rave.c:157-215, binary.c:24, 53, 93-98).           *)
(***************************************************************************)
OpenIsWhole ==
  pc = "open" /\ self = "handle" =>
    Held(h) = Fields /\ libelf.ready /\ class # "other"

(***************************************************************************)
(* "We need to make sure this is a valid elf file and that it is 64-bit"   *)
(* (binary.c:91-92), "Only 64-bit elfs are supported at this time"         *)
(* (binary.c:97).                                                          *)
(***************************************************************************)
Only64BitIsOpened == pc = "open" /\ self = "handle" => class = "elf64"

(***************************************************************************)
(* A program that closes each opened handle once never makes the library   *)
(* read an unwritten field or free one twice, whatever became of earlier   *)
(* handles; the one call that can is a rave_init() whose failure is of the *)
(* kind that goes to err (rave.c:169-197, 216-219).                        *)
(***************************************************************************)
UndefinedOnlyInFailedInit == pc = "undefined" => stage \in Abandoning

(***************************************************************************)
(* A close that reports success has given back all that opening took, but  *)
(* for the transformables (transform.c:149-153) and a mapping that         *)
(* munmap() would not remove, which it keeps to itself (binary.c:134-143). *)
(* With the mapping gone, no later handle finds anything of this one.      *)
(***************************************************************************)
CloseReleases ==
  pc = "closed" /\ rc = "ok" /\ self = "handle" =>
    Held(h) \subseteq {"transformables", "mapping"}

(***************************************************************************)
(* "Make sure to close anything that has been initialized if we didn't     *)
(* make it all the way through" (rave.c:217-218).                          *)
(***************************************************************************)
FailedInitLeavesNothing == pc = "failed" => Held(h) = {}

=============================================================================
