------------------------------- MODULE Analysis -------------------------------
(***************************************************************************)
(* transform_add_function() of src/transform.c with next_set() and         *)
(* is_epilogue(): one function is decoded from its first byte to its last, *)
(* its prologue and then its epilogues are picked out, and it is accepted  *)
(* or rejected.  One step of the machine decodes one instruction, or takes *)
(* one decision between two scans.  Any allocation may fail.               *)
(*                                                                         *)
(* Addresses are relative to record->addr.  An instruction is an operation, *)
(* a register, and the bytes it begins at and takes; "bad" is a byte       *)
(* sequence that does not decode.  A push or pop of rbp counts as "other"  *)
(* here, because both tests refuse it (transform.c:174-196).               *)
(***************************************************************************)
EXTENDS Naturals, Sequences, FiniteSetsExt

CONSTANT
  Bodies      \* the functions to analyse, as sequences of instructions

Instructions ==
  [op : {"push", "pop", "other", "bad"}, reg : STRING, at : Nat, len : Nat \ {0}]

\* Where instruction k of b begins, or b ends.
OffsetIn(b, k) == IF k = 1 THEN 0 ELSE b[k - 1].at + b[k - 1].len

\* An instruction follows the one before, and so all that are before.
ASSUME BodiesAssumption ==
  \A b \in Bodies :
    /\ b \in Seq(Instructions)
    /\ \A k \in DOMAIN b : /\ b[k].at = OffsetIn(b, k)
                          /\ \A j \in 1 .. k : b[j].at <= b[k].at

VARIABLES
  body,       \* the function
  size,       \* record->len
  pc,         \* where transform_add_function has got to
  next,       \* the instruction that *walk points at
  walk,       \* *walk, as an offset from the first byte
  orig,       \* the address the code believes *walk stands for
  set,        \* the set being filled: the prologue first, then a candidate
  fresh,      \* the candidate is as malloc() returned it
  prologue,   \* tf->prologue once it has been scanned
  epilogues,  \* tf->epilogues
  heap,       \* the objects of each kind the call has allocated and kept
  ret,        \* what the call returned
  refused     \* history: an allocation was refused

input == <<body, size>>
scan  == <<next, walk, orig, set, fresh>>
found == <<prologue, epilogues>>

vars == <<input, pc, scan, found, heap, ret, refused>>
-----------------------------------------------------------------------------
\* A body may be cut short in the middle of its last instruction.
Sizes(b) ==
  LET total == OffsetIn(b, Len(b) + 1)
  IN  {total} \cup IF b # <<>> /\ b[Len(b)].len > 1 THEN {total - 1} ELSE {}

\* instr_set_init()
EmptySet(at) == [start |-> at, end |-> at, instrs |-> <<>>]

Bytes(s) == s.end - s.start

\* The instructions in sets are told apart, other objects are counted; spare is
\* the instruction that next_set() decodes into.
Nothing == [tf |-> 0, order |-> 0, sets |-> 0, instrs |-> {}, spare |-> 0]

\* The instructions in a sequence of sets.
Held(sets) == UNION {Range(sets[i].instrs) : i \in DOMAIN sets}

\* test_instr_prologue() and test_instr_epilogue()
Wanted(instr) ==
  instr.op = IF prologue = <<>> THEN "push" ELSE "pop"

IsEpilogueSameOrder(pro, epi) ==
  /\ Len(pro.instrs) = Len(epi.instrs)
  /\ \A i \in DOMAIN pro.instrs :
       body[pro.instrs[i]].reg = body[epi.instrs[i]].reg

\* is_epilogue(): as many pops, of the same registers the other way round.
IsEpilogue(pro, epi) ==
  /\ Len(pro.instrs) = Len(epi.instrs)
  /\ \A i \in DOMAIN pro.instrs :
       body[pro.instrs[i]].reg =
         body[epi.instrs[Len(epi.instrs) + 1 - i]].reg

\* A mutation: all that was ever taken is given back, the transformable twice.
CleanupTwice(h, candidate) == [Nothing EXCEPT !.tf = h.tf - 2]

\* A mutation: the order is not freed.
CloseKeepsOrder(h, sets) == [h EXCEPT !.instrs = @ \ Held(sets \o prologue \o epilogues),
                                      !.sets  = @ - Len(epilogues)]

\* transformable_close(): the prologue, the epilogues and the order.
Close(h, sets) == [h EXCEPT !.order = 0, !.instrs = @ \ Held(sets \o prologue \o epilogues),
                            !.sets  = @ - Len(epilogues)]

\* The label err.  The candidate, if there is one, and tf are given back.  The
\* set that is still being scanned for the prologue is part of tf.
Cleanup(h, candidate) ==
  [Close(h, candidate) EXCEPT
     !.tf = @ - 1, !.sets = @ - IF prologue = <<>> THEN 0 ELSE Len(candidate)]

AdvancedPastSet(at, s) == s.end + Bytes(s)

\* Where the code believes it is after a candidate (transform.c:370).
Advanced(at, s) == at + Bytes(s)
-----------------------------------------------------------------------------
Init ==
  /\ body \in Bodies
  /\ size \in Sizes(body)
  /\ pc = "create"
  /\ next = 1 /\ walk = 0 /\ orig = 0
  /\ set = EmptySet(0) /\ fresh = FALSE
  /\ prologue = <<>> /\ epilogues = <<>>
  /\ heap = Nothing
  /\ ret = "none"
  /\ refused = FALSE

Leave(code, kept) ==
  /\ pc' = "done" /\ ret' = code /\ heap' = kept
  /\ UNCHANGED <<scan, found>>

Undefined(why) == pc' = why /\ UNCHANGED <<scan, found, heap, ret>>

\* instr_set_close() destroys an instruction and then asks it for the next one:
\* if DynamoRIO has reused its memory, anything may follow.
Stale(sets) == Held(sets) # {} /\ Undefined("stale")

Err(code, h, candidate) ==
  \/ Leave(code, Cleanup(h, candidate))
  \/ Stale(candidate \o prologue \o epilogues)

\* The label err of next_set(), which closes the set.  While the prologue is
\* being scanned the caller then returns at once (transform.c:331).
ScanFails(code) ==
  LET left == [heap EXCEPT !.spare = 0, !.instrs = @ \ Held(<<set>>)]
  IN  \/ Stale(<<set>>)
      \/ prologue = <<>> /\ Leave(code, left)
      \/ prologue # <<>> /\ Err(code, left, <<EmptySet(orig)>>)

\* An allocation is granted, or is refused and the call gives up.
Granted == UNCHANGED refused
Refused == refused' = TRUE
-----------------------------------------------------------------------------
CreateTransformable ==
  /\ pc = "create"
  /\ \/ /\ Granted
        /\ heap' = [heap EXCEPT !.tf = 1]
        /\ pc' = "enter"
        /\ UNCHANGED <<scan, found, ret>>
     \/ Refused /\ Leave("ENOMEM", heap)
  /\ UNCHANGED input

\* The head of next_set(): an instr_t is created, and the set initialised.
EnterScan ==
  /\ pc = "enter"
  /\ Granted
  /\ set' = EmptySet(orig) /\ fresh' = FALSE
  /\ heap' = [heap EXCEPT !.spare = 1]
  /\ pc' = "scan"
  /\ UNCHANGED <<next, walk, orig, found, ret, input>>

\* Without an instr_t it returns at once, and err closes the candidate: a fresh
\* one has no instrs yet that could be followed.
EnterRefused ==
  /\ pc = "enter"
  /\ Refused
  /\ \/ prologue = <<>> /\ Leave("ENOMEM", heap)
     \/ prologue # <<>> /\ Err("ENOMEM", heap, <<set>>)
     \/ fresh /\ Undefined("unset")
  /\ UNCHANGED input

Decoding == pc = "scan" /\ walk < size

\* decode_from_copy() moves *walk on, and *orig with it.
Decode ==
  /\ Decoding
  /\ body[next].op # "bad"
  /\ next' = next + 1
  /\ walk' = walk + body[next].len
  /\ orig' = orig + body[next].len
  /\ UNCHANGED <<fresh, found, ret, input>>

BadInstruction ==
  /\ Decoding
  /\ body[next].op = "bad"
  /\ ScanFails("ETRANSFORM")
  /\ UNCHANGED <<refused, input>>

\* The instruction joins the set, and a new instr_t is created for the next.
KeepInstruction ==
  /\ Decode
  /\ Wanted(body[next])
  /\ Granted
  /\ set' = [set EXCEPT !.end = orig', !.instrs = Append(@, next)]
  /\ heap' = [heap EXCEPT !.instrs = @ \cup {next}]
  /\ UNCHANGED pc

\* The set that is closed holds an instruction, if only the one just decoded.
KeepRefused ==
  /\ Decoding
  /\ Wanted(body[next])
  /\ Refused
  /\ ScanFails("ENOMEM") \/ Undefined("stale")
  /\ UNCHANGED input

\* An unwanted instruction before the set has begun moves its start along.
SkipInstruction ==
  /\ Decode
  /\ ~Wanted(body[next])
  /\ set.instrs = <<>>
  /\ set' = EmptySet(orig')
  /\ UNCHANGED <<pc, heap, refused>>

ScanEnds == /\ pc' = "scanned"
            /\ heap' = [heap EXCEPT !.spare = 0]

\* One that follows the set ends it; next_set() has consumed it.
EndOfSet ==
  /\ Decode
  /\ ~Wanted(body[next])
  /\ set.instrs # <<>>
  /\ ScanEnds
  /\ UNCHANGED <<set, refused>>

EndOfFunction ==
  /\ pc = "scan"
  /\ walk >= size
  /\ ScanEnds
  /\ UNCHANGED <<scan, found, ret, refused, input>>

\* The first set is the prologue; one push, or none, cannot be permuted.
TooSmall ==
  /\ pc = "scanned" /\ prologue = <<>>
  /\ Len(set.instrs) < 2
  /\ Err("ETRANSFORM", heap, <<set>>)
  /\ UNCHANGED <<refused, input>>

\* instr_set_create(): the fields have no values yet.
NewCandidate == set' = EmptySet(0) /\ fresh' = TRUE

\* tf->order, then the set for the first candidate.
HasPrologue ==
  /\ pc = "scanned" /\ prologue = <<>>
  /\ Len(set.instrs) >= 2
  /\ \/ /\ Granted
        /\ NewCandidate
        /\ prologue' = <<set>>
        /\ heap' = [heap EXCEPT !.order = 1, !.sets = 1]
        /\ pc' = "loop"
        /\ UNCHANGED <<next, walk, orig, epilogues, ret>>
     \/ Refused /\ Err("ENOMEM", heap, <<set>>)
  /\ UNCHANGED input

MoreBytesAtEnd ==
  /\ pc = "loop"
  /\ walk <= size
  /\ pc' = "enter"
  /\ UNCHANGED <<scan, found, heap, ret, refused, input>>

MoreBytes ==
  /\ pc = "loop"
  /\ walk < size
  /\ pc' = "enter"
  /\ UNCHANGED <<scan, found, heap, ret, refused, input>>

\* The candidate mirrors the prologue: it is kept, and a new set is allocated.
\* Without one, err finds the candidate in the list.
KeepEpilogue ==
  /\ pc = "scanned" /\ prologue # <<>>
  /\ IsEpilogue(prologue[1], set)
  /\ \/ /\ Granted
        /\ NewCandidate
        /\ orig' = Advanced(orig, set)
        /\ epilogues' = Append(epilogues, set)
        /\ heap' = [heap EXCEPT !.sets = @ + 1]
        /\ pc' = "loop"
        /\ UNCHANGED <<next, walk, prologue, ret>>
     \/ Refused /\ Err("ENOMEM", heap, <<set>>)
  /\ UNCHANGED input

DropCandidate ==
  /\ pc = "scanned" /\ prologue # <<>>
  /\ ~IsEpilogue(prologue[1], set)
  /\ \/ /\ orig' = Advanced(orig, set)
        /\ set' = [set EXCEPT !.instrs = <<>>]
        /\ heap' = [heap EXCEPT !.instrs = @ \ Held(<<set>>)]
        /\ pc' = "loop"
        /\ UNCHANGED <<next, walk, fresh, found, ret>>
     \/ Stale(<<set>>)
  /\ UNCHANGED <<refused, input>>

\* The candidate set left over is destroyed; the function must have ended where
\* its record says, and with an epilogue.
Unsound ==
  /\ pc = "loop"
  /\ walk >= size
  /\ walk # size \/ epilogues = <<>>
  /\ Err("ETRANSFORM", [heap EXCEPT !.sets = @ - 1], <<>>)
  /\ UNCHANGED <<refused, input>>

Accept ==
  /\ pc = "loop"
  /\ walk = size
  /\ epilogues # <<>>
  /\ Leave("SUCCESS", [heap EXCEPT !.sets = @ - 1])
  /\ UNCHANGED <<refused, input>>

\* transform_close() closes every transformable of the list.
CloseTransform ==
  /\ pc = "done" /\ ret = "SUCCESS"
  /\ \/ /\ pc' = "closed"
        /\ heap' = Close(heap, <<>>)
        /\ UNCHANGED <<scan, found, ret>>
     \/ Stale(prologue \o epilogues)
  /\ UNCHANGED <<refused, input>>

Step ==
  \/ CreateTransformable \/ EnterScan \/ EnterRefused \/ BadInstruction
  \/ KeepInstruction \/ KeepRefused \/ SkipInstruction \/ EndOfSet
  \/ EndOfFunction \/ TooSmall \/ HasPrologue \/ MoreBytes \/ KeepEpilogue
  \/ DropCandidate \/ Unsound \/ Accept

\* The call has returned, and nothing more may happen.
Returned == pc \in {"done", "closed", "stale", "unset"} /\ UNCHANGED vars

Next == Step \/ CloseTransform \/ Returned

\* The call runs in its caller's thread and does not block.
Spec == Init /\ [][Next]_vars /\ WF_vars(Step)
-----------------------------------------------------------------------------

Instrs == 1 .. Len(body)

InstrSets == [start : Nat, end : Nat, instrs : Seq(Instrs)]

TypeOK ==
  /\ body \in Seq(Instructions)
  /\ size \in Sizes(body)
  /\ pc \in {"create", "enter", "scan", "scanned", "loop", "done", "closed", "stale", "unset"}
  /\ next \in 1 .. Len(body) + 1
  /\ walk \in Nat /\ orig \in Nat
  /\ set \in InstrSets
  /\ prologue \in Seq(InstrSets) /\ Len(prologue) <= 1
  /\ epilogues \in Seq(InstrSets)
  /\ heap \in [tf : {0, 1}, order : {0, 1}, sets : Nat, instrs : SUBSET Instrs,
               spare : {0, 1}]
  /\ ret \in {"none", "SUCCESS", "ETRANSFORM", "ENOMEM"}
  /\ fresh \in BOOLEAN /\ refused \in BOOLEAN

\* A longest run of instructions of one kind, at or after instruction "from".
Runs(op, from) ==
  { run \in (from .. Len(body)) \X (from .. Len(body)) :
      /\ run[1] <= run[2]
      /\ \A k \in run[1] .. run[2] : body[k].op = op
      /\ run[1] > from => body[run[1] - 1].op # op
      /\ run[2] < Len(body) => body[run[2] + 1].op # op }

Length(run) == run[2] + 1 - run[1]

FirstPushes == CHOOSE run \in Runs("push", 1) :
                 \A other \in Runs("push", 1) : run[1] <= other[1]

\* The scan for the prologue takes the instruction after it as well.
PopRuns == Runs("pop", FirstPushes[2] + 2)

Mirrors ==
  { run \in PopRuns :
      /\ Length(run) = Length(FirstPushes)
      /\ \A i \in 0 .. Length(run) - 1 :
           body[run[1] + i].reg = body[FirstPushes[2] - i].reg }

Acceptable ==
  /\ \A k \in Instrs : body[k].op # "bad"
  /\ size = OffsetIn(body, Len(body) + 1)
  /\ Runs("push", 1) # {}
  /\ Length(FirstPushes) >= 2
  /\ Mirrors # {}

RunOf(s) == <<s.instrs[1], s.instrs[Len(s.instrs)]>>

(***************************************************************************)
(* The analysis accepts exactly the functions whose first pushes have      *)
(* mirror images later on, and then it holds all of these, in order, and   *)
(* nothing else; whatever runs of pops, partial runs and stray pushes lie  *)
(* in between (transform.c:328-403).                                       *)
(***************************************************************************)
FindsWhatIsThere ==
  /\ ret = "SUCCESS" =>
       /\ Acceptable
       /\ RunOf(prologue[1]) = FirstPushes
       /\ { RunOf(epilogues[i]) : i \in DOMAIN epilogues } = Mirrors
       /\ Len(epilogues) = Cardinality(Mirrors)
       /\ \A i \in 1 .. Len(epilogues) - 1 :
            RunOf(epilogues[i])[2] < RunOf(epilogues[i + 1])[1]
  /\ ret = "ETRANSFORM" => ~Acceptable

BytesOf(run) == OffsetIn(body, run[2] + 1) - OffsetIn(body, run[1])

(***************************************************************************)
(* How far off the recorded addresses are: a set is recorded past its      *)
(* place by the bytes of every run of pops that was a candidate before it, *)
(* its own length is right, and the prologue and the first run are exact   *)
(* (transform.c:235, 259 and 370).                                         *)
(***************************************************************************)
DriftIsEarlierPops ==
  ret = "SUCCESS" =>
    /\ prologue[1].start = OffsetIn(body, FirstPushes[1])
    /\ Bytes(prologue[1]) = BytesOf(FirstPushes)
    /\ \A i \in DOMAIN epilogues :
         LET run     == RunOf(epilogues[i])
             earlier == { p \in PopRuns : p[2] < run[1] }
         IN  /\ Bytes(epilogues[i]) = BytesOf(run)
             /\ epilogues[i].start =
                  OffsetIn(body, run[1]) + MapThenSumSet(BytesOf, earlier)

(***************************************************************************)
(* What the call keeps is what the list owns: on success tf, its order,    *)
(* one set for each epilogue and the instructions in them.  A rejected     *)
(* function keeps nothing, save one case: tf itself is lost when the scan  *)
(* for the prologue meets a byte sequence it cannot decode or is refused   *)
(* memory (transform.c:329-332).  Closing gives back all but tf (:149).    *)
(***************************************************************************)
KeepsWhatItOwns ==
  /\ pc = "done" /\ ret = "SUCCESS" =>
       heap = [tf |-> 1, order |-> 1, sets |-> Len(epilogues), spare |-> 0,
               instrs |-> UNION {run[1] .. run[2] : run \in {FirstPushes} \cup Mirrors}]
  /\ pc = "closed" => heap = [Nothing EXCEPT !.tf = 1]
  /\ ret \in {"ETRANSFORM", "ENOMEM"} /\ heap # Nothing =>
       /\ heap = [Nothing EXCEPT !.tf = 1]
       /\ refused \/ \E k \in Instrs :
                       /\ body[k].op = "bad"
                       /\ \A run \in Runs("push", 1) : k <= run[2] + 1

(***************************************************************************)
(* Reading what was never written, or what has been destroyed.  The links  *)
(* of a set nobody has initialized are followed only where memory has run  *)
(* out (transform.c:434).  Destroyed instructions are asked for the next   *)
(* one (transform.c:69) when tf is closed, but as long as a function is    *)
(* being accepted only if one of its runs of pops is no epilogue.          *)
(***************************************************************************)
UndefinedIsRejection ==
  /\ pc = "unset" => refused
  /\ pc = "stale" /\ ret = "none" => refused \/ ~Acceptable \/ PopRuns # Mirrors

\* The analysis of every function ends.
Ends == <>(pc \in {"done", "stale", "unset"})

=============================================================================
