# A verification of librave in TLA+

librave loads an ELF executable, finds the functions that save registers with a
run of pushes and restore them with mirrored runs of pops, and on request
rewrites these pushes and pops in a random order.  A monitor maps the rewritten
pages into a running process by asking the library to handle page faults.

This directory holds TLA+ modules for the parts of the library, TLC
configurations that check them on small instances, and proofs checked by TLAPS.
Every definition follows the C code; `PROJECT.json` maps each definition to its
lines, lists the runs, the hazards that the properties are about, and for each
property a mutation of the code that breaks it.

## 1. Inventory

| Part | State it keeps | Operations | Module |
|---|---|---|---|
| Transformer: analysis (`transform.c` 158-439) | a `transformable` per function: record, prologue, epilogues, order | `transform_add_function`, `next_set`, `is_epilogue` | `Analysis` |
| Transformer: permutation (`transform.c` 467-572) | the text, `tf->order` | `transform_permute_all`, `permute`, `instr_set_encode_order` | `Slots`, `Layout`, `Permute`, `Randomizer` |
| Random (`random.c`) | the array it is given | `shuffle`, `swap` | `Shuffle` |
| Debug information (`metadata_dwarf.c`), callback `process_function` (`rave.c` 49-81) | libdwarf's DIEs, the list of transformables | `foreach_function` and its helpers | `Metadata` |
| Handle (`rave.c` 83-245), with `binary_init/close`, `metadata` and `transform` init and close | the fields of `rave_handle`, the static flag of `init_libelf` | `rave_create/init/close/destroy` | `Handle` |
| Code pages (`rave.c` 95-143, 260-331; the searches of `binary.c`; `section.c`, `segment.c`) | the mapping, two windows on it, `reloc_offset` | `map_code_pages`, `rave_relocate`, `rave_handle_fault`, `rave_get_*` | `Pages` |
| Window (`window.c`, `util.h`) | orig, data, length | `window_*` | `Window` |
| List (`list.h`), and the loops that empty a list (`transform.c` 89-109, 145-156) | the links of heads and entries, the two cursors of a loop | `list_*`, `list_for_each*` | `Rows`, `Links` |
| An open handle at work (`rave.c` 247-298) | the windows, `reloc_offset`, the text, and outside the library the pages a process was given | `rave_randomize`, `rave_relocate`, `rave_handle_fault` in any order | `Librave` |
| Logging, memory and error macros, printing | none of their own | | not modelled |
| libelf, libdwarf, DynamoRIO | external | each call may fail | inside the modules above |

How they interact.  `rave_init()` opens the binary, finds `.text` and the segment
around it, opens the debug information, sets the decoder's mode, maps the code
and then calls `foreach_function()`, whose callback checks each function against
the text window and hands its bytes to `transform_add_function()`.
`rave_randomize()` calls `transform_permute_all()`, which shuffles the order of
each function in the list and encodes its decoded instructions through the text
window.  `rave_handle_fault()` returns pointers into the same memory through the
segment window.  All calls are synchronous and run in the caller's thread; there
is one process and no locking.  A fault of the process that runs the code may be
answered between any two writes of a randomization, since both only need the
handle; that is the one place where steps of two actors mix.  The rest of what
makes the code hard is not parallelism but

* **failures half way**: an encoding, an allocation or a libdwarf call fails
  after some of the work is done, and nothing is rolled back;
* **sequences of calls**: randomizing again after a failure, relocating again,
  opening another handle after one failed;
* **arithmetic of orders and addresses**: mirrored permutations, starts of
  instruction sets, unsigned wrap-around, pages.

What makes each part correct:

* analysis: accepts exactly the functions with a mirrored prologue, holds all of
  its epilogues, at their addresses, and owns what it keeps;
* permutation: between calls every function restores what it saves; a failure
  spoils one function at most, and the next success mends it; nothing but
  preservation code is written;
* shuffle: always a permutation, each reachable by one sequence of indices,
  terminates;
* debug information: DIEs and errors are given back, once, on every path; listed
  functions lie in the text;
* handle: success means complete; close releases; no unwritten field is read;
* pages: a fault gets the right page or nothing; both windows show one memory;
* list: `next` and `prev` stay each other's inverse, each function does what its
  comment says, a loop that deletes sees every entry;
* an open handle: what a process is served is what the library holds, and it runs
  whole functions, though pages are served between the steps of a randomization.

## 2. The modules

`Slots` - order vectors.  `Mirror` is `eorder` of `permute()`, `Placed` the local
array of `instr_set_encode_order()`, `Undoes` what an epilogue must do.

`Layout` - cells `<<function, set, slot>>`, the instruction each holds as
compiled, and `Consistent(code, r)`: there is an order by which the prologue of
r saves and every epilogue restores.

`Randomizer` (abstract) - what a caller of `rave_randomize()` can rely on:
`Succeed` leaves every function of `Kept` consistent; `Fail` may spoil one
function, each of the others in `Kept` is unchanged or consistent.

`Permute` - the text by address, `tf->order`, and the position of the loops as
`pc, cur, set, slot`.  Actions: `Call`, `BeginFunction` (the shuffle: any order),
`Encode` (one instruction), `EncodeFails` (return at once), `NullTarget`
(`window_view()` gave NULL), `NextSet`, `EndFunction`, `Return`.  `Place` is
where a set is, `Rec` what the analysis recorded; the two are different
parameters because the analysis is wrong about some (section 5).  `Undisturbed`
are the functions about which it is right and which no set of another function,
recorded past its place, runs into; what is promised is promised to them, in any
text, whatever else is in it, and `Kept` of `Randomizer` is `Undisturbed`.  A
write past the end of the text is not followed.  Two list entries may be the
same function, and where memory ran out while the list was made its end is missing
(`last`).  History variables: `torn`, the functions whose
rewriting has begun and not ended, and `seen`, the text at the last return.
Abstractions: an instruction takes one address.  In the code it takes as many
bytes as it was decoded from, pushes and pops of one register have equal length,
and so a set fills exactly its bytes in any order: that is why the test at
`transform.c:496` never fires and is not a step.

`Shuffle` - one iteration of the loop a step; `rand()` is any value up to
`RandMax`, and `Index` what `rand() % k` makes of it.  `draws` keeps the values of
`rand()`.

`Analysis` - one decoded instruction a step, with lengths in bytes; every
allocation may be refused.  An instruction is an operation, a register and the
bytes it begins at and takes; push and pop of rbp are `other` because both tests
refuse them.  The call ends in `Accept`, or through `Err` with what `Cleanup`
gives back, and `CloseTransform` is `transformable_close()`.  `heap` has the
objects of each kind that the call has taken and kept: which instructions, and
how many of the others; `spare` is the instruction that `next_set()` decodes
into.  `fresh` says that the candidate is as malloc() returned it, so
that closing it is `Undefined("unset")`; `Stale` is the loop of
`instr_set_close()`, which asks an instruction for the next one after it has
destroyed it.

`Window` - `CONTAINS`, `window_view()` and lengths, in arithmetic modulo `Word`.

`Metadata` - one libdwarf call a step, each of which may fail, and a step for each
of the places where an error is passed on.  `live` is what libdwarf has handed out
and not been given back: the DIE of a unit, each child by its number, an error.
`Deal` is a call (what it is asked about, what it hands out) with the
`dwarf_dealloc()` that follows it, and `misused` keeps what was given back twice or
used after it was given back.  `die` and `next` are `cur_die` and `next_die`, which
keep pointing at DIEs that libdwarf has back.  The callback accepts, rejects or
runs out of memory.  What makes it accept is `Analysis`.

`Handle` - each field is `garbage` (from malloc), `null`, `live` or `dead`; one
step for each part that `rave_init()` opens, in order, with its failures, and the
two ways it treats them (`Returning`, or `goto err`).  `undefined` is the state
in which the code reads a field that nothing has written or that is gone.  When a
`rave_init()` that failed closes such a handle, the program either ends there or,
by chance, finds nothing in the unwritten fields and goes on, so that a later
handle meets what the failed one left in the static variable of `init_libelf()`.

`Pages` - one entry of the section or segment table a step, then the mapping,
relocations and faults in any order.  `int` keeps fewer values than an address.
`LoadedPages` is what the kernel maps of the segment, to the end of its last page,
and `Padding` the end of that page behind a segment with as many bytes in the file
as in memory: the kernel shows the file there as it goes on, the library zeros.

`Rows` (abstract) - what the functions of `list.h` promise: a list is a row of
entries, each function changes the rows it names and no other, and a head that
lost its list without being initialized has no row (`NoRow`).

`Links` - the same functions on the links themselves, each an expression over
`Join(l, p, q)`, which is `p->next = q; q->prev = p`; the loops (`Visits`), and a
loop with two cursors that is safe against removal (`Loop`, `Iterate`,
`EndLoop`).  `Wild` is every link that must not be followed.  `ImplementsRows`
is the refinement: the row of a head is what a loop over it visits.
Abstractions: the caller keeps to what the comments of `list.h` ask for; of a
node that a function took off its list without initializing it, the old links
are forgotten, because nobody may follow them.

`Librave` - the composition: `Permute` rewrites the text while the windows of
`Pages` (an instance, with the handle's fields for its variables) serve the same
memory.  `LibInit` is a handle after `rave_init()` and the first
`rave_relocate()`; then `Relocate` (between randomizations, into a new process),
`Fault` (at any time) and `Randomize` (any step of `Permute`) interleave.  `proc`
is the process, page by page.  Abstractions: a page is copied in one step, and a
page some of whose text was rewritten after it was served is `Stale`, of which
nothing is said: the library cannot take it back, and a program has to unmap it
before it is asked for again.

Proof modules: `ShuffleProofs`, `PermuteProofs`, `AnalysisProofs`,
`MetadataProofs`, `HandleProofs`, `PagesProofs`, `LibraveProofs`, `LinksProofs`.
Instances for TLC: `MCPermute`, `MCLibrave`, `MCAnalysis`, `MCMetadata`,
`MCPages`; `Links`, `Shuffle` and `Handle` take theirs from the .cfg alone.

## 3. The runs

| Run | Instance | Shows |
|---|---|---|
| permute_mixed | g with 3 registers, recorded in place, listed alone or before f whose epilogue is recorded past its end | `TypeOK`, `WholeUnlessTorn`, `BodyIsKept`, `CallReturns` |
| librave | two functions of 2 registers, one of them across two pages; list outer, inner, outer; a process that is replaced | `IndInv`, `SuccessMends`, `ImplementsRandomizer`, `ProcessShowsText`, `RunsWhole` |
| permute_drift | f with 2 epilogues, recorded as the code records them | `SuccessIsWhole` is violated |
| shuffle | 4 slots, `RandMax` 4 | `TypeOK`, `AlwaysAnOrder`, `OrderTellsIndices`, `SettledStays`, `Returns` |
| analysis | all bodies of up to 5 instructions, up to 4 with undecodable ones, tails of up to 6 behind a prologue | `TypeOK`, `FindsWhatIsThere`, `DriftIsEarlierPops`, `KeepsWhatItOwns`, `UndefinedIsRejection`, `Ends` |
| handle | 3 handles | `TypeOK`, `OpenIsWhole`, `UndefinedOnlyInFailedInit`, `CloseReleases` |
| handle_leak | 2 handles | `FailedInitLeavesNothing` is violated |
| handle_elf32 | 1 handle | `Only64BitIsOpened` is violated |
| lists | 2 heads, 3 entries | `TypeOK`, `LinksAgree`, `QueriesAgree`, `LoopSeesAll`, `LoopEnds`, `ImplementsRows` |
| metadata | up to 2 units, up to 2 children of ten kinds | `TypeOK`, `DiesAreGivenBack`, `ListedLieInText`, `ListIsPicked` |
| metadata_memory | the same | `StarvationIsReported` is violated |
| pages | 8 binaries, 7 load addresses, every fault address | `TypeOK`, `ServedIsWhole`, `ServedIsRight`, `AlignedIsServed`, `TextIsInSegment`, `MappedAsLoaded` |

Why the bounds are enough to meet the interesting cases. With two slots an order
and its inverse coincide and so do many wrong mirrors, so g of `permute_mixed`
has three. Behind it in the list, if it is listed, f has three single pops
between the instructions of its body, which the analysis looks at before the
epilogue; the epilogue is so recorded past the end of f, and the call ends in a
write to NULL, unless an encoding fails before. A failure that an entry later in
the list mends needs a function listed twice with another between, as in
`librave`; there addresses have six bits and a page eight, so that one function
lies across two pages, both pages hold text that is not its own, and the code is
loaded where the file says and elsewhere. A drift needs two runs of pops to be
wrong (`permute_drift`). `Analysis` needs a run of pops that is too short, too
long, in the wrong order, right behind the pushes, and at the end of the
function; six instructions behind a prologue hold two runs and what separates
them. A third handle sees what the first two left in libelf, an `elf_version()`
that failed included. Three entries let two neighbours, and two that are not, be
swapped, moved and cut on either side of a third; a second head is where they
go. In `Pages` a page of four bytes and addresses of six bits have unaligned
segments, half-filled last pages with and without bytes of the file behind them,
wrap-around and an address that an `int` cannot hold.
`RandMax` 4 makes `rand() % k` hit every residue, some of them more often than
others for every k but 1, so that different draws give one index.

Deadlock is checked but in `handle*` (the program stops after `MaxHandles`
handles, or where its behaviour is undefined) and `permute_mixed` (a write to
NULL ends the process).

Fairness.  `Permute`, `Shuffle` and `Analysis` assume weak fairness of the steps
of a call that is under way: the code runs in its caller's thread, has no locks
and never waits.  `Links` assumes it of a loop that has begun (`Walk`).  Nothing
is assumed of the caller: no fairness on `Call` or `Again`, on the functions of
`list.h`, or on the faults of a process.

## 4. The proofs

Every invariant that a passing run checks is the conclusion of a theorem.

* `PermuteProofs!MirrorUndoes`: for every n and every order, an epilogue laid out
  by `Mirror` undoes a prologue laid out by the order.  It rests on `Placed` and
  `Mirror` being orders again (lemmas `PlacedIsOrder`, `MirrorIsOrder`).
* `ShuffleProofs`: after every iteration the array is a permutation
  (`ShufflesOrders`), settled entries stay (`SettledIsFinal`), the loop stays
  in the array (`LoopStaysInArray`), and the array tells the indices it was made with
  (`OrdersTellIndices`), for every N and `RandMax`.
* `PermuteProofs`: for any set of functions, registers, list (with duplicates)
  and text, and wherever the sets are recorded, `Invariance` (`[]IndInv`), and from
  it `TypeCorrect` (`[]TypeOK`), `UntornIsWhole` (`[]WholeUnlessTorn`),
  `SuccessHeals` (`[]SuccessMends`), `BodyIsSafe` (`[]BodyIsKept`) and `Refinement`
  (`ImplementsRandomizer`).  None has a hypothesis; the promises are to the functions
  of `Undisturbed`, as the runs check them.
* `AnalysisProofs`: for any functions of any length, and whichever allocation is
  refused, `AnalysisIsRight` (`[]FindsWhatIsThere`), `OwnershipHolds`
  (`[]KeepsWhatItOwns`), `UndefinedReadsAreExplained` (`[]UndefinedIsRejection`),
  `AnalysisIsTyped` (`[]TypeOK`), and `DriftHolds` (`[]DriftIsEarlierPops`): an
  epilogue is recorded beyond its place by the bytes of the runs of pops before
  it.  Its corollary `FirstPopsAreInPlace`: the prologue, and an epilogue with no
  run of pops before it, are recorded where they are.  `AnalysisComesToAnEnd`: each
  step lowers `Remaining`, which is at most ten for each instruction and seven.
* `MetadataProofs`: for any debug information, any text section and any place in
  memory, `DiesBalance` (`[]DiesAreGivenBack`), `ListedAreInText`
  (`[]ListedLieInText`), `ListingPicks` (`[]ListIsPicked`) and `WalkStaysInTree`
  (`[]TypeOK`).
* `HandleProofs`: for any number of handles, `OpenIsComplete`,
  `UndefinedIsInFailure`, `ClosingReleases` and `HandleIsTyped`, from `InvHolds`.
* `PagesProofs`: for any headers, any width of an address and of an int, any page
  size and any load address, every invariant of the run `pages`: `PagesAreTyped`,
  `ServedPagesAreWhole`, `ServedPagesAreRight`, `AlignedPagesAreServed`,
  `WindowsAgree`, `MappingIsAsLoaded`.
* `LibraveProofs`: for any text, list, pages and faults, `ProcessSeesText`
  (`[]ProcessShowsText`), `ProcessRunsWhole` (`[]RunsWhole`, of the functions of
  `Undisturbed` in pages that were not rewritten since they were served) and
  `ServingKeepsPromise` (`ImplementsRandomizer`).
* `LinksProofs`: for any number of heads and entries and any sequence of calls and
  loops, `TypesKept` (`[]TypeOK`), `LinksAlwaysAgree` (`[]LinksAgree`),
  `QueriesAlwaysAgree` (`[]QueriesAgree`) and `LoopsSeeAll` (`[]LoopSeesAll`), from
  `Keeps`; `LoopsComeToAnEnd`: an iteration strikes out the first entry still due,
  and a loop is over when none is; and `LinksImplementRows`, the refinement of `Rows` (`ImplementsRows`).

The argument of `ShuffleProofs`.  `OrderTellsIndices` compares what two series of
draws make of the array, and the array only shows what one of them has made.  The
invariant `Told` therefore says of the draws so far that they replay to the array, and
that others which settle the same first entries in the same way have the same
indices: two series that agree on the entries settled agree, by the draw that
comes next, on one entry more (`ReplayStep`, `ToldSwap`).  With as many sequences of
indices as there are orders, each order comes of one.  It does not follow that
`shuffle()` favours none: of the values of `rand()` one more gives a small index
than a large one unless k divides `RAND_MAX` + 1, and of `rand()` nothing is
assumed.

The argument of `PermuteProofs`.  That a successful call leaves every function
whole is not inductive: one has to know that the sets behind the encoder already
hold what the *new* order says (`Written`), that a function torn by an earlier
failed call is still ahead in the list, so that a call which gets to the end has
rewritten it (`TornIsAhead`), and, for the refinement, that what this call has
not come to is as its caller last saw it (`TornIsUntouched`, `SeenWhenIdle`).
When the last epilogue is done, `Written` covers all the sets and `MirrorUndoes`
makes the function consistent.  Each step of a set writes one cell of an
undisturbed function at most (`EncodeWritesOneCell`), because different cells have
different addresses (`PlaceAssumption`) and the sets that are recorded elsewhere
write to other addresses; `OnlyDriftDisturbs` shows that nothing has to be asked of
the other sets that are recorded in place.

The argument of `AnalysisProofs`.  The property compares what a scan has picked
with runs of the whole function, so the invariant is about the part that has been
decided: it ends at `Boundary`, the first instruction of the set being filled, or
the next one to be decoded.  `Filling` says that the set holds the instructions
from the boundary on, without a gap, that none of its kind is right before it,
and where a scan may stop; `FirstFound` that there is no push before the
boundary until the prologue is known, and then that it is `FirstPushes`;
`MirrorsFound` that the epilogues are the mirror images before the boundary, in
order.  No run of pops lies across the boundary (`NothingStraddles`), so the only
run that a scan passes is the set that it leaves (`SetIsRun`, `PassedRuns`), and
`is_epilogue()` accepts it exactly if it is a mirror image (`EpilogueIsMirror`).
At the end the boundary is the end of the function (`BytesRunOut`), and all the
runs are before it.  Ownership adds `HInv`: while the call is under way what it
has allocated is what the set, the prologue and the epilogues hold, so `err`
finds everything (`NothingIsLeft`), and closing a candidate that is dropped takes
nothing from the sets that were kept (`CandidateIsApart`).  `Places` adds that the
code's address is the decoder's and the bytes of the runs of pops that have been
passed (`DriftOf`); a sum over the runs before a place is split at a run by
`SumsSplit`.

The argument of `MetadataProofs`.  `DiesAreGivenBack` says for each step
of the walk what is in hand, and is inductive with the place in the tree
(`Position`): a child that is handed out has another number than the one at hand, so
that giving back the one does not take the other, and a DIE that libdwarf is asked
about or given back is one in hand.  `ListedLieInText` is about arithmetic modulo `Word`: the bounds check of
`process_function()` alone lets a function through whose length has wrapped
around (a high pc below the low pc), and so does the decoder alone, which only
knows that a function is not empty and does not reach beyond the end of the
window.  Lemma `ChecksSuffice` shows that the two together do not.
`ListIsPicked` is about the whole walk, so its invariant `PickInv` adds that
nothing is listed that the walk has not come to (`PickedFromPassed`), with what
the walk has learnt about the DIE it is at (`Learnt`).

The argument of `HandleProofs`.  The stage of `rave_init()` says which fields are
filled (`Filled`), that the file has been checked, and that libelf is ready once
`elf_memory()` has succeeded: a fact about a static variable that outlives the
handle.  A mapping that is MAP_FAILED is carried along as `refused` until the
check of the kind refuses it.  An open handle then has every field `live`, and
`ClosingWhole` says what `rave_close()` makes of such a handle.

The argument of `PagesProofs`.  `IInv` says what each stage has established: the
section and the segment were found in the headers (`Found`), the windows are what
`map_code_pages()` makes of them (`Mapped`), `reloc_offset` is the difference of
the two bases, and the last answer is `PageFor` of the last question
(`Relocated`).  All the rest is arithmetic modulo `Word`, which is where the code
could be wrong: an unsigned sum wraps around, or it does not, and
`RelocatedIsNear` shows that where the relocated page address wraps around
`window_contains()` refuses it.  Page addresses are multiples of the page size,
so two of them that differ are a page apart (`PagesAreApart`); hence a page that
begins in the mapping ends there too.

The argument of `LibraveProofs`.  Every step of `LibSpec` is a step of `Permute`
or leaves its variables alone (`LibraryPermutes`), which carries all that is
proved of `Permute` over.  `HandleInv` says what the windows and the relocation
are; from the lemmas of `PagesProofs`, instantiated, `PlacesOfText` computes where
an address of the text is in the process and in the mapping, and `FaultShowsText`
that the two meet in the page that is served.  A filled page is therefore equal to
the text until `Randomize` makes it stale; and a function whose pages are all
filled is equal to the library's, which `UntornIsWhole` says is
whole if it is undisturbed.

The argument of `LinksProofs`.  The invariant is that the links represent rows:
there are sequences, one for each head, that share no entry, hold exactly what is
`linked`, and whose neighbours are joined in both directions, the first and the
last with the head.  Every function of `list.h` is a few `Join`s, so it is enough
to say what taking a segment out of a row and joining what is left (`CutOut`),
joining a segment in between two neighbours (`PutIn`), and joining a head with
itself do to the rows; a function is one, two or three of these.  What a loop
visits is then read off the rows, in both directions and from any entry, by
induction on the steps it has taken.  A loop that is under way has a `Trail` ahead
of it in its row, and the trail is what is `due`; the cursor `n` was read before
the entry under `pos` went.  For the refinement it is not enough that there are
rows: the lemmas about the functions say which rows the links lay out afterwards,
`RowsShown` that a loop visits these and no others, so `Shown` is `Plain` of them
before and after, and one lemma for each function (`AddSeen`, `SwapSeen`, ...)
compares that with the action of `Rows`.  The proof found that the guards of `list_splice`, as
first modelled, overlapped for an empty list that is spliced in at a tail.

Assumptions.  `NodesAssumption` of `Links` says that heads, entries and `Wild` are
different, that memory holds finitely many nodes, and that `NoRow` cannot be taken
for a row.  `AlignedPagesAreServed`, `WindowsAgree` and `MappingIsAsLoaded` assume
`LastPageIsFree`: a segment ends at least a page before the end of the address space, or `PAGE_UP()` would wrap around; `WindowsAgree` also assumes
`SectionsLieInSegments`: an int holds the address of a section, and the section
ends where its segment does or before.  `Librave` assumes of its section and
segment what a handle that `rave_init()` has opened satisfies
(`SectionAssumption`).  `AnalysisProofs` uses `BodiesAssumption`: an instruction
begins where the one before it ends.  `MetadataProofs` uses `TreesAssumption`
(the debug information is a sequence of units, each a sequence of DIEs) and
`TextAssumption` (the section and the memory it is read from do not run past the
last address).  The theorems of `PermuteProofs` and
`LibraveProofs` that promise something of a function promise it of `Undisturbed`,
which `Place` and `Rec` determine.  `AnalysisProofs!FirstPopsAreInPlace`
says which functions are recorded in place: those none of whose epilogues has
another run of (non-rbp) pops before it, for instance those with a single epilogue
and no other pops.  Of the others `Analysis!DriftIsEarlierPops` says how far off the
record is; that the promise is not kept to them is what `permute_drift` shows.

Only model-checked: liveness (`CallReturns`, `Returns`, `Ends`, `LoopEnds`), which
is beyond the prover.  Of `Ends` and `LoopEnds` the half that is no liveness is
proved for every size (`AnalysisComesToAnEnd`, `LoopsComeToAnEnd`): what a step
uses up is not restored, so only the fairness of the call itself is left to TLC,
and that a step is enabled until it returns.  The induction theorems of the library
cannot be used by the provers, which do not instantiate operators.  Where a proof
needs induction over data (the sums of `Analysis`, the replay of draws, the path of
a loop) it goes through a set of naturals that has 0 and with k has k + 1
(`ByInduction`), or through a least element (`LeastNat`).

## 5. Where the code and what is said of it disagree

Shown by runs (`PROJECT.json`, findings):

* `transform.c:370` advances the address past a set that `next_set()` has already
  passed; later epilogues are rewritten at the wrong place (`permute_drift`).
* `rave.c:160-212`: six failures of `rave_init()` skip the closing that the
  comment at 217 promises (`handle_leak`).
* `rave.c:77`: out of memory is reported as success (`metadata_memory`).
* `binary.c:94`: `&&` where `||` is meant, so that a 32-bit ELF file for x86-64 is
  opened (`handle_elf32`).

Seen while modelling, in the models as the code has it, not stated as properties:

* `transform.c:486`: the loop reads `instrs[nr_instrs]`, one past the end of a
  local array, before its condition is tested; the value is not used.
* `rave.c:219`: `rave_close()` on a handle that is not complete reads unwritten
  fields (`UndefinedOnlyInFailedInit` says this is the only such call).
* `rave.c:64`: the address after a function's last byte is tested, so the
  function that ends the text section is refused.
* `random.c:19`: `rand() % k` takes small values more often than large ones.
* `binary.c:135`: a `munmap()` that fails is reported as success
  (`CloseReleases` excepts the mapping).
* `test/code_mapping.c:133-139` compares the last page in full, and so expects zeros
  in the file behind the segment (`Padding`).
* Most functions of `list.h` have no caller here.
* `rave.c:330` returns an address, `test/rewrite.c:63` takes it for an offset.
* `binary.c:165` compares a prefix: `.text.hot` before `.text` is taken for it.
* `rave.c:112`: for a segment that begins inside a page, the mapping has another
  length than what the system loads, and its first page is not served.
* `transform.c:331` leaks the transformable and `transform.c:149-153` never frees
  transformables (`KeepsWhatItOwns` says these are all); `transform.c:69` asks a
  destroyed instruction for the next one, and `transform.c:434` may close a set
  that was never initialized (`UndefinedIsRejection` says when).

## 6. Not modelled, and why

Logging, printing and the macros of `memory.h`, `compiler.h` and `errno.h` keep no
state.  The unused `instr_set_encode()`, `window_relocate()` and the disabled
counter of `metadata_dwarf.c` have no caller.  The other modules take a list for a
sequence, as `Rows` does; that the links represent one is `Links`.  The hash lists
that the kernel's `list.h` also has are not in this copy.  What DynamoRIO itself
allocates is not followed, only the library's own objects.  A truncated or
inconsistent ELF file is out of scope: `Pages` assumes that a section lies in its
segment at the place the offsets say, and that a segment has no more bytes in the
file than in memory (`FilesAssumption`).  A page that is copied while one of its
instructions is being written is taken as copied before.  The prefix comparison of
`binary.c:165` is modelled as it is (`Matches`) but has no property of its own.

## 7. Plan

1. Done: `Slots`, `Layout`, `Randomizer`, `Permute` with its refinement and
   proofs; `Shuffle` with proofs; `Analysis`, `Metadata`, `Handle`, `Window`,
   `Pages`; proofs about `Metadata` and `Handle`.
2. Done: `Librave`, the composition of `Pages` and `Permute` with the process that
   runs the code, with proofs; `Rows` and `Links`; ownership and stale reads in
   `Analysis`; proofs of every invariant of `Pages`; the type invariants.
3. Done: proofs of every invariant that a run checks, the drift of `Analysis`, the
   orders of `Shuffle`, the list of `Metadata` and all of `Links` included; the
   refinement of `Rows` by `Links`.
4. Left: an abstract specification of the analysis (a function is accepted or not,
   in one step) that `Analysis` implements, and `Permute` composed with it, so that
   `Rec` and `Undisturbed` are the analysis's own answers.
