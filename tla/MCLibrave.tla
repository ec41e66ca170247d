------------------------------ MODULE MCLibrave ------------------------------
(***************************************************************************)
(* An instance of Librave: addresses of six bits and pages of eight        *)
(* addresses.  The text begins in the middle of the first page of its      *)
(* segment and ends with the second; outer lies across both.               *)
(***************************************************************************)
EXTENDS Librave, TLC

CONSTANTS outer, inner

\* Prologue, one instruction, epilogue, return: outer, and then inner.
LibSize == outer :> 2 @@ inner :> 2
LibNumEpis == outer :> 1 @@ inner :> 1
LibSaved == [r \in {outer, inner} |-> (0 :> "rbx" @@ 1 :> "r12")]
LibFirst == outer :> 12 @@ inner :> 18
LibLen == outer :> 6 @@ inner :> 6
LibPlace == outer :> (0 :> 12 @@ 1 :> 15) @@ inner :> (0 :> 18 @@ 1 :> 21)
LibAddrs == 12 .. 23
LibRegionOf == <<outer, inner, outer>>

LibSection == [name |-> ".text", addr |-> 12, offset |-> 4, size |-> 12]
LibSegment == [type |-> 1, vaddr |-> 8, offset |-> 0, filesz |-> 16, memsz |-> 16]

=============================================================================
