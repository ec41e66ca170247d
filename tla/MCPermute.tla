------------------------------ MODULE MCPermute ------------------------------
(***************************************************************************)
(* Instances of Permute.  A function is laid out the way gcc lays one out: *)
(* its pushes, a body of one instruction, its pops, and a return; a second *)
(* epilogue follows after another body instruction.                        *)
(***************************************************************************)
EXTENDS Permute, TLC

CONSTANTS f, g

TwoRegs == [r \in Regions |-> (0 :> "rbx" @@ 1 :> "r12")]

\* Prologue of n, body, epilogue of n, return, and so on from address a.
PlacesFrom(a, n, epis) == [e \in 0 .. epis |->
                             IF e = 0 THEN a ELSE a + e * (n + 1) + (e - 1)]
LengthOf(n, epis) == n + epis * (n + 2)

\* f has two epilogues and stands in the text before g and in the list after it.
DriftSize == f :> 2 @@ g :> 2
DriftNumEpis == f :> 2 @@ g :> 1
DriftFirst == f :> 0 @@ g :> LengthOf(2, 2)
DriftLen == f :> LengthOf(2, 2) @@ g :> LengthOf(2, 1)
DriftPlace == f :> PlacesFrom(0, 2, 2) @@ g :> PlacesFrom(LengthOf(2, 2), 2, 1)
DriftAddrs == 0 .. LengthOf(2, 2) + LengthOf(2, 1) - 1
DriftRegionOf == <<g, f>>

\* What the analysis records for them: each epilogue lies past its place by the
\* pops of the epilogues before it (transform.c:370).
DriftedRec ==
  [r \in Regions |->
     [e \in SetsOf(r) |->
        Place[r][e] + (IF e = 0 THEN 0 ELSE (e - 1) * Size[r])]]

\* g has three slots and one epilogue.  f behind it in the list has an epilogue
\* too, but single pops three times before it, each between two instructions of
\* the body.  The analysis looks at these first, so that it records the epilogue
\* past the end of f.  The list is g and f, or g alone.
MixedSize == f :> 2 @@ g :> 3
MixedNumEpis == f :> 1 @@ g :> 1
MixedSaved ==
  f :> (0 :> "rbx" @@ 1 :> "r12") @@ g :> (0 :> "rbx" @@ 1 :> "r12" @@ 2 :> "r13")
MixedFirst == f :> 0 @@ g :> 12
MixedLen == f :> 12 @@ g :> LengthOf(3, 1)
MixedPlace == f :> (0 :> 0 @@ 1 :> 9) @@ g :> PlacesFrom(12, 3, 1)
MixedRec == f :> (0 :> 0 @@ 1 :> 9 + 3) @@ g :> PlacesFrom(12, 3, 1)
MixedAddrs == 0 .. 12 + LengthOf(3, 1) - 1

=============================================================================
