---------------------------- MODULE AnalysisProofs ----------------------------
(***************************************************************************)
(* Proofs about Analysis, for every function: whatever its instructions    *)
(* are, and whichever allocation is refused.                               *)
(***************************************************************************)
EXTENDS Analysis, FiniteSetTheorems, WellFoundedInduction, TLAPS

(***************************************************************************)
(* Runs: two of one kind that overlap are the same.                        *)
(***************************************************************************)
LEMMA RunIsPair ==
  ASSUME NEW op, NEW f \in Nat, NEW r \in Runs(op, f)
  PROVE  /\ r = <<r[1], r[2]>>
         /\ r[1] \in f .. Len(body) /\ r[2] \in f .. Len(body) /\ r[1] <= r[2]
         /\ \A k \in r[1] .. r[2] : body[k].op = op
         /\ r[1] > f => body[r[1] - 1].op # op
         /\ r[2] < Len(body) => body[r[2] + 1].op # op
BY DEF Runs

LEMMA RunsDiffer ==
  ASSUME body \in Seq(Instructions), NEW op, NEW f \in Nat,
         NEW r \in Runs(op, f), NEW q \in Runs(op, f),
         r[1] <= q[1], q[1] <= r[2]
  PROVE  r = q
<1>1. Len(body) \in Nat
  OBVIOUS
<1>2. /\ r = <<r[1], r[2]>> /\ q = <<q[1], q[2]>>
      /\ r[1] \in f .. Len(body) /\ r[2] \in f .. Len(body)
      /\ q[1] \in f .. Len(body) /\ q[2] \in f .. Len(body) /\ q[1] <= q[2]
  BY RunIsPair
<1>3. /\ \A k \in r[1] .. r[2] : body[k].op = op
      /\ \A k \in q[1] .. q[2] : body[k].op = op
      /\ q[1] > f => body[q[1] - 1].op # op
      /\ r[2] < Len(body) => body[r[2] + 1].op # op
      /\ q[2] < Len(body) => body[q[2] + 1].op # op
  BY RunIsPair
<1>4. q[1] = r[1]
  <2>1. SUFFICES ASSUME r[1] < q[1] PROVE FALSE
    BY <1>1, <1>2
  <2>2. q[1] - 1 \in r[1] .. r[2] /\ q[1] > f
    BY <1>1, <1>2, <2>1
  <2>3. QED
    BY <1>3, <2>2
<1>5. ~(r[2] < q[2])
  <2>1. SUFFICES ASSUME r[2] < q[2] PROVE FALSE
    OBVIOUS
  <2>2. r[2] + 1 \in q[1] .. q[2] /\ r[2] < Len(body)
    BY <1>1, <1>2, <2>1
  <2>3. QED
    BY <1>3, <2>2
<1>6. ~(q[2] < r[2])
  <2>1. SUFFICES ASSUME q[2] < r[2] PROVE FALSE
    OBVIOUS
  <2>2. q[2] + 1 \in r[1] .. r[2] /\ q[2] < Len(body)
    BY <1>1, <1>2, <1>4, <2>1
  <2>3. QED
    BY <1>3, <2>2
<1>7. r[2] = q[2]
  BY <1>1, <1>2, <1>5, <1>6
<1>8. QED
  BY <1>2, <1>4, <1>7

(***************************************************************************)
(* The first pushes are those before which there is no push.               *)
(***************************************************************************)
LEMMA FirstIsFirst ==
  ASSUME body \in Seq(Instructions), NEW r \in Runs("push", 1),
         \A k \in 1 .. r[1] - 1 : body[k].op # "push"
  PROVE  FirstPushes = r
<1> DEFINE Least(run) == \A other \in Runs("push", 1) : run[1] <= other[1]
<1>1. Len(body) \in Nat
  OBVIOUS
<1>2. Least(r)
  <2>1. SUFFICES ASSUME NEW q \in Runs("push", 1), q[1] < r[1] PROVE FALSE
    BY <1>1, RunIsPair
  <2>2. q[1] \in q[1] .. q[2] /\ q[1] \in 1 .. r[1] - 1
    BY <1>1, <2>1, RunIsPair
  <2>3. QED
    BY <2>2, RunIsPair
<1>3. FirstPushes \in Runs("push", 1) /\ Least(FirstPushes)
  BY <1>2 DEF FirstPushes
<1>4. FirstPushes[1] = r[1]
  BY <1>1, <1>2, <1>3, RunIsPair
<1>5. QED
  BY <1>1, <1>3, <1>4, RunsDiffer, RunIsPair

(***************************************************************************)
(* Where an instruction begins: the bytes of a function end with its last  *)
(* instruction, even if the last is cut short.                             *)
(***************************************************************************)
LEMMA OffsetsRise ==
  ASSUME NEW b \in Bodies, NEW k \in DOMAIN b
  PROVE  /\ OffsetIn(b, k) \in Nat /\ OffsetIn(b, k) = b[k].at
         /\ OffsetIn(b, k + 1) = OffsetIn(b, k) + b[k].len
         /\ OffsetIn(b, k + 1) \in Nat
<1>1. b \in Seq(Instructions) /\ b[k].at = OffsetIn(b, k)
  BY BodiesAssumption
<1>2. b[k] \in Instructions /\ k \in Nat \ {0}
  BY <1>1
<1>3. b[k].at \in Nat /\ b[k].len \in Nat
  BY <1>2 DEF Instructions
<1>4. OffsetIn(b, k + 1) = b[k].at + b[k].len
  <2>1. k + 1 # 1 /\ (k + 1) - 1 = k
    BY <1>2
  <2>2. QED
    BY <2>1 DEF OffsetIn
<1>5. QED
  BY <1>1, <1>3, <1>4

LEMMA OffsetsAreNat ==
  ASSUME NEW b \in Bodies, NEW k \in 1 .. Len(b) + 1
  PROVE  OffsetIn(b, k) \in Nat
<1>1. CASE k = 1
  BY <1>1 DEF OffsetIn
<1>2. CASE k # 1
  <2>1. b \in Seq(Instructions)
    BY BodiesAssumption
  <2>2. k - 1 \in DOMAIN b /\ (k - 1) + 1 = k
    BY <1>2, <2>1
  <2>3. QED
    BY <2>2, OffsetsRise
<1>3. QED
  BY <1>1, <1>2

LEMMA BytesRunOut ==
  ASSUME NEW b \in Bodies, NEW s \in Sizes(b), NEW k \in 1 .. Len(b) + 1
  PROVE  /\ OffsetIn(b, k) >= s <=> k = Len(b) + 1
         /\ k = Len(b) + 1 /\ s = OffsetIn(b, Len(b) + 1) => OffsetIn(b, k) = s
<1> DEFINE n == Len(b)
           total == OffsetIn(b, n + 1)
<1>1. b \in Seq(Instructions) /\ n \in Nat
  BY BodiesAssumption
<1>2. OffsetIn(b, k) \in Nat /\ total \in Nat
  BY <1>1, OffsetsAreNat
<1>3. \/ s = total
      \/ b # <<>> /\ b[n].len > 1 /\ s = total - 1
  BY DEF Sizes
<1>4. ASSUME k # n + 1 PROVE ~(OffsetIn(b, k) >= s)
  <2>1. k \in 1 .. n /\ n \in DOMAIN b /\ k \in DOMAIN b
    BY <1>1, <1>4
  <2>2. b[k].at <= b[n].at /\ b[n] \in Instructions
    BY <1>1, <2>1, BodiesAssumption
  <2>3. OffsetIn(b, k) = b[k].at /\ total = b[n].at + b[n].len
    BY <2>1, OffsetsRise
  <2>4. b[n].at \in Nat /\ b[n].len \in Nat \ {0} /\ b[k].at \in Nat
    BY <1>2, <2>2, <2>3 DEF Instructions
  <2> HIDE DEF n, total
  <2>5. QED
    BY <1>3, <2>2, <2>3, <2>4
<1>5. ASSUME k = n + 1 PROVE OffsetIn(b, k) >= s
  BY <1>2, <1>3, <1>5
<1>6. QED
  BY <1>4, <1>5

-----------------------------------------------------------------------------
(***************************************************************************)
(* The invariant of the analysis.  Boundary is where the instructions begin *)
(* that no decision has been taken about: the first of the set that is     *)
(* being filled, or the next to be decoded.                                *)
(***************************************************************************)
Active == pc \in {"create", "enter", "scan", "scanned", "loop"}

Started == set.instrs # <<>>

Boundary == IF Started THEN set.instrs[1] ELSE next

\* What is looked for, and from where on.
Kind == IF prologue = <<>> THEN "push" ELSE "pop"
From == IF prologue = <<>> THEN 1 ELSE FirstPushes[2] + 2

\* A set without gaps, and one that holds a run.
Unbroken(s) == \A k \in DOMAIN s.instrs : s.instrs[k] = s.instrs[1] + k - 1

Holds(s, run) == s.instrs # <<>> /\ Unbroken(s) /\ RunOf(s) = run

Typed ==
  /\ body \in Bodies /\ size \in Sizes(body)
  /\ pc \in {"create", "enter", "scan", "scanned", "loop", "done", "closed", "stale", "unset"}
  /\ next \in 1 .. Len(body) + 1
  /\ walk = OffsetIn(body, next) /\ orig \in Nat
  /\ set \in InstrSets /\ set.start <= set.end
  /\ pc = "scan" => set.start <= orig
  /\ prologue \in Seq(InstrSets) /\ Len(prologue) <= 1
  /\ epilogues \in Seq(InstrSets)
  /\ ret \in {"none", "SUCCESS", "ETRANSFORM", "ENOMEM"}
  /\ fresh \in BOOLEAN /\ refused \in BOOLEAN

\* The set holds the last instructions of its kind, and these are a run or
\* will be one.
Filling ==
  /\ \A k \in 1 .. next - 1 : body[k].op # "bad"
  /\ Unbroken(set) /\ \A k \in DOMAIN set.instrs : body[set.instrs[k]].op = Kind
  /\ Started => /\ From <= set.instrs[1]
                /\ set.instrs[1] = From \/ body[set.instrs[1] - 1].op # Kind
  /\ ~Started => \/ next = Len(body) + 1
                 \/ From <= next /\ (next = From \/ body[next - 1].op # Kind)
  /\ pc \in {"create", "enter", "loop"} => ~Started
  /\ pc = "scan" /\ Started => RunOf(set)[2] = next - 1
  /\ pc = "scanned" /\ Started =>
       \/ RunOf(set)[2] = next - 1 /\ next = Len(body) + 1
       \/ RunOf(set)[2] = next - 2 /\ body[next - 1].op # Kind
  /\ pc = "scanned" /\ ~Started => next = Len(body) + 1

\* The prologue is the first run of pushes.
FirstFound ==
  /\ prologue = <<>> => epilogues = <<>> /\ pc # "loop"
  /\ Active /\ prologue = <<>> => \A k \in 1 .. Boundary - 1 : body[k].op # "push"
  /\ prologue # <<>> => /\ FirstPushes \in Runs("push", 1)
                        /\ Holds(prologue[1], FirstPushes)
                        /\ Length(FirstPushes) >= 2

\* The epilogues are the mirror images of it that lie before the boundary.
MirrorsFound ==
  /\ \A k \in DOMAIN epilogues : /\ RunOf(epilogues[k]) \in Mirrors
                                 /\ Holds(epilogues[k], RunOf(epilogues[k]))
  /\ \A j, k \in DOMAIN epilogues :
       j < k => RunOf(epilogues[j])[2] < RunOf(epilogues[k])[1]
  /\ Active /\ prologue # <<>> =>
       /\ \A k \in DOMAIN epilogues : RunOf(epilogues[k])[2] < Boundary
       /\ \A m \in Mirrors :
            m[2] < Boundary => \E k \in DOMAIN epilogues : RunOf(epilogues[k]) = m

\* What the call answers, and where it goes astray.
Answered ==
  /\ Active => ret = "none"
  /\ ret = "ETRANSFORM" => ~Acceptable
  /\ ret = "SUCCESS" =>
       /\ Acceptable /\ prologue # <<>>
       /\ \A m \in Mirrors : \E k \in DOMAIN epilogues : RunOf(epilogues[k]) = m
  /\ pc = "stale" /\ ret = "none" => refused \/ ~Acceptable \/ PopRuns # Mirrors
  /\ pc = "unset" => refused

IInv == Typed /\ (Active => Filling) /\ FirstFound /\ MirrorsFound /\ Answered

LEMMA BodyIsTyped ==
  ASSUME Typed
  PROVE  /\ body \in Seq(Instructions) /\ Len(body) \in Nat /\ next \in Nat \ {0}
         /\ set.instrs \in Seq(Instrs) /\ set.start \in Nat /\ set.end \in Nat
         /\ Started => /\ Len(set.instrs) \in Nat \ {0} /\ set.instrs[1] \in Instrs
                       /\ RunOf(set)[1] = set.instrs[1]
                       /\ RunOf(set)[2] = set.instrs[Len(set.instrs)]
                       /\ RunOf(set)[2] \in Instrs
<1>1. body \in Seq(Instructions)
  BY BodiesAssumption DEF Typed
<1>2. set.instrs \in Seq(Instrs) /\ set.start \in Nat /\ set.end \in Nat
  BY DEF Typed, InstrSets
<1>3. Len(body) \in Nat /\ next \in Nat \ {0}
  BY <1>1 DEF Typed
<1>4. QED
  BY <1>1, <1>2, <1>3 DEF Started, RunOf

LEMMA FromIsTyped ==
  ASSUME Typed, FirstFound
  PROVE  From \in Nat \ {0}
BY RunIsPair, BodyIsTyped DEF From, FirstFound, Runs

(***************************************************************************)
(* The set that a scan leaves is a run, or empty.                          *)
(***************************************************************************)
LEMMA SetIsRun ==
  ASSUME Typed, Filling, FirstFound, pc = "scanned", Started
  PROVE  /\ RunOf(set) \in Runs(Kind, From) /\ Holds(set, RunOf(set))
         /\ RunOf(set)[1] = Boundary /\ RunOf(set)[2] < next
         /\ Length(RunOf(set)) = Len(set.instrs)
<1> DEFINE r == RunOf(set)
           m == Len(set.instrs)
<1>1. /\ m \in Nat \ {0} /\ r = <<r[1], r[2]>>
      /\ r[1] = set.instrs[1] /\ r[2] = set.instrs[m]
      /\ r[1] \in Instrs /\ r[2] \in Instrs
      /\ next \in Nat \ {0} /\ Len(body) \in Nat
  BY BodyIsTyped DEF RunOf
<1>2. r[2] = r[1] + m - 1
  BY <1>1 DEF Filling, Unbroken
<1>3. \A k \in r[1] .. r[2] : body[k].op = Kind
  <2>1. \A k \in 1 .. m : /\ set.instrs[k] = r[1] + k - 1
                         /\ body[set.instrs[k]].op = Kind
    BY <1>1, BodyIsTyped DEF Filling, Unbroken
  <2>2. r[1] \in Nat /\ r[2] \in Nat /\ m \in Nat
    BY <1>1 DEF Instrs
  <2> HIDE DEF r, m
  <2>3. TAKE k \in r[1] .. r[2]
  <2>4. (k + 1) - r[1] \in 1 .. m /\ r[1] + ((k + 1) - r[1]) - 1 = k
    BY <1>2, <2>2, <2>3
  <2>5. QED
    BY <2>1, <2>4
<1>4. From \in Nat \ {0} /\ From <= r[1] /\ (r[1] = From \/ body[r[1] - 1].op # Kind)
  BY <1>1, FromIsTyped DEF Filling
<1>5. r[2] < Len(body) => body[r[2] + 1].op # Kind
  <2>1. CASE r[2] = next - 1 /\ next = Len(body) + 1
    BY <1>1, <2>1
  <2>2. CASE r[2] = next - 2 /\ body[next - 1].op # Kind
    BY <1>1, <2>2 DEF Instrs
  <2>3. QED
    BY <2>1, <2>2 DEF Filling
<1>6. r[2] < next
  BY <1>1 DEF Filling
<1>7. r \in Runs(Kind, From)
  <2>1. r[1] \in From .. Len(body) /\ r[2] \in From .. Len(body) /\ r[1] <= r[2]
    BY <1>1, <1>2, <1>4 DEF Instrs
  <2>2. r \in (From .. Len(body)) \X (From .. Len(body))
    BY <1>1, <2>1
  <2>3. r[1] > From => body[r[1] - 1].op # Kind
    BY <1>1, <1>4 DEF Instrs
  <2>4. QED
    BY <1>3, <1>5, <2>1, <2>2, <2>3 DEF Runs
<1>8. QED
  BY <1>1, <1>2, <1>6, <1>7 DEF Holds, Filling, Boundary, Length, Instrs

(***************************************************************************)
(* No run of pops lies across the boundary.                                *)
(***************************************************************************)
LEMMA NothingStraddles ==
  ASSUME Typed, Filling, FirstFound, prologue # <<>>,
         NEW m \in PopRuns, m[1] < Boundary
  PROVE  m[2] < Boundary
<1>1. m \in Runs("pop", From) /\ Kind = "pop"
  BY DEF PopRuns, From, Kind
<1>2. From \in Nat \ {0} /\ Len(body) \in Nat /\ next \in Nat \ {0}
  BY FromIsTyped, BodyIsTyped
<1>3. /\ m[1] \in From .. Len(body) /\ m[2] \in From .. Len(body) /\ m[1] <= m[2]
      /\ \A k \in m[1] .. m[2] : body[k].op = "pop"
  BY <1>1, <1>2, RunIsPair
<1>4. Boundary \in Nat
  BY <1>2, BodyIsTyped DEF Boundary, Instrs
<1>5. SUFFICES ASSUME m[2] >= Boundary PROVE FALSE
  BY <1>2, <1>3, <1>4
<1>6. Boundary - 1 \in m[1] .. m[2] /\ Boundary # From /\ Boundary # Len(body) + 1
  BY <1>2, <1>3, <1>4, <1>5
<1>7. QED
  BY <1>1, <1>3, <1>6 DEF Filling, Boundary

(***************************************************************************)
(* After a scan, the runs of pops that have been passed are those before   *)
(* the boundary, and the candidate.                                        *)
(***************************************************************************)
LEMMA PassedRuns ==
  ASSUME Typed, Filling, FirstFound, prologue # <<>>, pc = "scanned",
         NEW m \in PopRuns, m[2] < next, ~(m[2] < Boundary)
  PROVE  Started /\ m = RunOf(set)
<1>1. Kind = "pop" /\ PopRuns = Runs("pop", From)
  BY DEF PopRuns, From, Kind
<1>2. From \in Nat \ {0} /\ Len(body) \in Nat /\ next \in Nat \ {0}
  BY FromIsTyped, BodyIsTyped
<1>3. Started
  BY DEF Boundary
<1>4. /\ RunOf(set) \in Runs("pop", From) /\ RunOf(set)[1] = Boundary
      /\ RunOf(set)[2] < next
  BY <1>1, <1>3, SetIsRun
<1>5. /\ m[1] \in From .. Len(body) /\ m[2] \in From .. Len(body) /\ m[1] <= m[2]
      /\ \A k \in m[1] .. m[2] : body[k].op = "pop"
      /\ RunOf(set)[1] \in From .. Len(body) /\ RunOf(set)[2] \in From .. Len(body)
  BY <1>1, <1>2, <1>4, RunIsPair
<1>6. ~(m[1] < Boundary)
  BY NothingStraddles
<1>7. m[1] <= RunOf(set)[2]
  <2>1. SUFFICES ASSUME m[1] > RunOf(set)[2] PROVE FALSE
    BY <1>2, <1>5
  <2>2. CASE RunOf(set)[2] = next - 1
    BY <1>2, <1>5, <2>1, <2>2
  <2>3. CASE RunOf(set)[2] = next - 2 /\ body[next - 1].op # "pop"
    <3>1. next - 1 \in m[1] .. m[2]
      BY <1>2, <1>5, <2>1, <2>3
    <3>2. QED
      BY <1>5, <2>3, <3>1
  <2>4. QED
    BY <1>1, <1>3, <2>2, <2>3 DEF Filling
<1>8. RunOf(set)[1] <= m[1]
  BY <1>2, <1>4, <1>5, <1>6
<1>9. m = RunOf(set)
  BY <1>1, <1>2, <1>4, <1>7, <1>8, BodyIsTyped, RunsDiffer
<1>10. QED
  BY <1>3, <1>9

(***************************************************************************)
(* is_epilogue() tells the mirror images of the prologue from other runs.  *)
(***************************************************************************)
LEMMA EpilogueIsMirror ==
  ASSUME Typed, Filling, FirstFound, prologue # <<>>, pc = "scanned"
  PROVE  IsEpilogue(prologue[1], set) <=> Started /\ RunOf(set) \in Mirrors
<1> DEFINE p == prologue[1].instrs
           e == set.instrs
           f == FirstPushes
           r == RunOf(set)
           m == Len(p)
<1>0. prologue[1] \in InstrSets
  BY DEF Typed
<1>1. /\ p \in Seq(Instrs) /\ e \in Seq(Instrs) /\ Len(body) \in Nat
  BY <1>0, BodyIsTyped DEF InstrSets
<1>2. /\ f \in Runs("push", 1) /\ f[1] = p[1] /\ f[2] = p[m] /\ Unbroken(prologue[1])
      /\ m \in Nat \ {0} /\ Length(f) >= 2
  BY <1>1 DEF FirstFound, Holds, RunOf
<1>3. /\ f[1] \in Nat /\ f[2] \in Nat /\ f[2] = f[1] + m - 1 /\ m >= 2 /\ Length(f) = m
      /\ \A k \in 1 .. m : p[k] = f[1] + k - 1
  <2>1. \A k \in 1 .. m : p[k] = f[1] + k - 1
    BY <1>1, <1>2 DEF Unbroken
  <2>2. f[1] \in Nat /\ f[2] \in Nat
    BY <1>1, <1>2 DEF Instrs
  <2>3. f[2] = f[1] + m - 1
    BY <1>2, <2>1
  <2> HIDE DEF f, m, p
  <2>4. QED
    BY <1>2, <2>1, <2>2, <2>3 DEF Length
<1>4. CASE ~Started
  BY <1>1, <1>3, <1>4 DEF IsEpilogue, Started
<1>5. CASE Started
  <2>1. /\ r \in PopRuns /\ Length(r) = Len(e) /\ r[1] = e[1] /\ r[1] \in Nat
        /\ Unbroken(set) /\ Len(e) \in Nat
    BY <1>1, <1>5, SetIsRun, BodyIsTyped DEF Kind, From, PopRuns, Filling, Instrs
  <2>2. \A k \in 1 .. Len(e) : e[k] = r[1] + k - 1
    <3>1. \A k \in DOMAIN e : e[k] = e[1] + k - 1
      BY <2>1 DEF Unbroken
    <3>2. DOMAIN e = 1 .. Len(e)
      BY <1>1
    <3> HIDE DEF e, r
    <3>3. QED
      BY <2>1, <3>1, <3>2
  <2>3. ASSUME Len(e) = m
        PROVE  (\A k \in 1 .. m : body[p[k]].reg = body[e[m + 1 - k]].reg)
                 <=> (\A k \in 0 .. m - 1 : body[r[1] + k].reg = body[f[2] - k].reg)
    <3> HIDE DEF p, e, f, r, m
    <3>1. ASSUME \A k \in 1 .. m : body[p[k]].reg = body[e[m + 1 - k]].reg,
                 NEW k \in 0 .. m - 1
          PROVE  body[r[1] + k].reg = body[f[2] - k].reg
      <4>1. m - k \in 1 .. m /\ m + 1 - (m - k) \in 1 .. m
        BY <1>2, <3>1
      <4>2. p[m - k] = f[2] - k /\ e[m + 1 - (m - k)] = r[1] + k
        <5>1. /\ p[m - k] = f[1] + (m - k) - 1
              /\ e[m + 1 - (m - k)] = r[1] + (m + 1 - (m - k)) - 1
          BY <1>3, <2>2, <2>3, <4>1
        <5>2. /\ f[1] \in Nat /\ f[2] = f[1] + m - 1 /\ r[1] \in Nat
              /\ m \in Nat /\ k \in Nat
          BY <1>2, <1>3, <2>1
        <5>3. f[1] + (m - k) - 1 = f[2] - k /\ r[1] + (m + 1 - (m - k)) - 1 = r[1] + k
          BY <5>2
        <5>4. QED
          BY <5>1, <5>3
      <4>3. QED
        BY <3>1, <4>1, <4>2
    <3>2. ASSUME \A k \in 0 .. m - 1 : body[r[1] + k].reg = body[f[2] - k].reg,
                 NEW k \in 1 .. m
          PROVE  body[p[k]].reg = body[e[m + 1 - k]].reg
      <4>1. m - k \in 0 .. m - 1 /\ m + 1 - k \in 1 .. m
        BY <1>2, <3>2
      <4>2. p[k] = f[1] + k - 1 /\ e[m + 1 - k] = r[1] + (m + 1 - k) - 1
        BY <1>3, <2>2, <2>3, <3>2, <4>1
      <4>3. p[k] = f[2] - (m - k) /\ e[m + 1 - k] = r[1] + (m - k)
        <5>1. /\ f[1] \in Nat /\ f[2] = f[1] + m - 1 /\ r[1] \in Nat
              /\ m \in Nat /\ k \in Nat
          BY <1>2, <1>3, <2>1
        <5>2. f[1] + k - 1 = f[2] - (m - k) /\ r[1] + (m + 1 - k) - 1 = r[1] + (m - k)
          BY <5>1
        <5>3. QED
          BY <4>2, <5>2
      <4>4. QED
        BY <3>2, <4>1, <4>3
    <3>3. QED
      BY <3>1, <3>2
  <2>4. r \in Mirrors <=>
          Len(e) = m /\ \A k \in 0 .. m - 1 : body[r[1] + k].reg = body[f[2] - k].reg
    BY <1>3, <2>1 DEF Mirrors
  <2>5. IsEpilogue(prologue[1], set) <=>
          Len(e) = m /\ \A k \in 1 .. m : body[p[k]].reg = body[e[m + 1 - k]].reg
    <3>1. DOMAIN p = 1 .. m
      BY <1>1
    <3>2. QED
      BY <3>1 DEF IsEpilogue
  <2>6. QED
    BY <1>5, <2>3, <2>4, <2>5
<1>6. QED
  BY <1>4, <1>5

-----------------------------------------------------------------------------
(***************************************************************************)
(* A call that gives up changes nothing but its answer, or goes astray.    *)
(***************************************************************************)
GivesUp(code) ==
  /\ UNCHANGED <<scan, found>>
  /\ \/ pc' = "done" /\ ret' = code
     \/ pc' = "stale" /\ ret' = ret

LEMMA ErrGivesUp ==
  ASSUME NEW code, NEW h, NEW candidate, Err(code, h, candidate)
  PROVE  GivesUp(code)
BY DEF Err, Leave, Stale, Undefined, GivesUp

LEMMA ScanGivesUp ==
  ASSUME NEW code, ScanFails(code)
  PROVE  GivesUp(code)
BY ErrGivesUp DEF ScanFails, Leave, Stale, Undefined, GivesUp

LEMMA SameFunction ==
  ASSUME UNCHANGED input
  PROVE  /\ body' = body /\ size' = size
         /\ FirstPushes' = FirstPushes /\ PopRuns' = PopRuns /\ Mirrors' = Mirrors
         /\ Acceptable' <=> Acceptable
         /\ \A f : Runs("push", f)' = Runs("push", f) /\ Runs("pop", f)' = Runs("pop", f)
<1>1. body' = body /\ size' = size
  BY DEF input
<1>2. \A f : Runs("push", f)' = Runs("push", f) /\ Runs("pop", f)' = Runs("pop", f)
  BY <1>1 DEF Runs
<1>3. FirstPushes' = FirstPushes
  BY <1>2 DEF FirstPushes
<1>4. PopRuns' = PopRuns
  BY <1>2, <1>3 DEF PopRuns
<1>5. Mirrors' = Mirrors
  BY <1>1, <1>3, <1>4 DEF Mirrors, Length
<1>6. Acceptable' <=> Acceptable
  BY <1>1, <1>2, <1>3, <1>5 DEF Acceptable, Length, Instrs, OffsetIn
<1>7. QED
  BY <1>1, <1>2, <1>3, <1>4, <1>5, <1>6

LEMMA FailureHolds ==
  ASSUME IInv, Active, UNCHANGED input, UNCHANGED <<scan, found>>,
         refused' \in BOOLEAN,
         \/ pc' = "done" /\ ret' \in {"ETRANSFORM", "ENOMEM"}
         \/ pc' \in {"stale", "unset"} /\ ret' = ret,
         ret' = "ETRANSFORM" => ~Acceptable,
         pc' = "stale" => refused' \/ ~Acceptable \/ PopRuns # Mirrors,
         pc' = "unset" => refused'
  PROVE  IInv'
<1> USE SameFunction
<1>1. /\ next' = next /\ walk' = walk /\ orig' = orig /\ set' = set /\ fresh' = fresh
      /\ prologue' = prologue /\ epilogues' = epilogues
  BY DEF scan, found
<1>2. ret = "none"
  BY DEF IInv, Answered
<1>3. Typed'
  BY <1>1, <1>2 DEF IInv, Typed, InstrSets, Instrs, OffsetIn
<1>4. ~Active'
  BY DEF Active
<1>5. FirstFound'
  BY <1>1, <1>4 DEF IInv, FirstFound, Holds, Unbroken, RunOf, Length, Active
<1>6. MirrorsFound'
  BY <1>1, <1>4 DEF IInv, MirrorsFound, Holds, Unbroken, RunOf
<1>7. Answered'
  BY <1>1, <1>2, <1>4 DEF IInv, Answered, RunOf
<1>8. QED
  BY <1>3, <1>4, <1>5, <1>6, <1>7 DEF IInv

(***************************************************************************)
(* Whoever gives up has a reason: an allocation was refused, or the        *)
(* function is none that may be accepted.                                  *)
(***************************************************************************)
LEMMA GivingUpHolds ==
  ASSUME IInv, Active, UNCHANGED input, refused' \in BOOLEAN,
         NEW code \in {"ETRANSFORM", "ENOMEM"}, GivesUp(code),
         refused' \/ ~Acceptable, code = "ETRANSFORM" => ~Acceptable
  PROVE  IInv'
<1>1. ret = "none"
  BY DEF IInv, Answered
<1>2. UNCHANGED <<scan, found>>
  BY DEF GivesUp
<1>3. CASE pc' = "done" /\ ret' = code
  BY <1>2, <1>3, FailureHolds
<1>4. CASE pc' = "stale" /\ ret' = ret
  BY <1>1, <1>2, <1>4, FailureHolds
<1>5. QED
  BY <1>3, <1>4 DEF GivesUp

LEMMA BytesLeft ==
  ASSUME IInv
  PROVE  /\ walk >= size <=> next = Len(body) + 1
         /\ Decoding => next \in Instrs
         /\ walk \in Nat /\ size \in Nat
<1>1. body \in Bodies /\ next \in 1 .. Len(body) + 1 /\ Len(body) \in Nat
  BY BodyIsTyped DEF IInv, Typed
<1>2. walk >= size <=> next = Len(body) + 1
  BY <1>1, BytesRunOut DEF IInv, Typed
<1>3. walk \in Nat
  BY <1>1, OffsetsAreNat DEF IInv, Typed
<1>4. size \in Nat
  <2>1. OffsetIn(body, Len(body) + 1) \in Nat
    BY <1>1, OffsetsAreNat
  <2>2. CASE size = OffsetIn(body, Len(body) + 1)
    BY <2>1, <2>2
  <2>3. CASE /\ body # <<>> /\ body[Len(body)].len > 1
             /\ size = OffsetIn(body, Len(body) + 1) - 1
    <3>1. body \in Seq(Instructions)
      BY BodyIsTyped DEF IInv
    <3>2. Len(body) \in DOMAIN body /\ body[Len(body)] \in Instructions
      BY <2>3, <3>1
    <3>3. /\ OffsetIn(body, Len(body)) \in Nat
          /\ OffsetIn(body, Len(body) + 1) = OffsetIn(body, Len(body)) + body[Len(body)].len
      BY <1>1, <3>2, OffsetsRise
    <3>4. body[Len(body)].len \in Nat
      BY <3>2 DEF Instructions
    <3>5. QED
      BY <2>3, <3>3, <3>4
  <2>4. QED
    BY <2>2, <2>3 DEF IInv, Typed, Sizes
<1>5. Decoding => next \in Instrs
  BY <1>1, <1>2, <1>3, <1>4 DEF Decoding, Instrs
<1>6. QED
  BY <1>2, <1>3, <1>4, <1>5

LEMMA FailedScansHold ==
  ASSUME IInv, BadInstruction \/ KeepRefused \/ EnterRefused
  PROVE  IInv'
<1>1. CASE BadInstruction
  <2>1. next \in Instrs /\ body[next].op = "bad"
    BY <1>1, BytesLeft DEF BadInstruction
  <2>2. ~Acceptable
    BY <2>1 DEF Acceptable
  <2>3. GivesUp("ETRANSFORM") /\ UNCHANGED input /\ refused' = refused
    BY <1>1, ScanGivesUp DEF BadInstruction
  <2>4. Active /\ refused' \in BOOLEAN
    BY <1>1, <2>3 DEF BadInstruction, Decoding, Active, IInv, Typed
  <2>5. QED
    BY <2>2, <2>3, <2>4, GivingUpHolds
<1>2. CASE KeepRefused
  <2>1. Active /\ UNCHANGED input /\ refused' = TRUE
    BY <1>2 DEF KeepRefused, Decoding, Active, Refused
  <2>2. CASE ScanFails("ENOMEM")
    BY <2>1, <2>2, ScanGivesUp, GivingUpHolds
  <2>3. CASE Undefined("stale")
    BY <2>1, <2>3, FailureHolds DEF Undefined, IInv, Answered
  <2>4. QED
    BY <1>2, <2>2, <2>3 DEF KeepRefused
<1>3. CASE EnterRefused
  <2>1. Active /\ UNCHANGED input /\ refused' = TRUE
    BY <1>3 DEF EnterRefused, Active, Refused
  <2>2. CASE Leave("ENOMEM", heap)
    BY <2>1, <2>2, GivingUpHolds DEF Leave, GivesUp
  <2>3. CASE Err("ENOMEM", heap, <<set>>)
    BY <2>1, <2>3, ErrGivesUp, GivingUpHolds
  <2>4. CASE Undefined("unset")
    BY <2>1, <2>4, FailureHolds DEF Undefined, IInv, Answered
  <2>5. QED
    BY <1>3, <2>2, <2>3, <2>4 DEF EnterRefused
<1>4. QED
  BY <1>1, <1>2, <1>3

(***************************************************************************)
(* Fewer than two pushes at the start of the first run, or none at all.    *)
(***************************************************************************)
LEMMA TooSmallHolds ==
  ASSUME IInv, TooSmall
  PROVE  IInv'
<1>1. /\ pc = "scanned" /\ prologue = <<>> /\ Len(set.instrs) < 2
      /\ Err("ETRANSFORM", heap, <<set>>) /\ UNCHANGED input /\ refused' = refused
  BY DEF TooSmall
<1>2. Active /\ Typed /\ Filling /\ FirstFound
  BY <1>1 DEF Active, IInv
<1>3. body \in Seq(Instructions) /\ Len(body) \in Nat
  BY <1>2, BodyIsTyped
<1>4. ~Acceptable
  <2>1. CASE Started
    <3>1. /\ RunOf(set) \in Runs("push", 1) /\ RunOf(set)[1] = Boundary
          /\ Length(RunOf(set)) < 2
      BY <1>1, <1>2, <2>1, SetIsRun DEF Kind, From
    <3>2. FirstPushes = RunOf(set)
      BY <1>1, <1>2, <1>3, <3>1, FirstIsFirst DEF FirstFound
    <3>3. Length(FirstPushes) \in Int
      BY <1>3, <3>1, <3>2, RunIsPair DEF Length
    <3>4. QED
      BY <3>1, <3>2, <3>3 DEF Acceptable
  <2>2. CASE ~Started
    <3>1. \A k \in 1 .. Len(body) : body[k].op # "push"
      BY <1>1, <1>2, <1>3, <2>2 DEF Filling, FirstFound, Boundary
    <3>2. ASSUME NEW r \in Runs("push", 1) PROVE FALSE
      <4>1. r[1] \in r[1] .. r[2] /\ r[1] \in 1 .. Len(body)
        BY <1>3, RunIsPair
      <4>2. QED
        BY <3>1, <4>1, RunIsPair
    <3>3. QED
      BY <3>2 DEF Acceptable
  <2>3. QED
    BY <2>1, <2>2
<1>5. GivesUp("ETRANSFORM") /\ refused' \in BOOLEAN
  BY <1>1, ErrGivesUp DEF IInv, Typed
<1>6. QED
  BY <1>1, <1>2, <1>4, <1>5, GivingUpHolds

(***************************************************************************)
(* The record ends inside an instruction, or there is no epilogue.         *)
(***************************************************************************)
LEMMA UnsoundHolds ==
  ASSUME IInv, Unsound
  PROVE  IInv'
<1>1. /\ pc = "loop" /\ walk >= size /\ (walk # size \/ epilogues = <<>>)
      /\ UNCHANGED input /\ refused' = refused
  BY DEF Unsound
<1>2. Active /\ Typed /\ Filling /\ FirstFound /\ MirrorsFound
  BY <1>1 DEF Active, IInv
<1>3. next = Len(body) + 1 /\ Len(body) \in Nat
  BY <1>1, <1>2, BytesLeft, BodyIsTyped
<1>4. ~Acceptable
  <2>1. CASE walk # size
    BY <1>2, <1>3, <2>1 DEF Acceptable, Typed
  <2>2. CASE epilogues = <<>>
    <3>1. prologue # <<>> /\ Boundary = Len(body) + 1
      BY <1>1, <1>2, <1>3 DEF FirstFound, Filling, Boundary
    <3>2. ASSUME NEW m \in Mirrors PROVE m[2] < Boundary
      <4>1. From \in Nat \ {0} /\ m \in Runs("pop", From)
        BY <1>2, <3>1, FromIsTyped DEF Mirrors, PopRuns, From
      <4>2. QED
        BY <1>3, <3>1, <4>1, RunIsPair
    <3>3. Mirrors = {}
      BY <1>2, <2>2, <3>1, <3>2 DEF MirrorsFound
    <3>4. QED
      BY <3>3 DEF Acceptable
  <2>3. QED
    BY <1>1, <2>1, <2>2
<1>5. GivesUp("ETRANSFORM") /\ refused' \in BOOLEAN
  BY <1>1, ErrGivesUp DEF Unsound, IInv, Typed
<1>6. QED
  BY <1>1, <1>2, <1>4, <1>5, GivingUpHolds

-----------------------------------------------------------------------------
(***************************************************************************)
(* The steps that go on.  Those of a scan leave what was found alone.      *)
(***************************************************************************)
LEMMA DecodeMoves ==
  ASSUME IInv, Decode
  PROVE  /\ next \in Instrs /\ next' = next + 1 /\ next' \in 1 .. Len(body) + 1
         /\ walk' = OffsetIn(body, next + 1) /\ orig' \in Nat /\ orig <= orig'
         /\ body[next].op # "bad" /\ UNCHANGED <<fresh, found, ret, input>>
         /\ pc = "scan" /\ Active
<1>1. Decoding /\ next' = next + 1 /\ body[next].op # "bad"
      /\ walk' = walk + body[next].len /\ orig' = orig + body[next].len
      /\ UNCHANGED <<fresh, found, ret, input>>
  BY DEF Decode
<1>2. next \in Instrs /\ pc = "scan"
  BY <1>1, BytesLeft DEF Decoding
<1>3. body \in Bodies /\ body \in Seq(Instructions) /\ Len(body) \in Nat
  BY BodyIsTyped DEF IInv, Typed
<1>4. next \in DOMAIN body /\ body[next] \in Instructions
  BY <1>2, <1>3 DEF Instrs
<1>5. walk' = OffsetIn(body, next + 1)
  BY <1>1, <1>3, <1>4, OffsetsRise DEF IInv, Typed
<1>6. orig' \in Nat /\ orig <= orig'
  BY <1>1, <1>4 DEF Instructions, IInv, Typed
<1>7. next' \in 1 .. Len(body) + 1
  BY <1>1, <1>2, <1>3 DEF Instrs
<1>8. QED
  BY <1>1, <1>2, <1>5, <1>6, <1>7 DEF Active

(***************************************************************************)
(* A step within the search for one set: the boundary may only pass over   *)
(* an instruction that is not looked for.                                  *)
(***************************************************************************)
LEMMA SearchHolds ==
  ASSUME IInv, Active, Active', UNCHANGED <<found, ret, input>>, pc' # "loop",
         refused' = refused, Typed', Filling',
         \/ Boundary' = Boundary
         \/ Boundary = next /\ Boundary' = next + 1 /\ body[next].op # Kind
  PROVE  IInv'
<1> USE SameFunction
<1>1. prologue' = prologue /\ epilogues' = epilogues
  BY DEF found
<1>2. Len(body) \in Nat /\ next \in Nat /\ Boundary \in Nat
  BY BodyIsTyped DEF IInv, Boundary, Instrs
<1>3. FirstFound'
  <2>1. prologue = <<>> => \A k \in 1 .. Boundary' - 1 : body[k].op # "push"
    BY <1>2 DEF IInv, FirstFound, Kind
  <2>2. QED
    BY <1>1, <2>1 DEF IInv, FirstFound, Holds, Unbroken, RunOf, Length
<1>4. MirrorsFound'
  <2>1. ASSUME prologue # <<>>
        PROVE  /\ \A k \in DOMAIN epilogues : RunOf(epilogues[k])[2] < Boundary'
               /\ \A m \in Mirrors : m[2] < Boundary' => m[2] < Boundary
    <3>1. \A k \in DOMAIN epilogues : /\ RunOf(epilogues[k])[2] < Boundary
                                      /\ RunOf(epilogues[k]) \in Mirrors
      BY <2>1 DEF IInv, MirrorsFound
    <3>2. ASSUME NEW m \in Mirrors
          PROVE  m[2] \in Nat /\ (m[2] < Boundary' => m[2] < Boundary)
                 /\ (m[2] < Boundary => m[2] < Boundary')
      <4>1. m \in Runs("pop", From) /\ From \in Nat /\ Kind = "pop"
        BY <2>1, FromIsTyped DEF IInv, Mirrors, PopRuns, From, Kind
      <4>2. m[2] \in m[1] .. m[2] /\ m[2] \in Nat /\ body[m[2]].op = "pop"
        <5>1. m[1] \in From .. Len(body) /\ m[2] \in From .. Len(body) /\ m[1] <= m[2]
          BY <4>1, RunIsPair
        <5>2. m[2] \in m[1] .. m[2] /\ m[2] \in Nat
          BY <1>2, <4>1, <5>1
        <5>3. QED
          BY <4>1, <5>2, RunIsPair
      <4>3. QED
        BY <1>2, <4>1, <4>2
    <3>3. QED
      BY <3>1, <3>2
  <2>2. QED
    BY <1>1, <2>1 DEF IInv, MirrorsFound, Holds, Unbroken, RunOf
<1>5. Answered'
  BY <1>1 DEF IInv, Answered, RunOf, Active
<1>6. QED
  BY <1>3, <1>4, <1>5 DEF IInv

LEMMA EnteringHolds ==
  ASSUME IInv, \/ CreateTransformable \/ EnterScan \/ MoreBytes
  PROVE  IInv'
<1> USE SameFunction
<1>1. CASE Refused /\ Leave("ENOMEM", heap) /\ pc = "create" /\ UNCHANGED input
  BY <1>1, GivingUpHolds DEF Leave, GivesUp, Refused, Active
<1>2. CASE /\ pc \in {"create", "loop"} /\ pc' = "enter"
           /\ UNCHANGED <<scan, found, ret, refused, input>>
  <2>1. Active /\ Active' /\ pc' # "loop"
    BY <1>2 DEF Active
  <2>2. Typed' /\ Filling' /\ Boundary' = Boundary
    BY <1>2, <2>1
       DEF scan, found, IInv, Typed, Filling, InstrSets, Instrs, OffsetIn, Boundary, Started,
           Unbroken, Kind, From, RunOf
  <2>3. QED
    BY <1>2, <2>1, <2>2, SearchHolds
<1>3. CASE EnterScan
  <2>1. /\ pc = "enter" /\ pc' = "scan" /\ set' = EmptySet(orig) /\ fresh' = FALSE
        /\ UNCHANGED <<next, walk, orig, found, ret, input, refused>>
    BY <1>3 DEF EnterScan, Granted
  <2>2. Active /\ Active' /\ pc' # "loop" /\ ~Started
    BY <2>1 DEF Active, IInv, Filling
  <2>3. set'.instrs = <<>> /\ ~Started'
    BY <2>1 DEF EmptySet, Started
  <2>4. Typed'
    <3>1. set' \in InstrSets'
      BY <2>1 DEF EmptySet, InstrSets, IInv, Typed
    <3>2. set'.start = orig /\ set'.end = orig /\ orig \in Nat
      BY <2>1 DEF EmptySet, IInv, Typed
    <3>3. set'.start <= set'.end /\ set'.start <= orig'
      BY <2>1, <3>2
    <3>4. UNCHANGED <<body, size, next, walk, orig, prologue, epilogues, ret, refused>>
      BY <2>1 DEF found
    <3>5. walk' = OffsetIn(body', next') /\ InstrSets' = InstrSets
      BY <3>4 DEF IInv, Typed, InstrSets, Instrs
    <3>6. QED
      BY <2>1, <3>1, <3>3, <3>4, <3>5 DEF IInv, Typed
  <2>5. Filling' /\ Boundary' = Boundary
    BY <2>1, <2>2, <2>3 DEF found, IInv, Filling, Boundary, Unbroken, Kind, From, Started
  <2>6. QED
    BY <2>1, <2>2, <2>4, <2>5, SearchHolds
<1>4. QED
  BY <1>1, <1>2, <1>3 DEF CreateTransformable, MoreBytes, Granted

LEMMA KeepInstructionHolds ==
  ASSUME IInv, KeepInstruction
  PROVE  IInv'
<1> USE SameFunction
<1>1. /\ next \in Instrs /\ next' = next + 1 /\ next' \in 1 .. Len(body) + 1
      /\ walk' = OffsetIn(body, next + 1) /\ orig' \in Nat /\ orig <= orig'
      /\ body[next].op # "bad" /\ UNCHANGED <<fresh, found, ret, input>>
      /\ pc = "scan" /\ Active
  BY DecodeMoves DEF KeepInstruction
<1>2. /\ body[next].op = Kind /\ pc' = pc /\ refused' = refused
      /\ set' = [set EXCEPT !.end = orig', !.instrs = Append(set.instrs, next)]
  BY DEF KeepInstruction, Wanted, Kind, Granted
<1>3. /\ set \in InstrSets /\ set.instrs \in Seq(Instrs) /\ Len(body) \in Nat
      /\ Typed /\ Filling /\ FirstFound
  BY <1>1, BodyIsTyped DEF IInv, Typed
<1> DEFINE e == set.instrs
           m == Len(e)
<1>4. /\ set'.instrs = Append(e, next) /\ Started' /\ m \in Nat
      /\ Len(set'.instrs) = m + 1 /\ DOMAIN set'.instrs = 1 .. m + 1
      /\ \A k \in 1 .. m : set'.instrs[k] = e[k]
      /\ set'.instrs[m + 1] = next
  BY <1>2, <1>3 DEF InstrSets, Started
<1>5. set' \in InstrSets
  <2>1. Append(set.instrs, next) \in Seq(Instrs)
    BY <1>1, <1>3
  <2>2. QED
    BY <1>1, <1>2, <1>3, <2>1 DEF InstrSets
<1>6. Typed'
  BY <1>1, <1>2, <1>5 DEF Typed, IInv, found, InstrSets, Instrs, OffsetIn
<1>7. set'.instrs[1] = Boundary
  BY <1>3, <1>4 DEF Boundary, Started
<1>8. Unbroken(set)'
  <2>1. CASE ~Started
    <3>1. m = 0 /\ next \in Nat
      BY <1>1, <2>1 DEF Started, Instrs
    <3>2. DOMAIN set'.instrs = 1 .. 1 /\ set'.instrs[1] = next
      BY <1>4, <3>1
    <3>3. QED
      BY <3>1, <3>2 DEF Unbroken
  <2>2. CASE Started
    <3>1. /\ e[1] \in Nat /\ m \in Nat \ {0} /\ next - 1 = e[m]
          /\ next \in Nat
      BY <1>1, <1>3, <2>2, BodyIsTyped DEF Filling, RunOf, Instrs
    <3>2. DOMAIN e = 1 .. m /\ \A k \in DOMAIN e : e[k] = e[1] + k - 1
      BY <1>3 DEF Filling, Unbroken
    <3> HIDE DEF e, m
    <3>3. e[m] = e[1] + m - 1
      BY <3>1, <3>2
    <3>4. next = e[1] + (m + 1) - 1
      BY <3>1, <3>3
    <3>5. ASSUME NEW k \in 1 .. m + 1 PROVE set'.instrs[k] = e[1] + k - 1
      <4>1. CASE k = m + 1
        BY <1>4, <3>4, <4>1
      <4>2. CASE k # m + 1
        <5>1. k \in 1 .. m
          BY <3>1, <3>5, <4>2
        <5>2. QED
          BY <1>4, <3>2, <5>1
      <4>3. QED
        BY <4>1, <4>2
    <3>6. set'.instrs[1] = e[1]
      BY <1>4, <3>1
    <3>7. QED
      BY <1>4, <3>5, <3>6 DEF Unbroken
  <2>3. QED
    BY <2>1, <2>2
<1>9. Filling'
  <2>1. \A k \in 1 .. next' - 1 : body'[k].op # "bad"
    BY <1>1, <1>3 DEF Filling, Instrs
  <2>2. Kind' = Kind /\ From' = From
    BY <1>1 DEF Kind, From, found
  <2>3. \A k \in DOMAIN set'.instrs : body'[set'.instrs[k]].op = Kind
    <3>1. TAKE k \in DOMAIN set'.instrs
    <3>2. k \in 1 .. m + 1 /\ DOMAIN e = 1 .. m
      BY <1>3, <1>4, <3>1
    <3>3. CASE k = m + 1
      BY <1>1, <1>2, <1>4, <3>3
    <3>4. CASE k \in 1 .. m
      BY <1>1, <1>3, <1>4, <3>2, <3>4 DEF Filling
    <3>5. QED
      BY <1>4, <3>2, <3>3, <3>4
  <2>4. From <= Boundary /\ (Boundary = From \/ body[Boundary - 1].op # Kind)
    <3>1. CASE Started
      BY <1>3, <3>1 DEF Filling, Boundary
    <3>2. CASE ~Started
      <4>1. next # Len(body) + 1 /\ Boundary = next
        BY <1>1, <1>3, <3>2 DEF Instrs, Boundary
      <4>2. QED
        BY <1>3, <3>2, <4>1 DEF Filling
    <3>3. QED
      BY <3>1, <3>2
  <2>5. RunOf(set)[2]' = next' - 1
    BY <1>1, <1>4 DEF RunOf, Instrs
  <2>6. QED
    BY <1>1, <1>2, <1>4, <1>7, <1>8, <2>1, <2>2, <2>3, <2>4, <2>5 DEF Filling
<1>10. Boundary' = Boundary
  BY <1>4, <1>7 DEF Boundary
<1>11. QED
  BY <1>1, <1>2, <1>6, <1>9, <1>10, SearchHolds DEF Active

LEMMA SkipInstructionHolds ==
  ASSUME IInv, SkipInstruction
  PROVE  IInv'
<1> USE SameFunction
<1>1. /\ next \in Instrs /\ next' = next + 1 /\ next' \in 1 .. Len(body) + 1
      /\ walk' = OffsetIn(body, next + 1) /\ orig' \in Nat /\ orig <= orig'
      /\ body[next].op # "bad" /\ UNCHANGED <<fresh, found, ret, input>>
      /\ pc = "scan" /\ Active
  BY DecodeMoves DEF SkipInstruction
<1>2. /\ body[next].op # Kind /\ pc' = pc /\ refused' = refused
      /\ set.instrs = <<>> /\ set' = EmptySet(orig')
  BY DEF SkipInstruction, Wanted, Kind
<1>3. Filling /\ Len(body) \in Nat
  BY <1>1, BodyIsTyped DEF IInv
<1>4. Typed'
  <2>1. set' \in InstrSets /\ set'.start = orig' /\ set'.end = orig'
    BY <1>1, <1>2 DEF EmptySet, InstrSets
  <2>2. QED
    BY <1>1, <1>2, <2>1 DEF IInv, Typed, found, InstrSets, Instrs, OffsetIn
<1>5. set'.instrs = <<>> /\ ~Started /\ ~Started'
  BY <1>2 DEF EmptySet, Started
<1>6. Filling'
  <2>1. \A k \in 1 .. next' - 1 : body'[k].op # "bad"
    BY <1>1, <1>3 DEF Filling, Instrs
  <2>2. Kind' = Kind /\ From' = From
    BY <1>1 DEF Kind, From, found
  <2>3. From <= next' /\ body'[next' - 1].op # Kind
    <3>1. next # Len(body) + 1 /\ next \in Nat /\ From \in Nat
      BY <1>1, <1>3, FromIsTyped DEF IInv, Instrs
    <3>2. From <= next
      BY <1>3, <1>5, <3>1 DEF Filling
    <3>3. QED
      BY <1>1, <1>2, <3>1, <3>2
  <2>4. QED
    BY <1>1, <1>2, <1>5, <2>1, <2>2, <2>3 DEF Filling, Unbroken
<1>7. Boundary = next /\ Boundary' = next + 1
  BY <1>1, <1>5 DEF Boundary
<1>8. QED
  BY <1>1, <1>2, <1>4, <1>6, <1>7, SearchHolds DEF Active

LEMMA EndOfScanHolds ==
  ASSUME IInv, EndOfSet \/ EndOfFunction
  PROVE  IInv'
<1> USE SameFunction
<1>1. CASE EndOfSet
  <2>1. /\ next \in Instrs /\ next' = next + 1 /\ next' \in 1 .. Len(body) + 1
        /\ walk' = OffsetIn(body, next + 1) /\ orig' \in Nat /\ orig <= orig'
        /\ body[next].op # "bad" /\ UNCHANGED <<fresh, found, ret, input>>
        /\ pc = "scan" /\ Active
    BY <1>1, DecodeMoves DEF EndOfSet
  <2>2. /\ body[next].op # Kind /\ pc' = "scanned" /\ set' = set /\ refused' = refused
        /\ Started
    BY <1>1 DEF EndOfSet, ScanEnds, Wanted, Kind, Started
  <2>3. Filling /\ Len(body) \in Nat /\ RunOf(set)[2] \in Nat
    BY <2>1, <2>2, BodyIsTyped DEF IInv, Instrs
  <2>4. Typed'
    BY <2>1, <2>2 DEF IInv, Typed, found, InstrSets, Instrs, OffsetIn
  <2>5. Boundary' = Boundary /\ Started'
    BY <2>2 DEF Boundary, Started
  <2>6. Filling'
    <3>1. \A k \in 1 .. next' - 1 : body'[k].op # "bad"
      BY <2>1, <2>3 DEF Filling, Instrs
    <3>2. Kind' = Kind /\ From' = From
      BY <2>1 DEF Kind, From, found
    <3>3. RunOf(set)[2]' = next' - 2 /\ body'[next' - 1].op # Kind
      BY <2>1, <2>2, <2>3 DEF Filling, RunOf, Instrs
    <3>4. QED
      BY <2>1, <2>2, <2>3, <2>5, <3>1, <3>2, <3>3 DEF Filling, Unbroken
  <2>7. QED
    BY <2>1, <2>2, <2>4, <2>5, <2>6, SearchHolds DEF Active
<1>2. CASE EndOfFunction
  <2>1. /\ pc = "scan" /\ next = Len(body) + 1 /\ pc' = "scanned"
        /\ UNCHANGED <<scan, found, ret, refused, input>>
    BY <1>2, BytesLeft DEF EndOfFunction, ScanEnds
  <2>2. Active /\ Filling /\ Len(body) \in Nat
    BY <2>1, BodyIsTyped DEF Active, IInv
  <2>3. Typed' /\ Filling' /\ Boundary' = Boundary
    BY <2>1, <2>2
       DEF scan, found, IInv, Typed, Filling, InstrSets, Instrs, OffsetIn, Boundary, Started,
           Unbroken, Kind, From, RunOf
  <2>4. QED
    BY <2>1, <2>2, <2>3, SearchHolds DEF Active
<1>3. QED
  BY <1>1, <1>2

(***************************************************************************)
(* Between two scans.  The boundary moves up to the next instruction.      *)
(***************************************************************************)
LEMMA BetweenScans ==
  ASSUME IInv, pc = "scanned", Started,
         (From' = From /\ Kind' = Kind) \/ From' = RunOf(set)[2] + 2,
         pc' = "loop", set'.instrs = <<>>, UNCHANGED <<next, input>>
  PROVE  Filling' /\ Boundary' = next
<1> USE SameFunction
<1>1. Filling /\ Typed /\ FirstFound /\ Len(body) \in Nat /\ next \in Nat
  BY BodyIsTyped DEF IInv, Active
<1>2. ~Started' /\ Boundary' = next
  BY DEF Started, Boundary
<1>3. /\ RunOf(set)[2] \in Nat /\ From \in Nat /\ From <= RunOf(set)[2]
      /\ \/ next = Len(body) + 1
         \/ RunOf(set)[2] = next - 2 /\ body[next - 1].op # Kind
  BY <1>1, SetIsRun, FromIsTyped, RunIsPair DEF Filling
<1>4. \/ next = Len(body) + 1
      \/ From' <= next /\ (next = From' \/ body[next - 1].op # Kind')
  BY <1>1, <1>3
<1>5. QED
  BY <1>1, <1>2, <1>4 DEF Filling, Unbroken

LEMMA HasPrologueHolds ==
  ASSUME IInv, HasPrologue
  PROVE  IInv'
<1> USE SameFunction
<1>1. CASE Refused /\ Err("ENOMEM", heap, <<set>>) /\ pc = "scanned" /\ UNCHANGED input
  BY <1>1, ErrGivesUp, GivingUpHolds DEF Refused, Active
<1>2. CASE /\ pc = "scanned" /\ prologue = <<>> /\ Len(set.instrs) >= 2 /\ NewCandidate
           /\ prologue' = <<set>> /\ pc' = "loop"
           /\ UNCHANGED <<next, walk, orig, epilogues, ret, refused, input>>
  <2>1. Active /\ Typed /\ Filling /\ FirstFound /\ Started /\ set \in InstrSets
    BY <1>2 DEF Active, IInv, Started, Typed
  <2>2. body \in Seq(Instructions) /\ Len(body) \in Nat /\ next \in Nat
    BY <2>1, BodyIsTyped
  <2>3. /\ RunOf(set) \in Runs("push", 1) /\ Holds(set, RunOf(set))
        /\ RunOf(set)[1] = Boundary /\ Length(RunOf(set)) = Len(set.instrs)
    BY <1>2, <2>1, SetIsRun DEF Kind, From
  <2>4. FirstPushes = RunOf(set)
    BY <1>2, <2>1, <2>2, <2>3, FirstIsFirst DEF FirstFound
  <2>5. set' = EmptySet(0) /\ fresh' = TRUE /\ set'.instrs = <<>> /\ prologue'[1] = set
        /\ prologue' # <<>>
    BY <1>2 DEF NewCandidate, EmptySet
  <2>6. From' = RunOf(set)[2] + 2
    BY <1>2, <2>4, <2>5 DEF From
  <2>7. Filling' /\ Boundary' = next
    BY <1>2, <2>1, <2>5, <2>6, BetweenScans
  <2>8. Typed'
    <3>1. set' \in InstrSets /\ set'.start <= set'.end
      BY <2>5 DEF EmptySet, InstrSets
    <3>2. prologue' \in Seq(InstrSets) /\ Len(prologue') <= 1
      BY <1>2, <2>1
    <3>3. QED
      BY <1>2, <2>1, <2>5, <3>1, <3>2 DEF Typed, InstrSets, Instrs, OffsetIn
  <2>9. FirstFound'
    BY <1>2, <2>1, <2>3, <2>4, <2>5 DEF FirstFound, Holds, Unbroken, RunOf, Length
  <2>10. MirrorsFound'
    <3>1. epilogues' = <<>>
      BY <1>2, <2>1 DEF FirstFound
    <3>2. ASSUME NEW m \in Mirrors, m[2] < next PROVE FALSE
      <4>1. FirstPushes[2] + 2 \in Nat /\ FirstPushes[2] \in Nat
        BY <2>3, <2>4, RunIsPair
      <4>2. /\ m[1] \in FirstPushes[2] + 2 .. Len(body)
            /\ m[2] \in FirstPushes[2] + 2 .. Len(body)
        BY <4>1, RunIsPair DEF Mirrors, PopRuns
      <4>3. FirstPushes[2] = next - 1 \/ FirstPushes[2] = next - 2
        BY <1>2, <2>1, <2>4 DEF Filling
      <4>4. QED
        BY <2>2, <3>2, <4>1, <4>2, <4>3
    <3>3. Mirrors' = Mirrors /\ DOMAIN epilogues' = {}
      BY <1>2, <3>1
    <3>4. QED
      BY <2>7, <3>2, <3>3 DEF MirrorsFound
  <2>11. Answered'
    BY <1>2 DEF IInv, Answered, Active
  <2>12. QED
    BY <2>7, <2>8, <2>9, <2>10, <2>11 DEF IInv
<1>3. QED
  BY <1>1, <1>2 DEF HasPrologue, Granted

(***************************************************************************)
(* A candidate is kept or dropped, and the boundary moves past it.         *)
(***************************************************************************)
LEMMA SettledHolds ==
  ASSUME IInv, pc = "scanned", prologue # <<>>, pc' = "loop", set'.instrs = <<>>,
         UNCHANGED <<next, prologue, ret, input>>, Typed',
         \/ Started /\ RunOf(set) \in Mirrors /\ epilogues' = Append(epilogues, set)
         \/ ~(Started /\ RunOf(set) \in Mirrors) /\ epilogues' = epilogues
  PROVE  IInv'
<1> USE SameFunction
<1>1. /\ Active /\ Typed /\ Filling /\ FirstFound /\ MirrorsFound
      /\ Len(body) \in Nat /\ next \in Nat /\ epilogues \in Seq(InstrSets)
  BY BodyIsTyped DEF Active, IInv, Typed
<1>2. Filling' /\ Boundary' = next
  <2>1. From' = From /\ Kind' = Kind
    BY DEF From, Kind
  <2>2. CASE Started
    BY <2>1, <2>2, BetweenScans
  <2>3. CASE ~Started
    <3>1. next = Len(body) + 1 /\ ~Started' /\ Boundary' = next
      BY <1>1, <2>3 DEF Filling, Started, Boundary
    <3>2. QED
      BY <1>1, <3>1 DEF Filling, Unbroken, Started
  <2>4. QED
    BY <2>2, <2>3
<1>3. FirstFound'
  BY <1>1 DEF FirstFound, Holds, Unbroken, RunOf, Length
<1>4. Answered'
  BY <1>1 DEF IInv, Answered, Active
<1>5. \A m \in Mirrors : m[2] < next => m[2] < Boundary \/ (Started /\ m = RunOf(set))
  BY <1>1, PassedRuns DEF Mirrors
<1>6. ASSUME Started PROVE RunOf(set)[2] < next /\ Boundary = RunOf(set)[1]
                           /\ RunOf(set)[1] <= RunOf(set)[2]
                           /\ RunOf(set)[1] \in Nat /\ RunOf(set)[2] \in Nat
                           /\ Holds(set, RunOf(set))
  BY <1>1, <1>6, SetIsRun, FromIsTyped, RunIsPair
<1>7. ASSUME NEW k \in DOMAIN epilogues
      PROVE  RunOf(epilogues[k])[2] < Boundary /\ RunOf(epilogues[k])[2] < next
  <2>1. RunOf(epilogues[k])[2] < Boundary
    BY <1>1 DEF MirrorsFound
  <2>2. RunOf(epilogues[k]) \in Runs("pop", From) /\ From \in Nat
    BY <1>1, FromIsTyped DEF MirrorsFound, Mirrors, PopRuns, From
  <2>3. RunOf(epilogues[k])[2] \in Nat
    BY <2>2, RunIsPair
  <2>4. QED
    BY <1>1, <1>6, <2>1, <2>3 DEF Boundary
<1>8. MirrorsFound'
  <2>1. CASE Started /\ RunOf(set) \in Mirrors /\ epilogues' = Append(epilogues, set)
    <3> DEFINE n == Len(epilogues)
    <3>1. /\ n \in Nat /\ DOMAIN epilogues = 1 .. n /\ DOMAIN epilogues' = 1 .. n + 1
          /\ \A k \in 1 .. n : epilogues'[k] = epilogues[k]
          /\ epilogues'[n + 1] = set
      BY <1>1, <2>1
    <3>2. \A k \in DOMAIN epilogues' :
            \/ k \in DOMAIN epilogues /\ epilogues'[k] = epilogues[k]
            \/ k = n + 1 /\ epilogues'[k] = set
      BY <3>1
    <3>3. \A k \in DOMAIN epilogues' : /\ RunOf(epilogues'[k]) \in Mirrors
                                       /\ Holds(epilogues'[k], RunOf(epilogues'[k]))
                                       /\ RunOf(epilogues'[k])[2] < next
      BY <1>1, <1>6, <1>7, <2>1, <3>2 DEF MirrorsFound
    <3>4. ASSUME NEW j \in DOMAIN epilogues', NEW k \in DOMAIN epilogues', j < k
          PROVE  RunOf(epilogues'[j])[2] < RunOf(epilogues'[k])[1]
      <4>1. j \in DOMAIN epilogues /\ epilogues'[j] = epilogues[j]
        BY <3>1, <3>4
      <4>2. CASE k \in DOMAIN epilogues
        BY <1>1, <3>1, <3>4, <4>1, <4>2, SMTT(30) DEF MirrorsFound
      <4>3. CASE k = n + 1
        BY <1>6, <1>7, <2>1, <3>1, <4>1, <4>3
      <4>4. QED
        BY <3>2, <4>2, <4>3
    <3>5. ASSUME NEW m \in Mirrors, m[2] < next
          PROVE  \E k \in DOMAIN epilogues' : RunOf(epilogues'[k]) = m
      <4>1. CASE m[2] < Boundary
        <5>1. PICK k \in DOMAIN epilogues : RunOf(epilogues[k]) = m
          BY <1>1, <4>1 DEF MirrorsFound
        <5>2. k \in DOMAIN epilogues' /\ epilogues'[k] = epilogues[k]
          BY <3>1
        <5>3. QED
          BY <5>1, <5>2
      <4>2. CASE m = RunOf(set)
        <5>1. n + 1 \in DOMAIN epilogues'
          BY <3>1
        <5>2. QED
          BY <3>1, <4>2, <5>1
      <4>3. QED
        BY <1>5, <3>5, <4>1, <4>2
    <3> HIDE DEF n
    <3>6. QED
      BY <1>2, <3>3, <3>4, <3>5 DEF MirrorsFound, Holds, Unbroken, RunOf
  <2>2. CASE ~(Started /\ RunOf(set) \in Mirrors) /\ epilogues' = epilogues
    <3>1. \A m \in Mirrors : m[2] < next => m[2] < Boundary
      BY <1>5, <2>2
    <3>2. QED
      BY <1>1, <1>2, <1>7, <2>2, <3>1 DEF MirrorsFound, Holds, Unbroken, RunOf
  <2>3. QED
    BY <2>1, <2>2
<1>9. QED
  BY <1>2, <1>3, <1>4, <1>8 DEF IInv

LEMMA CandidateHolds ==
  ASSUME IInv, KeepEpilogue \/ DropCandidate
  PROVE  IInv'
<1> USE SameFunction
<1>1. pc = "scanned" /\ prologue # <<>> /\ UNCHANGED input
  BY DEF KeepEpilogue, DropCandidate
<1>2. /\ Active /\ Typed /\ Filling /\ FirstFound /\ set \in InstrSets
      /\ IsEpilogue(prologue[1], set) <=> Started /\ RunOf(set) \in Mirrors
  BY <1>1, EpilogueIsMirror DEF Active, IInv, Typed
<1>3. Advanced(orig, set) \in Nat
  BY <1>2, BodyIsTyped DEF Advanced, Bytes, Typed
<1>4. CASE Refused /\ Err("ENOMEM", heap, <<set>>)
  BY <1>1, <1>2, <1>4, ErrGivesUp, GivingUpHolds DEF Refused
<1>5. CASE /\ IsEpilogue(prologue[1], set) /\ NewCandidate
           /\ orig' = Advanced(orig, set) /\ epilogues' = Append(epilogues, set)
           /\ pc' = "loop" /\ UNCHANGED <<next, walk, prologue, ret, refused>>
  <2>1. set' = EmptySet(0) /\ fresh' = TRUE /\ set'.instrs = <<>>
    BY <1>5 DEF NewCandidate, EmptySet
  <2>2. set' \in InstrSets /\ set'.start <= set'.end
    BY <2>1 DEF EmptySet, InstrSets
  <2>3. epilogues' \in Seq(InstrSets)
    BY <1>2, <1>5 DEF Typed
  <2>4. Typed'
    BY <1>1, <1>2, <1>3, <1>5, <2>1, <2>2, <2>3 DEF Typed, InstrSets, Instrs, OffsetIn
  <2>5. QED
    BY <1>1, <1>2, <1>5, <2>1, <2>4, SettledHolds
<1>6. CASE /\ ~IsEpilogue(prologue[1], set)
           /\ orig' = Advanced(orig, set) /\ set' = [set EXCEPT !.instrs = <<>>]
           /\ pc' = "loop" /\ UNCHANGED <<next, walk, fresh, found, ret, refused>>
  <2>1. set'.instrs = <<>> /\ set' \in InstrSets /\ set'.start <= set'.end
    <3>1. set'.instrs = <<>> /\ set'.start = set.start /\ set'.end = set.end
      BY <1>2, <1>6 DEF InstrSets
    <3>2. <<>> \in Seq(Instrs)
      OBVIOUS
    <3>3. set' \in InstrSets
      BY <1>2, <1>6, <3>2 DEF InstrSets
    <3>4. QED
      BY <1>2, <3>1, <3>3 DEF Typed
  <2>2. prologue' = prologue /\ epilogues' = epilogues
    BY <1>6 DEF found
  <2>3. Typed'
    BY <1>1, <1>2, <1>3, <1>6, <2>1, <2>2 DEF Typed, InstrSets, Instrs, OffsetIn
  <2>4. QED
    BY <1>1, <1>2, <1>6, <2>1, <2>2, <2>3, SettledHolds
<1>7. CASE /\ ~IsEpilogue(prologue[1], set) /\ Stale(<<set>>) /\ refused' = refused
  <2>1. Started
    <3>1. \E k \in 1 .. 1 : Range(<<set>>[k].instrs) # {}
      BY <1>7 DEF Stale, Held
    <3>2. QED
      BY <3>1 DEF Started, Range
  <2>2. RunOf(set) \in PopRuns
    BY <1>1, <1>2, <2>1, SetIsRun DEF PopRuns, Kind, From
  <2>3. PopRuns # Mirrors
    BY <1>2, <1>7, <2>1, <2>2
  <2>4. pc' = "stale" /\ ret' = ret /\ UNCHANGED <<scan, found>> /\ refused' \in BOOLEAN
    BY <1>2, <1>7 DEF Stale, Undefined, Typed
  <2>5. QED
    BY <1>1, <1>2, <2>3, <2>4, FailureHolds DEF IInv, Answered
<1>8. QED
  BY <1>1, <1>4, <1>5, <1>6, <1>7 DEF KeepEpilogue, DropCandidate, Granted

(***************************************************************************)
(* The call returns, and later its function is closed.                     *)
(***************************************************************************)
LEMMA AcceptHolds ==
  ASSUME IInv, Accept
  PROVE  IInv'
<1> USE SameFunction
<1>1. /\ pc = "loop" /\ walk = size /\ epilogues # <<>> /\ pc' = "done" /\ ret' = "SUCCESS"
      /\ UNCHANGED <<next, walk, orig, set, fresh, prologue, epilogues, refused, input>>
  BY DEF Accept, Leave, scan, found
<1>2. Active /\ Typed /\ Filling /\ FirstFound /\ MirrorsFound /\ ~Active'
  BY <1>1 DEF Active, IInv
<1>3. /\ walk \in Nat /\ size \in Nat /\ Len(body) \in Nat
      /\ (walk >= size <=> next = Len(body) + 1)
  BY <1>2, BytesLeft, BodyIsTyped
<1>4. next = Len(body) + 1
  BY <1>1, <1>3
<1>5. prologue # <<>> /\ Boundary = Len(body) + 1
  BY <1>1, <1>2, <1>4 DEF FirstFound, Filling, Boundary
<1>6. ASSUME NEW m \in Mirrors
      PROVE  \E k \in DOMAIN epilogues : RunOf(epilogues[k]) = m
  <2>1. From \in Nat \ {0} /\ m \in Runs("pop", From)
    BY <1>2, <1>5, FromIsTyped DEF Mirrors, PopRuns, From
  <2>2. m[2] < Boundary
    BY <1>3, <1>5, <2>1, RunIsPair
  <2>3. QED
    BY <1>2, <1>5, <2>2 DEF MirrorsFound
<1>7. Acceptable
  <2>1. \A k \in Instrs : body[k].op # "bad"
    BY <1>2, <1>3, <1>4 DEF Filling, Instrs
  <2>2. size = OffsetIn(body, Len(body) + 1)
    BY <1>1, <1>2, <1>4 DEF Typed
  <2>3. Mirrors # {}
    <3>1. 1 \in DOMAIN epilogues
      BY <1>1, <1>2 DEF Typed
    <3>2. QED
      BY <1>2, <3>1 DEF MirrorsFound
  <2>4. QED
    BY <1>2, <1>5, <2>1, <2>2, <2>3 DEF Acceptable, FirstFound
<1>8. Typed'
  BY <1>1, <1>2 DEF Typed, InstrSets, Instrs, OffsetIn
<1>9. FirstFound'
  BY <1>1, <1>2 DEF FirstFound, Holds, Unbroken, RunOf, Length
<1>10. MirrorsFound'
  BY <1>1, <1>2 DEF MirrorsFound, Holds, Unbroken, RunOf
<1>11. Answered'
  BY <1>1, <1>2, <1>5, <1>6, <1>7 DEF Answered, RunOf
<1>12. QED
  BY <1>2, <1>8, <1>9, <1>10, <1>11 DEF IInv

LEMMA RestHolds ==
  ASSUME IInv, CloseTransform \/ UNCHANGED vars
  PROVE  IInv'
<1> USE SameFunction
<1>1. CASE UNCHANGED vars
  <2>1. UNCHANGED <<next, walk, orig, set, fresh, prologue, epilogues, refused, pc, ret, input>>
    BY <1>1 DEF vars, scan, found
  <2>2. Typed'
    BY <2>1 DEF IInv, Typed, InstrSets, Instrs, OffsetIn
  <2>3. (Active => Filling) => (Active' => Filling')
    BY <2>1 DEF Active, Filling, Started, Kind, From, Unbroken, RunOf
  <2>4. FirstFound'
    BY <2>1 DEF IInv, FirstFound, Holds, Unbroken, RunOf, Length, Active, Boundary, Started
  <2>5. MirrorsFound'
    BY <2>1 DEF IInv, MirrorsFound, Holds, Unbroken, RunOf, Active, Boundary, Started
  <2>6. Answered'
    BY <2>1 DEF IInv, Answered, Active, RunOf
  <2>7. QED
    BY <2>2, <2>3, <2>4, <2>5, <2>6 DEF IInv
<1>2. CASE CloseTransform
  <2>1. /\ pc = "done" /\ ret = "SUCCESS" /\ pc' \in {"closed", "stale"}
        /\ UNCHANGED <<next, walk, orig, set, fresh, prologue, epilogues, refused, ret, input>>
    BY <1>2 DEF CloseTransform, Stale, Undefined, scan, found
  <2>2. ~Active'
    BY <2>1 DEF Active
  <2>3. Typed'
    BY <2>1 DEF IInv, Typed, InstrSets, Instrs, OffsetIn
  <2>4. FirstFound'
    BY <2>1, <2>2 DEF IInv, FirstFound, Holds, Unbroken, RunOf, Length
  <2>5. MirrorsFound'
    BY <2>1, <2>2 DEF IInv, MirrorsFound, Holds, Unbroken, RunOf
  <2>6. Answered'
    BY <2>1, <2>2 DEF IInv, Answered, RunOf
  <2>7. QED
    BY <2>2, <2>3, <2>4, <2>5, <2>6 DEF IInv
<1>3. QED
  BY <1>1, <1>2

LEMMA InitHolds == Init => IInv
<1> SUFFICES ASSUME Init PROVE IInv
  OBVIOUS
<1>1. body \in Seq(Instructions) /\ Len(body) \in Nat
  BY BodiesAssumption DEF Init
<1>2. /\ set.instrs = <<>> /\ set.start = 0 /\ set.end = 0 /\ set \in InstrSets
      /\ ~Started
  BY DEF Init, EmptySet, InstrSets, Started
<1>3. Typed
  <2>1. /\ next \in 1 .. Len(body) + 1
        /\ walk = OffsetIn(body, next) /\ walk \in Nat /\ orig \in Nat
    BY <1>1 DEF Init, OffsetIn
  <2>2. /\ prologue \in Seq(InstrSets) /\ Len(prologue) <= 1
        /\ epilogues \in Seq(InstrSets)
    BY DEF Init
  <2>3. fresh \in BOOLEAN /\ refused \in BOOLEAN
    BY DEF Init
  <2>4. QED
    BY <1>2, <2>1, <2>2, <2>3 DEF Init, Typed
<1>4. Filling
  BY <1>2 DEF Init, Filling, Unbroken, From
<1>5. FirstFound
  BY <1>2 DEF Init, FirstFound, Boundary
<1>6. MirrorsFound /\ Answered
  BY DEF Init, MirrorsFound, Answered, Active
<1>7. QED
  BY <1>3, <1>4, <1>5, <1>6 DEF IInv

LEMMA NextHolds == IInv /\ [Next]_vars => IInv'
<1> SUFFICES ASSUME IInv, [Next]_vars PROVE IInv'
  OBVIOUS
<1>1. CASE UNCHANGED vars \/ CloseTransform \/ Returned
  BY <1>1, RestHolds DEF Returned
<1>2. CASE Step
  BY <1>2, EnteringHolds, FailedScansHold, KeepInstructionHolds, SkipInstructionHolds,
     EndOfScanHolds, TooSmallHolds, HasPrologueHolds, CandidateHolds, UnsoundHolds, AcceptHolds
     DEF Step
<1>3. QED
  BY <1>1, <1>2 DEF Next

LEMMA IInvHolds == Spec => []IInv
BY InitHolds, NextHolds, PTL DEF Spec

-----------------------------------------------------------------------------
(***************************************************************************)
(* As many epilogues as mirror images, since no two hold the same run.     *)
(***************************************************************************)
LEMMA EpiloguesAreCounted ==
  ASSUME IInv, ret = "SUCCESS"
  PROVE  /\ { RunOf(epilogues[i]) : i \in DOMAIN epilogues } = Mirrors
         /\ Len(epilogues) = Cardinality(Mirrors)
<1> DEFINE n == Len(epilogues)
           run == [k \in 1 .. n |-> RunOf(epilogues[k])]
<1>1. n \in Nat /\ DOMAIN epilogues = 1 .. n
  BY DEF IInv, Typed
<1>2. prologue # <<>> /\ From \in Nat
  BY FromIsTyped DEF IInv, Answered
<1>3. \A k \in 1 .. n : run[k] \in Mirrors
  BY <1>1 DEF IInv, MirrorsFound
<1>4. \A m \in Mirrors : \E k \in 1 .. n : run[k] = m
  BY <1>1 DEF IInv, Answered
<1>5. ASSUME NEW j \in 1 .. n, NEW k \in 1 .. n, run[j] = run[k] PROVE j = k
  <2>1. /\ run[j][1] \in Nat /\ run[j][2] \in Nat /\ run[j][1] <= run[j][2]
        /\ run[k][1] \in Nat /\ run[k][2] \in Nat /\ run[k][1] <= run[k][2]
    <3>1. run[j] \in Runs("pop", From) /\ run[k] \in Runs("pop", From)
      BY <1>2, <1>3 DEF Mirrors, PopRuns, From
    <3>2. QED
      BY <1>2, <3>1, RunIsPair
  <2>2. /\ j < k => run[j][2] < run[k][1]
        /\ k < j => run[k][2] < run[j][1]
    BY <1>1 DEF IInv, MirrorsFound
  <2> HIDE DEF run, n
  <2>3. QED
    BY <1>1, <1>5, <2>1, <2>2
<1>6. { RunOf(epilogues[i]) : i \in DOMAIN epilogues } = Mirrors
  BY <1>1, <1>3, <1>4
<1>7. run \in Bijection(1 .. n, Mirrors)
  BY <1>3, <1>4, <1>5 DEF Bijection, Injection, Surjection, IsInjective
<1>8. IsFiniteSet(1 .. n) /\ Cardinality(1 .. n) = n
  <2> HIDE DEF run, n
  <2>1. 1 \in Int /\ n \in Int
    BY <1>1
  <2>2. IsFiniteSet(1 .. n) /\ Cardinality(1 .. n) = IF 1 > n THEN 0 ELSE n - 1 + 1
    BY <2>1, FS_Interval
  <2>3. QED
    BY <1>1, <2>2
<1>9. Cardinality(Mirrors) = n
  BY <1>7, <1>8, FS_Bijection DEF ExistsBijection
<1>10. QED
  BY <1>6, <1>9

(***************************************************************************)
(* transform_add_function() accepts a function exactly if it is one to be  *)
(* permuted, and then holds its first pushes and all their mirror images,  *)
(* for every function (transform.c:328-403).                               *)
(***************************************************************************)
THEOREM AnalysisIsRight == Spec => []FindsWhatIsThere
<1>1. IInv => FindsWhatIsThere
  <2> SUFFICES ASSUME IInv PROVE FindsWhatIsThere
    OBVIOUS
  <2>1. ASSUME ret = "SUCCESS"
        PROVE  /\ Acceptable /\ RunOf(prologue[1]) = FirstPushes
               /\ \A i \in 1 .. Len(epilogues) - 1 :
                    RunOf(epilogues[i])[2] < RunOf(epilogues[i + 1])[1]
    <3>1. Acceptable /\ RunOf(prologue[1]) = FirstPushes
      BY <2>1 DEF IInv, Answered, FirstFound, Holds
    <3>2. ASSUME NEW i \in 1 .. Len(epilogues) - 1
          PROVE  RunOf(epilogues[i])[2] < RunOf(epilogues[i + 1])[1]
      <4>1. epilogues \in Seq(InstrSets)
        BY DEF IInv, Typed
      <4>2. i \in DOMAIN epilogues /\ i + 1 \in DOMAIN epilogues /\ i < i + 1
        BY <3>2, <4>1
      <4>3. QED
        BY <4>2 DEF IInv, MirrorsFound
    <3>3. QED
      BY <3>1, <3>2
  <2>2. QED
    BY <2>1, EpiloguesAreCounted DEF FindsWhatIsThere, IInv, Answered
<1>2. QED
  BY <1>1, IInvHolds, PTL

(***************************************************************************)
(* Unwritten or destroyed memory is read in the analysis only where memory *)
(* has run out, or the function is rejected or has a run of pops that is   *)
(* no epilogue (transform.c:69, 434).                                      *)
(***************************************************************************)
THEOREM UndefinedReadsAreExplained == Spec => []UndefinedIsRejection
<1>1. IInv => UndefinedIsRejection
  BY DEF IInv, Answered, UndefinedIsRejection
<1>2. QED
  BY <1>1, IInvHolds, PTL

-----------------------------------------------------------------------------
(***************************************************************************)
(* What is allocated.  The instructions in a sequence of sets:             *)
(***************************************************************************)
LEMMA HeldInBoth ==
  ASSUME NEW a \in Seq(InstrSets), NEW b \in Seq(InstrSets)
  PROVE  Held(a \o b) = Held(a) \cup Held(b)
<1>1. /\ \A i \in DOMAIN a : i \in DOMAIN (a \o b) /\ (a \o b)[i] = a[i]
      /\ \A i \in DOMAIN b : Len(a) + i \in DOMAIN (a \o b) /\ (a \o b)[Len(a) + i] = b[i]
  OBVIOUS
<1>2. \A i \in DOMAIN (a \o b) :
        \/ i \in DOMAIN a /\ (a \o b)[i] = a[i]
        \/ i - Len(a) \in DOMAIN b /\ (a \o b)[i] = b[i - Len(a)]
  OBVIOUS
<1>3. ASSUME NEW x \in Held(a \o b) PROVE x \in Held(a) \cup Held(b)
  <2>1. PICK i \in DOMAIN (a \o b) : x \in Range((a \o b)[i].instrs)
    BY <1>3 DEF Held
  <2>2. QED
    BY <1>2, <2>1 DEF Held
<1>4. ASSUME NEW x \in Held(a) PROVE x \in Held(a \o b)
  <2>1. PICK i \in DOMAIN a : x \in Range(a[i].instrs)
    BY <1>4 DEF Held
  <2>2. QED
    BY <1>1, <2>1 DEF Held
<1>5. ASSUME NEW x \in Held(b) PROVE x \in Held(a \o b)
  <2>1. PICK i \in DOMAIN b : x \in Range(b[i].instrs)
    BY <1>5 DEF Held
  <2>2. QED
    BY <1>1, <2>1 DEF Held
<1>6. QED
  BY <1>3, <1>4, <1>5

LEMMA HeldTogether ==
  ASSUME Typed, NEW s \in InstrSets
  PROVE  /\ Held(<<s>> \o prologue \o epilogues)
              = Range(s.instrs) \cup Held(prologue) \cup Held(epilogues)
         /\ Held(<<>> \o prologue \o epilogues) = Held(prologue) \cup Held(epilogues)
         /\ Held(prologue \o epilogues) = Held(prologue) \cup Held(epilogues)
         /\ Held(<<s>>) = Range(s.instrs)
         /\ Held(<<>>) = {}
<1>1. prologue \in Seq(InstrSets) /\ epilogues \in Seq(InstrSets) /\ <<s>> \in Seq(InstrSets)
  BY DEF Typed
<1>2. Held(<<s>>) = Range(s.instrs)
  <2>1. DOMAIN <<s>> = {1} /\ <<s>>[1] = s
    OBVIOUS
  <2>2. QED
    BY <2>1 DEF Held
<1>3. Held(<<>>) = {}
  BY DEF Held
<1>4. <<s>> \o prologue \in Seq(InstrSets) /\ <<>> \o prologue = prologue
  BY <1>1
<1>5. /\ Held((<<s>> \o prologue) \o epilogues) = Held(<<s>> \o prologue) \cup Held(epilogues)
      /\ Held(<<s>> \o prologue) = Held(<<s>>) \cup Held(prologue)
      /\ Held(prologue \o epilogues) = Held(prologue) \cup Held(epilogues)
  BY <1>1, <1>4, HeldInBoth
<1>6. QED
  BY <1>2, <1>3, <1>4, <1>5

LEMMA HeldAreInstrs ==
  ASSUME Typed
  PROVE  /\ Held(prologue) \subseteq Instrs /\ Held(epilogues) \subseteq Instrs
         /\ Range(set.instrs) \subseteq Instrs
<1>1. /\ prologue \in Seq(InstrSets) /\ epilogues \in Seq(InstrSets) /\ set \in InstrSets
  BY DEF Typed
<1>2. ASSUME NEW s \in InstrSets PROVE Range(s.instrs) \subseteq Instrs
  BY <1>2 DEF InstrSets, Range
<1>3. ASSUME NEW a \in Seq(InstrSets) PROVE Held(a) \subseteq Instrs
  <2>1. \A i \in DOMAIN a : a[i] \in InstrSets
    BY <1>3
  <2>2. \A i \in DOMAIN a : Range(a[i].instrs) \subseteq Instrs
    BY <1>2, <2>1
  <2>3. QED
    BY <2>2 DEF Held
<1>4. QED
  BY <1>1, <1>2, <1>3

LEMMA HeldIsRun ==
  ASSUME NEW s \in InstrSets, NEW r, Holds(s, r)
  PROVE  Range(s.instrs) = r[1] .. r[2]
<1> DEFINE e == s.instrs
           m == Len(e)
<1>1. /\ e \in Seq(Instrs) /\ m \in Nat \ {0} /\ DOMAIN e = 1 .. m /\ e[1] \in Nat
      /\ r[1] = e[1] /\ r[2] = e[m]
      /\ \A k \in 1 .. m : e[k] = e[1] + k - 1
  <2>1. e \in Seq(Instrs) /\ e # <<>>
    BY DEF InstrSets, Holds
  <2>2. m \in Nat \ {0} /\ DOMAIN e = 1 .. m
    BY <2>1
  <2>3. e[1] \in Nat
    BY <2>1, <2>2 DEF Instrs
  <2>4. QED
    BY <2>1, <2>2, <2>3 DEF Holds, Unbroken, RunOf
<1> HIDE DEF e, m
<1>2. r[2] = e[1] + m - 1
  BY <1>1
<1>3. ASSUME NEW x \in r[1] .. r[2] PROVE \E k \in DOMAIN e : e[k] = x
  <2>1. x + 1 - e[1] \in 1 .. m /\ e[1] + (x + 1 - e[1]) - 1 = x
    BY <1>1, <1>2, <1>3
  <2>2. QED
    BY <1>1, <2>1
<1>4. \A k \in DOMAIN e : e[k] \in r[1] .. r[2]
  BY <1>1, <1>2
<1>5. Range(e) = r[1] .. r[2]
  BY <1>3, <1>4 DEF Range
<1>6. QED
  BY <1>5 DEF e

(***************************************************************************)
(* The objects in the call's hands, those a caller is given on success,    *)
(* and the one that may be lost.                                           *)
(***************************************************************************)
Objects == [tf : Int, order : Int, sets : Int, instrs : SUBSET Instrs, spare : Int]

Has(h, tf, order, sets, instrs, spare) ==
  /\ h \in Objects
  /\ h.tf = tf /\ h.order = order /\ h.sets = sets /\ h.instrs = instrs /\ h.spare = spare

InHand(h) ==
  Has(h, 1, IF prologue = <<>> THEN 0 ELSE 1,
      IF prologue = <<>> THEN 0 ELSE Len(epilogues) + 1,
      Range(set.instrs) \cup Held(prologue) \cup Held(epilogues),
      IF pc = "scan" THEN 1 ELSE 0)

GivenOut(h) == Has(h, 1, 1, Len(epilogues), Held(prologue) \cup Held(epilogues), 0)

OnlyTf == [Nothing EXCEPT !.tf = 1]

TfIsLost ==
  \/ refused
  \/ \E k \in Instrs : /\ body[k].op = "bad"
                       /\ \A run \in Runs("push", 1) : k <= run[2] + 1

HInv ==
  /\ heap \in Objects
  /\ pc = "create" => heap = Nothing /\ prologue = <<>>
  /\ pc \in {"enter", "scan", "scanned", "loop"} => InHand(heap)
  /\ pc = "done" => ret # "none" /\ (ret = "SUCCESS" => GivenOut(heap))
  /\ pc = "closed" => heap = OnlyTf
  /\ ret \in {"ETRANSFORM", "ENOMEM"} => heap = Nothing \/ (heap = OnlyTf /\ TfIsLost)
  /\ heap.tf \in {0, 1} /\ heap.order \in {0, 1} /\ heap.sets \in Nat /\ heap.spare \in {0, 1}

LEMMA SameObjects ==
  ASSUME NEW h \in Objects, NEW k \in Objects, h.tf = k.tf, h.order = k.order,
         h.sets = k.sets, h.instrs = k.instrs, h.spare = k.spare
  PROVE  h = k
BY DEF Objects

LEMMA FewObjects ==
  /\ Has(Nothing, 0, 0, 0, {}, 0) /\ Has(OnlyTf, 1, 0, 0, {}, 0)
  /\ \A h : Has(h, 0, 0, 0, {}, 0) => h = Nothing
  /\ \A h : Has(h, 1, 0, 0, {}, 0) => h = OnlyTf
<1>1. Has(Nothing, 0, 0, 0, {}, 0) /\ Has(OnlyTf, 1, 0, 0, {}, 0)
  BY DEF Has, Nothing, OnlyTf, Objects
<1>2. QED
  BY <1>1, SameObjects DEF Has

LEMMA InHandIsTyped ==
  ASSUME Typed, NEW h, InHand(h) \/ GivenOut(h) \/ h = Nothing \/ h = OnlyTf
  PROVE  /\ h \in Objects
         /\ h.tf \in {0, 1} /\ h.order \in {0, 1} /\ h.sets \in Nat /\ h.spare \in {0, 1}
<1>1. Len(epilogues) \in Nat
  BY DEF Typed
<1>2. QED
  BY <1>1, FewObjects DEF InHand, GivenOut, Has

(***************************************************************************)
(* A record that changes keeps its type.                                   *)
(***************************************************************************)
LEMMA FieldsChange ==
  ASSUME NEW N, NEW P, NEW n1 \in N, NEW n2 \in N, NEW p \in P,
         NEW h \in [tf : N, order : N, sets : N, instrs : P, spare : N]
  PROVE  /\ [h EXCEPT !.order = n1, !.instrs = p, !.sets = n2]
              \in [tf : N, order : N, sets : N, instrs : P, spare : N]
         /\ [h EXCEPT !.order = n1, !.sets = n2]
              \in [tf : N, order : N, sets : N, instrs : P, spare : N]
         /\ [h EXCEPT !.spare = n1, !.instrs = p]
              \in [tf : N, order : N, sets : N, instrs : P, spare : N]
OBVIOUS

(***************************************************************************)
(* Where the call gives up.  cleanup: nothing is left of what was in hand. *)
(***************************************************************************)
LEMMA ClosedObjects ==
  ASSUME Typed, NEW h \in Objects, NEW c
  PROVE  /\ Close(h, c) \in Objects
         /\ Close(h, c).tf = h.tf /\ Close(h, c).order = 0 /\ Close(h, c).spare = h.spare
         /\ Close(h, c).sets = h.sets - Len(epilogues)
         /\ Close(h, c).instrs = h.instrs \ Held(c \o prologue \o epilogues)
<1> DEFINE gone == Held(c \o prologue \o epilogues)
           sets == h.sets - Len(epilogues)
           left == h.instrs \ gone
<1>1. sets \in Int /\ left \in SUBSET Instrs
  BY DEF Typed, Objects
<1>2. Close(h, c) = [h EXCEPT !.order = 0, !.instrs = left, !.sets = sets]
  BY DEF Close
<1> HIDE DEF left, sets
<1>3. 0 \in Int /\ h \in [tf : Int, order : Int, sets : Int, instrs : SUBSET Instrs, spare : Int]
  BY DEF Objects
<1>4. [h EXCEPT !.order = 0, !.instrs = left, !.sets = sets] \in Objects
  BY <1>1, <1>3, FieldsChange, Zenon DEF Objects
<1>5. QED
  BY <1>1, <1>2, <1>3, <1>4 DEF left, sets

LEMMA NothingIsLeft ==
  ASSUME Typed, FirstFound, NEW c \in Seq(InstrSets), NEW o, NEW kept, NEW h,
         kept \subseteq Held(c \o prologue \o epilogues),
         Has(h, 1, o, IF prologue = <<>> THEN 0 ELSE Len(epilogues) + Len(c), kept, 0)
  PROVE  Cleanup(h, c) = Nothing
<1> DEFINE k == Close(h, c)
           tf == k.tf - 1
           sets == k.sets - (IF prologue = <<>> THEN 0 ELSE Len(c))
<1>1. Len(epilogues) \in Nat /\ Len(c) \in Nat /\ (prologue = <<>> => Len(epilogues) = 0)
  BY DEF Typed, FirstFound
<1>2. k \in Objects /\ k.tf = 1 /\ k.order = 0 /\ k.spare = 0 /\ k.instrs = {} /\ sets = 0
  BY <1>1, ClosedObjects DEF Has
<1>3. Cleanup(h, c) = [k EXCEPT !.tf = tf, !.sets = sets]
  BY DEF Cleanup
<1>4. tf = 0
  BY <1>2
<1> HIDE DEF k, tf, sets
<1>5. Has(Cleanup(h, c), 0, 0, 0, {}, 0)
  BY <1>2, <1>3, <1>4 DEF Has, Objects
<1>6. QED
  BY <1>5, FewObjects

LEMMA GivingUpKeeps ==
  ASSUME IInv, HInv, Active, UNCHANGED input, UNCHANGED <<scan, found>>,
         \/ /\ pc' = "done" /\ ret' \in {"ETRANSFORM", "ENOMEM"}
            /\ heap' = Nothing \/ (heap' = OnlyTf /\ TfIsLost')
         \/ pc' \in {"stale", "unset"} /\ ret' = ret /\ heap' = heap
  PROVE  HInv'
<1>1. ret = "none"
  BY DEF IInv, Answered
<1>2. Objects' = Objects /\ Nothing' = Nothing /\ OnlyTf' = OnlyTf
  BY DEF Objects, Instrs, input, Nothing, OnlyTf
<1>3. /\ heap' \in Objects
      /\ heap'.tf \in {0, 1} /\ heap'.order \in {0, 1} /\ heap'.sets \in Nat
      /\ heap'.spare \in {0, 1}
  BY InHandIsTyped DEF IInv, HInv
<1>4. CASE pc' = "done" /\ ret' \in {"ETRANSFORM", "ENOMEM"}
  <2>1. heap' = Nothing \/ (heap' = OnlyTf /\ TfIsLost')
    BY <1>4
  <2>2. QED
    BY <1>2, <1>3, <1>4, <2>1 DEF HInv
<1>5. CASE pc' \in {"stale", "unset"} /\ ret' = ret
  BY <1>1, <1>2, <1>3, <1>5 DEF HInv
<1>6. QED
  BY <1>4, <1>5

LEMMA ErrKeeps ==
  ASSUME IInv, HInv, Active, UNCHANGED input, NEW code \in {"ETRANSFORM", "ENOMEM"},
         NEW h, NEW c, Cleanup(h, c) = Nothing, Err(code, h, c)
  PROVE  HInv'
<1>1. CASE Leave(code, Cleanup(h, c))
  <2>1. /\ pc' = "done" /\ ret' \in {"ETRANSFORM", "ENOMEM"} /\ heap' = Nothing
        /\ UNCHANGED <<scan, found>>
    BY <1>1 DEF Leave
  <2>2. QED
    BY <2>1, GivingUpKeeps
<1>2. CASE Stale(c \o prologue \o epilogues)
  BY <1>2, GivingUpKeeps DEF Stale, Undefined
<1>3. QED
  BY <1>1, <1>2 DEF Err

\* A function is rejected between two scans, before its candidate is dropped.
LEMMA ErrInHandKeeps ==
  ASSUME IInv, HInv, pc \in {"enter", "scanned"}, UNCHANGED input,
         NEW code \in {"ETRANSFORM", "ENOMEM"}, Err(code, heap, <<set>>)
  PROVE  HInv'
<1>1. Active /\ Typed /\ FirstFound /\ InHand(heap) /\ set \in InstrSets
  BY DEF Active, IInv, HInv, Typed
<1>2. <<set>> \in Seq(InstrSets) /\ Len(<<set>>) = 1
  BY <1>1
<1>3. heap.instrs \subseteq Held(<<set>> \o prologue \o epilogues)
  BY <1>1, HeldTogether DEF InHand, Has
<1>4. Has(heap, 1, heap.order,
          IF prologue = <<>> THEN 0 ELSE Len(epilogues) + Len(<<set>>), heap.instrs, 0)
  BY <1>1, <1>2 DEF InHand, Has
<1>5. Cleanup(heap, <<set>>) = Nothing
  BY <1>1, <1>2, <1>3, <1>4, NothingIsLeft
<1>6. QED
  BY <1>1, <1>5, ErrKeeps

\* The scan for the prologue has not come past the end of the first pushes.
LEMMA ScanIsWithinPushes ==
  ASSUME IInv, pc = "scan", prologue = <<>>, next \in Instrs,
         NEW run \in Runs("push", 1)
  PROVE  next <= run[2] + 1
<1>1. /\ Typed /\ Filling /\ FirstFound /\ Len(body) \in Nat /\ next \in Nat
      /\ Kind = "push"
  BY BodyIsTyped DEF IInv, Active, Kind
<1>2. /\ run[1] \in 1 .. Len(body) /\ run[2] \in 1 .. Len(body) /\ run[1] <= run[2]
      /\ body[run[2]].op = "push"
      /\ run[2] < Len(body) => body[run[2] + 1].op # "push"
  <2>1. /\ run[1] \in 1 .. Len(body) /\ run[2] \in 1 .. Len(body) /\ run[1] <= run[2]
        /\ \A k \in run[1] .. run[2] : body[k].op = "push"
        /\ run[2] < Len(body) => body[run[2] + 1].op # "push"
    BY <1>1, RunIsPair
  <2>2. run[2] \in run[1] .. run[2]
    BY <2>1
  <2>3. QED
    BY <2>1, <2>2
<1>3. SUFFICES ASSUME run[2] + 1 < next PROVE FALSE
  BY <1>1, <1>2
<1>4. Started /\ set.instrs[1] <= run[2]
  <2>1. \A k \in 1 .. Boundary - 1 : body[k].op # "push"
    BY <1>1 DEF FirstFound, Active
  <2>2. ~(run[2] \in 1 .. Boundary - 1)
    BY <1>2, <2>1
  <2>3. Boundary \in Nat
    BY <1>1, BodyIsTyped DEF Boundary, Instrs
  <2>4. Boundary <= run[2]
    BY <1>2, <2>2, <2>3
  <2>5. QED
    BY <1>1, <1>2, <1>3, <2>4 DEF Boundary
<1> DEFINE e == set.instrs
           m == Len(e)
<1>5. /\ m \in Nat \ {0} /\ e[1] \in Nat \ {0} /\ e[m] = next - 1
      /\ \A k \in 1 .. m : e[k] = e[1] + k - 1 /\ body[e[k]].op = "push"
  <2>1. m \in Nat \ {0} /\ DOMAIN e = 1 .. m /\ e[1] \in Instrs /\ e[m] = RunOf(set)[2]
    BY <1>1, <1>4, BodyIsTyped
  <2>2. QED
    BY <1>1, <1>4, <2>1 DEF Filling, Unbroken, Instrs
<1> HIDE DEF e, m
<1> DEFINE first == e[1]
           last == e[m]
           x == run[2] + 1
           k == (x + 1) - first
<1>6. k \in 1 .. m /\ first + k - 1 = x
  <2>1. last = first + m - 1
    BY <1>5
  <2>2. first <= run[2]
    BY <1>4 DEF e
  <2>3. first <= x /\ x <= last
    BY <1>1, <1>2, <1>3, <1>5, <2>2, SMTT(30)
  <2>4. first \in Nat /\ m \in Nat /\ x \in Nat
    BY <1>2, <1>5
  <2> HIDE DEF first, last, x
  <2>5. QED
    BY <2>1, <2>3, <2>4
<1>7. body[x].op = "push"
  <2> HIDE DEF x, k
  <2>1. QED
    BY <1>5, <1>6
<1>8. run[2] < Len(body)
  BY <1>1, <1>2, <1>3 DEF Instrs
<1>9. QED
  BY <1>2, <1>7, <1>8

LEMMA ScanFailsKeeps ==
  ASSUME IInv, HInv, pc = "scan", UNCHANGED input, NEW code \in {"ETRANSFORM", "ENOMEM"},
         ScanFails(code),
         refused' = TRUE \/ (next \in Instrs /\ body[next].op = "bad")
  PROVE  HInv'
<1> DEFINE kept == heap.instrs \ Held(<<set>>)
           left == [heap EXCEPT !.spare = 0, !.instrs = kept]
<1>1. Active /\ Typed /\ FirstFound /\ InHand(heap) /\ set \in InstrSets
  BY DEF Active, IInv, HInv, Typed
<1>2. kept = (Held(prologue) \cup Held(epilogues)) \ Range(set.instrs)
  BY <1>1, HeldTogether DEF InHand, Has
<1>3. Has(left, 1, heap.order, heap.sets, kept, 0)
  <2>1. heap \in Objects /\ heap.tf = 1 /\ kept \in SUBSET Instrs
    BY <1>1 DEF InHand, Has, Objects
  <2> HIDE DEF kept
  <2>2. 0 \in Int
    OBVIOUS
  <2>3. left \in Objects
    BY <2>1, <2>2, FieldsChange, Zenon DEF Objects
  <2>4. QED
    BY <2>1, <2>3 DEF Has, Objects
<1>4. CASE Stale(<<set>>)
  BY <1>1, <1>4, GivingUpKeeps DEF Stale, Undefined
<1>5. CASE prologue = <<>> /\ Leave(code, left)
  <2>1. epilogues = <<>> /\ Held(prologue) = {} /\ Held(epilogues) = {}
    BY <1>1, <1>5, HeldTogether DEF FirstFound
  <2>2. kept = {} /\ heap.order = 0 /\ heap.sets = 0
    BY <1>1, <1>2, <1>5, <2>1 DEF InHand, Has
  <2>3. left = OnlyTf
    BY <1>3, <2>2, FewObjects
  <2>4. TfIsLost'
    <3>1. CASE refused' = TRUE
      BY <3>1 DEF TfIsLost
    <3>2. CASE next \in Instrs /\ body[next].op = "bad"
      <4>1. \A run \in Runs("push", 1) : next <= run[2] + 1
        BY <1>5, <3>2, ScanIsWithinPushes
      <4>2. body' = body /\ Runs("push", 1)' = Runs("push", 1) /\ Instrs' = Instrs
        BY SameFunction DEF Instrs
      <4>3. QED
        BY <3>2, <4>1, <4>2 DEF TfIsLost
    <3>3. QED
      BY <3>1, <3>2
  <2> HIDE DEF left
  <2>5. QED
    BY <1>1, <1>5, <2>3, <2>4, GivingUpKeeps DEF Leave
<1>6. CASE prologue # <<>> /\ Err(code, left, <<EmptySet(orig)>>)
  <2> DEFINE c == <<EmptySet(orig)>>
  <2>1. EmptySet(orig) \in InstrSets /\ EmptySet(orig).instrs = <<>>
    BY <1>1 DEF EmptySet, InstrSets, Typed
  <2>2. c \in Seq(InstrSets) /\ Len(c) = 1
    BY <2>1
  <2>3. kept \subseteq Held(c \o prologue \o epilogues)
    BY <1>1, <1>2, <2>1, HeldTogether
  <2>4. Has(left, 1, heap.order, IF prologue = <<>> THEN 0 ELSE Len(epilogues) + Len(c), kept, 0)
    BY <1>1, <1>3, <2>2 DEF InHand, Has
  <2> HIDE DEF left, c, kept
  <2>5. Cleanup(left, c) = Nothing
    BY <1>1, <2>2, <2>3, <2>4, NothingIsLeft
  <2>6. QED
    BY <1>1, <1>6, <2>5, ErrKeeps DEF c
<1>7. QED
  BY <1>4, <1>5, <1>6 DEF ScanFails

LEMMA FailedScansKeep ==
  ASSUME IInv, HInv, BadInstruction \/ KeepRefused \/ EnterRefused
  PROVE  HInv'
<1>1. CASE BadInstruction
  <2>1. /\ pc = "scan" /\ UNCHANGED input /\ ScanFails("ETRANSFORM")
        /\ next \in Instrs /\ body[next].op = "bad"
    BY <1>1, BytesLeft DEF BadInstruction, Decoding
  <2>2. QED
    BY <2>1, ScanFailsKeeps
<1>2. CASE KeepRefused
  <2>1. pc = "scan" /\ UNCHANGED input /\ refused' = TRUE /\ Active
    BY <1>2 DEF KeepRefused, Decoding, Refused, Active
  <2>2. CASE ScanFails("ENOMEM")
    BY <2>1, <2>2, ScanFailsKeeps
  <2>3. CASE Undefined("stale")
    BY <2>1, <2>3, GivingUpKeeps DEF Undefined
  <2>4. QED
    BY <1>2, <2>2, <2>3 DEF KeepRefused
<1>3. CASE EnterRefused
  <2>1. pc = "enter" /\ UNCHANGED input /\ refused' = TRUE /\ Active
    BY <1>3 DEF EnterRefused, Refused, Active
  <2>2. CASE prologue = <<>> /\ Leave("ENOMEM", heap)
    <3>1. /\ InHand(heap) /\ set.instrs = <<>> /\ epilogues = <<>> /\ Typed
      BY <2>1, <2>2 DEF IInv, HInv, Filling, FirstFound, Started
    <3>2. Range(set.instrs) = {} /\ Held(prologue) = {} /\ Held(epilogues) = {}
      BY <2>2, <3>1 DEF Held, Range
    <3>3. heap = OnlyTf
      BY <2>1, <2>2, <3>1, <3>2, FewObjects DEF InHand
    <3>4. QED
      BY <2>1, <2>2, <3>3, GivingUpKeeps DEF Leave, TfIsLost
  <2>3. CASE Err("ENOMEM", heap, <<set>>)
    BY <2>1, <2>3, ErrInHandKeeps
  <2>4. CASE Undefined("unset")
    BY <2>1, <2>4, GivingUpKeeps DEF Undefined
  <2>5. QED
    BY <1>3, <2>2, <2>3, <2>4 DEF EnterRefused
<1>4. QED
  BY <1>1, <1>2, <1>3

LEMMA RejectionsKeep ==
  ASSUME IInv, HInv, TooSmall \/ Unsound
  PROVE  HInv'
<1>1. CASE TooSmall
  BY <1>1, ErrInHandKeeps DEF TooSmall
<1>2. CASE Unsound
  <2> DEFINE n == heap.sets - 1
             h == [heap EXCEPT !.sets = n]
  <2>1. /\ pc = "loop" /\ UNCHANGED input /\ Err("ETRANSFORM", h, <<>>)
    BY <1>2 DEF Unsound
  <2>2. /\ Active /\ Typed /\ FirstFound /\ InHand(heap) /\ prologue # <<>>
        /\ set.instrs = <<>> /\ set \in InstrSets /\ Len(epilogues) \in Nat
    BY <2>1 DEF Active, IInv, HInv, FirstFound, Filling, Started, Typed
  <2>3. Range(set.instrs) = {}
    BY <2>2 DEF Range
  <2>4. heap.instrs \subseteq Held(<<>> \o prologue \o epilogues)
    BY <2>2, <2>3, HeldTogether DEF InHand, Has
  <2>5. n = Len(epilogues) + Len(<<>>) /\ n \in Int
    BY <2>2 DEF InHand, Has
  <2>6. <<>> \in Seq(InstrSets)
    OBVIOUS
  <2>7. Has(h, 1, 1, IF prologue = <<>> THEN 0 ELSE Len(epilogues) + Len(<<>>), heap.instrs, 0)
    <3>1. /\ heap \in Objects /\ heap.tf = 1 /\ heap.order = 1 /\ heap.spare = 0
      BY <2>1, <2>2 DEF InHand, Has
    <3> HIDE DEF n
    <3>2. h \in Objects
      BY <2>5, <3>1 DEF Objects
    <3>3. QED
      BY <2>2, <2>5, <3>1, <3>2 DEF Has, Objects
  <2> HIDE DEF h
  <2>8. Cleanup(h, <<>>) = Nothing
    BY <2>2, <2>4, <2>6, <2>7, NothingIsLeft
  <2>9. QED
    BY <2>1, <2>2, <2>8, ErrKeeps
<1>3. QED
  BY <1>1, <1>2

-----------------------------------------------------------------------------
(***************************************************************************)
(* The steps that go on.                                                   *)
(***************************************************************************)
LEMMA GoingOnKeeps ==
  ASSUME IInv', UNCHANGED input, InHand(heap)', pc' \in {"enter", "scan", "scanned", "loop"}
  PROVE  HInv'
<1>1. Len(epilogues') \in Nat /\ ret' = "none"
  BY DEF IInv, Typed, Answered, Active
<1>2. QED
  BY <1>1 DEF HInv, InHand, Has

LEMMA EnteringKeeps ==
  ASSUME IInv, IInv', HInv, \/ CreateTransformable \/ EnterScan \/ MoreBytes
  PROVE  HInv'
<1>1. CASE Refused /\ Leave("ENOMEM", heap) /\ pc = "create" /\ UNCHANGED input
  BY <1>1, GivingUpKeeps DEF Leave, HInv, Active
<1>2. CASE /\ pc = "create" /\ heap' = [heap EXCEPT !.tf = 1] /\ pc' = "enter"
           /\ UNCHANGED <<scan, found, input>>
  <2>1. /\ heap' = OnlyTf /\ prologue = <<>> /\ epilogues = <<>> /\ set.instrs = <<>>
        /\ UNCHANGED <<set, prologue, epilogues, body>>
    BY <1>2 DEF HInv, IInv, OnlyTf, FirstFound, Filling, Active, Started, scan, found, input
  <2>2. /\ heap' \in Objects /\ Objects' = Objects
        /\ heap'.tf = 1 /\ heap'.order = 0 /\ heap'.sets = 0 /\ heap'.instrs = {}
        /\ heap'.spare = 0
    <3>1. Objects' = Objects
      BY <2>1 DEF Objects, Instrs
    <3>2. QED
      BY <2>1, <3>1, FewObjects DEF Has
  <2>3. Range(set'.instrs) = {} /\ Held(prologue') = {} /\ Held(epilogues') = {}
    BY <2>1 DEF Range, Held
  <2>4. InHand(heap)'
    BY <1>2, <2>1, <2>2, <2>3 DEF InHand, Has
  <2>5. QED
    BY <1>2, <2>4, GoingOnKeeps
<1>3. CASE EnterScan
  <2>1. /\ pc = "enter" /\ pc' = "scan" /\ set' = EmptySet(orig)
        /\ heap' = [heap EXCEPT !.spare = 1] /\ UNCHANGED <<prologue, epilogues, input>>
    BY <1>3 DEF EnterScan, found
  <2>2. InHand(heap) /\ set.instrs = <<>> /\ set'.instrs = <<>>
    BY <2>1 DEF HInv, IInv, Filling, Started, Active, EmptySet
  <2>3. Objects' = Objects
    BY <2>1 DEF Objects, Instrs, input
  <2>4. heap' \in Objects
    BY <2>1, <2>2 DEF InHand, Has, Objects
  <2>5. InHand(heap)'
    BY <2>1, <2>2, <2>3, <2>4 DEF InHand, Has, Objects
  <2>6. QED
    BY <2>1, <2>5, GoingOnKeeps
<1>4. CASE MoreBytes
  <2>1. /\ pc = "loop" /\ pc' = "enter" /\ UNCHANGED <<set, prologue, epilogues, heap, input>>
    BY <1>4 DEF MoreBytes, scan, found
  <2>2. InHand(heap) /\ Objects' = Objects
    BY <2>1 DEF HInv, Objects, Instrs, input
  <2>3. InHand(heap)'
    BY <2>1, <2>2 DEF InHand, Has
  <2>4. QED
    BY <2>1, <2>3, GoingOnKeeps
<1>5. QED
  BY <1>1, <1>2, <1>3, <1>4 DEF CreateTransformable

LEMMA ScanningKeeps ==
  ASSUME IInv, IInv', HInv,
         KeepInstruction \/ SkipInstruction \/ EndOfSet \/ EndOfFunction
  PROVE  HInv'
<1>1. /\ pc = "scan" /\ UNCHANGED <<prologue, epilogues, input>> /\ set \in InstrSets
      /\ InHand(heap) /\ heap \in Objects /\ Objects' = Objects
  <2>1. pc = "scan" /\ UNCHANGED <<prologue, epilogues, input>>
    BY DEF KeepInstruction, SkipInstruction, EndOfSet, EndOfFunction, Decode, Decoding, scan, found
  <2>2. Objects' = Objects
    BY <2>1 DEF Objects, Instrs, input
  <2>3. QED
    BY <2>1, <2>2 DEF HInv, IInv, Typed
<1>2. CASE KeepInstruction
  <2> DEFINE all == heap.instrs \cup {next}
  <2>1. /\ pc' = "scan" /\ heap' = [heap EXCEPT !.instrs = all]
        /\ set'.instrs = Append(set.instrs, next) /\ next \in Instrs
    BY <1>1, <1>2, BytesLeft DEF KeepInstruction, Decode, InstrSets
  <2>2. Range(set'.instrs) = Range(set.instrs) \cup {next}
    <3>1. set.instrs \in Seq(Instrs)
      BY <1>1 DEF InstrSets
    <3> DEFINE e == set.instrs
    <3>2. /\ Len(e) \in Nat /\ DOMAIN e = 1 .. Len(e)
          /\ DOMAIN Append(e, next) = 1 .. Len(e) + 1
          /\ \A k \in 1 .. Len(e) : Append(e, next)[k] = e[k]
          /\ Append(e, next)[Len(e) + 1] = next
      BY <3>1
    <3>3. \A x : x \in Range(Append(e, next)) <=> x \in Range(e) \/ x = next
      BY <3>2 DEF Range
    <3>4. QED
      BY <2>1, <3>3
  <2>3. all \in SUBSET Instrs
    BY <1>1, <2>1 DEF Objects
  <2>4. all = Range(set'.instrs) \cup Held(prologue) \cup Held(epilogues)
    BY <1>1, <2>2 DEF InHand, Has
  <2> HIDE DEF all
  <2>5. heap' \in Objects
    BY <1>1, <2>1, <2>3 DEF Objects
  <2>6. InHand(heap)'
    BY <1>1, <2>1, <2>4, <2>5 DEF InHand, Has, Objects
  <2>7. QED
    BY <1>1, <2>1, <2>6, GoingOnKeeps
<1>3. CASE SkipInstruction
  <2>1. /\ pc' = "scan" /\ heap' = heap /\ set.instrs = <<>> /\ set'.instrs = <<>>
    BY <1>1, <1>3 DEF SkipInstruction, EmptySet
  <2>2. InHand(heap)'
    BY <1>1, <2>1 DEF InHand, Has
  <2>3. QED
    BY <1>1, <2>1, <2>2, GoingOnKeeps
<1>4. CASE EndOfSet \/ EndOfFunction
  <2>1. /\ pc' = "scanned" /\ heap' = [heap EXCEPT !.spare = 0] /\ set' = set
    BY <1>4 DEF EndOfSet, EndOfFunction, ScanEnds, scan
  <2>2. heap' \in Objects
    BY <1>1, <2>1 DEF Objects
  <2>3. InHand(heap)'
    BY <1>1, <2>1, <2>2 DEF InHand, Has, Objects
  <2>4. QED
    BY <1>1, <2>1, <2>3, GoingOnKeeps
<1>5. QED
  BY <1>2, <1>3, <1>4

LEMMA OnePrologue ==
  ASSUME Typed, prologue # <<>>
  PROVE  DOMAIN prologue = {1} /\ prologue[1] \in InstrSets
<1>1. prologue \in Seq(InstrSets) /\ Len(prologue) <= 1
  BY DEF Typed
<1>2. Len(prologue) \in Nat /\ Len(prologue) # 0
  BY <1>1
<1>3. Len(prologue) = 1
  <2> DEFINE n == Len(prologue)
  <2>1. n \in Nat /\ n # 0 /\ n <= 1
    BY <1>1, <1>2
  <2> HIDE DEF n
  <2>2. n = 1
    BY <2>1
  <2>3. QED
    BY <2>2 DEF n
<1>4. QED
  BY <1>1, <1>3

(***************************************************************************)
(* The instructions of a candidate are not those of a set that was kept.   *)
(***************************************************************************)
LEMMA CandidateIsApart ==
  ASSUME IInv, pc = "scanned", prologue # <<>>, Started
  PROVE  Range(set.instrs) \cap (Held(prologue) \cup Held(epilogues)) = {}
<1>1. /\ Active /\ Typed /\ Filling /\ FirstFound /\ MirrorsFound
      /\ set \in InstrSets /\ prologue \in Seq(InstrSets) /\ Len(prologue) <= 1
      /\ epilogues \in Seq(InstrSets)
  BY DEF Active, IInv, Typed
<1>2. /\ Range(set.instrs) = RunOf(set)[1] .. RunOf(set)[2]
      /\ RunOf(set)[1] = Boundary /\ RunOf(set)[1] \in Instrs /\ RunOf(set)[2] \in Instrs
      /\ From <= Boundary
  BY <1>1, SetIsRun, HeldIsRun, BodyIsTyped DEF Filling, Boundary
<1>3. \A x \in Held(prologue) : x < Boundary
  <2>1. /\ DOMAIN prologue = {1} /\ prologue[1] \in InstrSets
        /\ Holds(prologue[1], FirstPushes) /\ FirstPushes \in Runs("push", 1)
    BY <1>1, OnePrologue DEF FirstFound
  <2>2. Held(prologue) = FirstPushes[1] .. FirstPushes[2]
    BY <2>1, HeldIsRun DEF Held
  <2>3. FirstPushes[1] \in Nat /\ FirstPushes[2] \in Nat
    BY <1>1, <2>1, RunIsPair, BodyIsTyped
  <2>4. QED
    BY <1>2, <2>2, <2>3 DEF From, Instrs
<1>4. \A x \in Held(epilogues) : x < Boundary
  <2>1. SUFFICES ASSUME NEW k \in DOMAIN epilogues, NEW x \in Range(epilogues[k].instrs)
                 PROVE  x < Boundary
    BY DEF Held
  <2>2. /\ epilogues[k] \in InstrSets /\ Holds(epilogues[k], RunOf(epilogues[k]))
        /\ RunOf(epilogues[k]) \in Mirrors /\ RunOf(epilogues[k])[2] < Boundary
    BY <1>1 DEF MirrorsFound
  <2>3. x \in RunOf(epilogues[k])[1] .. RunOf(epilogues[k])[2]
    BY <2>1, <2>2, HeldIsRun
  <2>4. RunOf(epilogues[k])[1] \in Nat /\ RunOf(epilogues[k])[2] \in Nat
    <3>1. RunOf(epilogues[k]) \in Runs("pop", From) /\ From \in Nat
      BY <1>1, <2>2, FromIsTyped DEF Mirrors, PopRuns, From
    <3>2. QED
      BY <1>1, <3>1, RunIsPair, BodyIsTyped
  <2>5. QED
    BY <1>2, <2>2, <2>3, <2>4 DEF Instrs
<1>5. QED
  BY <1>2, <1>3, <1>4 DEF Instrs

LEMMA SettlingKeeps ==
  ASSUME IInv, IInv', HInv, HasPrologue \/ KeepEpilogue \/ DropCandidate
  PROVE  HInv'
<1>1. /\ pc = "scanned" /\ UNCHANGED input /\ Active /\ Typed /\ FirstFound
      /\ set \in InstrSets /\ epilogues \in Seq(InstrSets) /\ Len(epilogues) \in Nat
      /\ InHand(heap) /\ heap \in Objects /\ Objects' = Objects
  <2>1. pc = "scanned" /\ UNCHANGED input
    BY DEF HasPrologue, KeepEpilogue, DropCandidate
  <2>2. Objects' = Objects
    BY <2>1 DEF Objects, Instrs, input
  <2>3. QED
    BY <2>1, <2>2 DEF HInv, IInv, Typed, Active
<1>2. Held(<<set>>) = Range(set.instrs) /\ Held(<<>>) = {}
  BY <1>1, HeldTogether
<1>3. CASE HasPrologue
  <2>1. CASE Refused /\ Err("ENOMEM", heap, <<set>>)
    BY <1>1, <2>1, ErrInHandKeeps
  <2>2. CASE /\ prologue = <<>> /\ NewCandidate /\ prologue' = <<set>> /\ pc' = "loop"
             /\ heap' = [heap EXCEPT !.order = 1, !.sets = 1] /\ epilogues' = epilogues
    <3>1. /\ epilogues' = <<>> /\ set'.instrs = <<>> /\ prologue' # <<>>
          /\ prologue' = <<set>>
      BY <1>1, <2>2 DEF FirstFound, NewCandidate, EmptySet
    <3>2. /\ Range(set'.instrs) = {} /\ Held(prologue') = Range(set.instrs)
          /\ Held(epilogues') = {} /\ Held(prologue) = {} /\ Held(epilogues) = {}
      BY <1>1, <1>2, <2>2, <3>1 DEF Range
    <3>3. heap' \in Objects
      <4>1. 1 \in Int /\ heap.instrs \in SUBSET Instrs
        BY <1>1 DEF Objects
      <4>2. [heap EXCEPT !.order = 1, !.sets = 1] \in Objects
        BY <1>1, <4>1, FieldsChange, Zenon DEF Objects
      <4>3. QED
        BY <2>2, <4>2
    <3>4. /\ heap'.tf = 1 /\ heap'.order = 1 /\ heap'.sets = 1 /\ heap'.spare = 0
          /\ heap'.instrs = Range(set.instrs)
      BY <1>1, <2>2, <3>2 DEF InHand, Has, Objects
    <3>5. Len(epilogues') + 1 = 1
      BY <3>1
    <3>6. InHand(heap)'
      BY <1>1, <2>2, <3>1, <3>2, <3>3, <3>4, <3>5 DEF InHand, Has
    <3>7. QED
      BY <1>1, <2>2, <3>6, GoingOnKeeps
  <2>3. QED
    BY <1>3, <2>1, <2>2 DEF HasPrologue
<1>4. CASE KeepEpilogue
  <2>1. CASE Refused /\ Err("ENOMEM", heap, <<set>>)
    BY <1>1, <2>1, ErrInHandKeeps
  <2>2. CASE /\ prologue # <<>> /\ NewCandidate /\ pc' = "loop" /\ prologue' = prologue
             /\ epilogues' = Append(epilogues, set)
             /\ heap' = [heap EXCEPT !.sets = @ + 1]
    <3> DEFINE n == heap.sets + 1
    <3>1. set'.instrs = <<>> /\ Range(set'.instrs) = {}
      BY <2>2 DEF NewCandidate, EmptySet, Range
    <3>2. Held(epilogues') = Held(epilogues) \cup Range(set.instrs)
      <4>1. epilogues' = epilogues \o <<set>> /\ <<set>> \in Seq(InstrSets)
        BY <1>1, <2>2
      <4>2. QED
        BY <1>1, <1>2, <4>1, HeldInBoth
    <3>3. n \in Int /\ n = Len(epilogues') + 1
      BY <1>1, <2>2 DEF InHand, Has
    <3>4. heap' = [heap EXCEPT !.sets = n]
      BY <2>2
    <3> HIDE DEF n
    <3>5. heap' \in Objects
      BY <1>1, <3>3, <3>4 DEF Objects
    <3>6. InHand(heap)'
      BY <1>1, <2>2, <3>1, <3>2, <3>3, <3>4, <3>5 DEF InHand, Has, Objects
    <3>7. QED
      BY <1>1, <2>2, <3>6, GoingOnKeeps
  <2>3. QED
    BY <1>4, <2>1, <2>2 DEF KeepEpilogue
<1>5. CASE DropCandidate
  <2>1. CASE Stale(<<set>>)
    BY <1>1, <1>5, <2>1, GivingUpKeeps DEF Stale, Undefined, DropCandidate
  <2>2. CASE /\ prologue # <<>> /\ set' = [set EXCEPT !.instrs = <<>>] /\ pc' = "loop"
             /\ heap' = [heap EXCEPT !.instrs = @ \ Held(<<set>>)]
             /\ UNCHANGED <<prologue, epilogues>>
    <3> DEFINE left == heap.instrs \ Held(<<set>>)
    <3>1. set'.instrs = <<>> /\ Range(set'.instrs) = {}
      BY <1>1, <2>2 DEF InstrSets, Range
    <3>2. Range(set.instrs) \cap (Held(prologue) \cup Held(epilogues)) = {}
      BY <1>1, <2>2, CandidateIsApart DEF Started, Range
    <3>3. left = Held(prologue) \cup Held(epilogues)
      BY <1>1, <1>2, <3>2 DEF InHand, Has
    <3>4. heap' = [heap EXCEPT !.instrs = left] /\ left \in SUBSET Instrs
      BY <1>1, <2>2 DEF Objects
    <3> HIDE DEF left
    <3>5. heap' \in Objects
      BY <1>1, <3>4 DEF Objects
    <3>6. InHand(heap)'
      BY <1>1, <2>2, <3>1, <3>3, <3>4, <3>5 DEF InHand, Has, Objects
    <3>7. QED
      BY <1>1, <2>2, <3>6, GoingOnKeeps
  <2>3. QED
    BY <1>5, <2>1, <2>2 DEF DropCandidate, found
<1>6. QED
  BY <1>3, <1>4, <1>5

LEMMA AcceptKeeps ==
  ASSUME IInv, HInv, Accept
  PROVE  HInv'
<1> DEFINE n == heap.sets - 1
<1>1. /\ pc = "loop" /\ pc' = "done" /\ ret' = "SUCCESS" /\ heap' = [heap EXCEPT !.sets = n]
      /\ UNCHANGED <<set, prologue, epilogues, input>>
  BY DEF Accept, Leave, scan, found
<1>2. /\ Typed /\ InHand(heap) /\ heap \in Objects /\ prologue # <<>> /\ set.instrs = <<>>
      /\ Objects' = Objects /\ Len(epilogues) \in Nat
  BY <1>1 DEF IInv, HInv, Active, Filling, FirstFound, Started, Typed, Objects, Instrs, input
<1>3. n = Len(epilogues) /\ n \in Int
  BY <1>2 DEF InHand, Has
<1>4. heap.instrs = Held(prologue) \cup Held(epilogues)
  BY <1>2 DEF InHand, Has, Range
<1> HIDE DEF n
<1>5. heap' \in Objects
  BY <1>1, <1>2, <1>3 DEF Objects
<1>6. GivenOut(heap)'
  BY <1>1, <1>2, <1>3, <1>4, <1>5 DEF InHand, GivenOut, Has, Objects
<1>7. heap'.tf \in {0, 1} /\ heap'.order \in {0, 1} /\ heap'.sets \in Nat /\ heap'.spare \in {0, 1}
  BY <1>1, <1>2, <1>6 DEF GivenOut, Has
<1>8. QED
  BY <1>1, <1>2, <1>5, <1>6, <1>7 DEF HInv

LEMMA ClosingKeeps ==
  ASSUME IInv, HInv, CloseTransform \/ UNCHANGED vars
  PROVE  HInv'
<1>1. CASE UNCHANGED vars
  <2>1. UNCHANGED <<set, prologue, epilogues, heap, pc, ret, refused, body>>
    BY <1>1 DEF vars, scan, found, input
  <2>2. /\ Objects' = Objects /\ OnlyTf' = OnlyTf /\ Nothing' = Nothing
        /\ TfIsLost => TfIsLost'
        /\ InHand(heap) => InHand(heap)'
        /\ GivenOut(heap) => GivenOut(heap)'
    BY <2>1 DEF Objects, OnlyTf, Nothing, TfIsLost, InHand, GivenOut, Has, Instrs, Runs
  <2>3. QED
    BY <2>1, <2>2 DEF HInv
<1>2. CASE /\ pc = "done" /\ ret = "SUCCESS" /\ pc' = "closed" /\ heap' = Close(heap, <<>>)
           /\ UNCHANGED <<found, ret, input>>
  <2>1. /\ Typed /\ GivenOut(heap) /\ heap \in Objects /\ Objects' = Objects /\ OnlyTf' = OnlyTf
        /\ Len(epilogues) \in Nat
    BY <1>2 DEF IInv, HInv, Typed, Objects, Instrs, input, OnlyTf, Nothing
  <2>2. heap.instrs \ Held(<<>> \o prologue \o epilogues) = {}
    <3>1. set \in InstrSets
      BY <2>1 DEF Typed
    <3>2. QED
      BY <2>1, <3>1, HeldTogether DEF GivenOut, Has
  <2>3. heap.sets - Len(epilogues) = 0
    BY <2>1 DEF GivenOut, Has
  <2>4. Has(Close(heap, <<>>), 1, 0, 0, {}, 0)
    BY <2>1, <2>2, <2>3, ClosedObjects DEF GivenOut, Has
  <2>5. heap' = OnlyTf
    BY <1>2, <2>4, FewObjects
  <2>6. /\ heap' \in Objects
        /\ heap'.tf \in {0, 1} /\ heap'.order \in {0, 1} /\ heap'.sets \in Nat
        /\ heap'.spare \in {0, 1}
    BY <2>1, <2>5, InHandIsTyped
  <2>7. QED
    BY <1>2, <2>1, <2>5, <2>6 DEF HInv
<1>3. CASE /\ pc = "done" /\ ret = "SUCCESS" /\ Stale(prologue \o epilogues)
           /\ UNCHANGED input
  <2>1. pc' = "stale" /\ UNCHANGED <<heap, ret, input>>
    BY <1>3 DEF Stale, Undefined
  <2>2. Objects' = Objects
    BY <2>1 DEF Objects, Instrs, input
  <2>3. QED
    BY <1>3, <2>1, <2>2 DEF HInv
<1>4. QED
  BY <1>1, <1>2, <1>3 DEF CloseTransform

LEMMA HInvHolds == Spec => [](IInv /\ HInv)
<1>1. Init => HInv
  <2>1. SUFFICES ASSUME Init PROVE HInv
    OBVIOUS
  <2>2. Has(heap, 0, 0, 0, {}, 0)
    BY <2>1, FewObjects DEF Init
  <2>3. QED
    BY <2>1, <2>2 DEF Init, HInv, Has
<1>2. IInv /\ HInv /\ [Next]_vars => HInv'
  <2> SUFFICES ASSUME IInv, HInv, [Next]_vars PROVE HInv'
    OBVIOUS
  <2>1. IInv'
    BY NextHolds
  <2>2. CASE UNCHANGED vars \/ CloseTransform \/ Returned
    BY <2>2, ClosingKeeps DEF Returned
  <2>3. CASE Step
    BY <2>1, <2>3, FailedScansKeep, RejectionsKeep, EnteringKeeps, ScanningKeeps,
       SettlingKeeps, AcceptKeeps DEF Step
  <2>4. QED
    BY <2>2, <2>3 DEF Next
<1>3. QED
  BY <1>1, <1>2, InitHolds, NextHolds, PTL DEF Spec

(***************************************************************************)
(* Type correctness of the analysis, its heap included, for any functions. *)
(***************************************************************************)
THEOREM AnalysisIsTyped == Spec => []TypeOK
<1>1. IInv /\ HInv => TypeOK
  <2> SUFFICES ASSUME IInv, HInv PROVE TypeOK
    OBVIOUS
  <2>1. body \in Seq(Instructions) /\ walk \in Nat
    BY BodyIsTyped, BytesLeft DEF IInv
  <2>2. heap \in [tf : {0, 1}, order : {0, 1}, sets : Nat, instrs : SUBSET Instrs,
                  spare : {0, 1}]
    BY DEF HInv, Objects
  <2>3. QED
    BY <2>1, <2>2 DEF IInv, Typed, TypeOK
<1>2. QED
  BY <1>1, HInvHolds, PTL

(***************************************************************************)
(* An accepted function owns what was kept of it and nothing else, closing *)
(* it gives back all but tf itself, and a rejected function loses tf at    *)
(* most, in the cases named (transform.c:149, 329-332, 407-426).           *)
(***************************************************************************)
THEOREM OwnershipHolds == Spec => []KeepsWhatItOwns
<1>1. IInv /\ HInv => KeepsWhatItOwns
  <2> SUFFICES ASSUME IInv, HInv PROVE KeepsWhatItOwns
    OBVIOUS
  <2> DEFINE runs == {FirstPushes} \cup Mirrors
             kept == UNION {run[1] .. run[2] : run \in runs}
  <2>1. ASSUME pc = "done", ret = "SUCCESS"
        PROVE  heap = [tf |-> 1, order |-> 1, sets |-> Len(epilogues), spare |-> 0,
                       instrs |-> kept]
    <3>1. /\ GivenOut(heap) /\ Typed /\ FirstFound /\ MirrorsFound /\ prologue # <<>>
          /\ prologue \in Seq(InstrSets) /\ Len(prologue) <= 1 /\ epilogues \in Seq(InstrSets)
          /\ \A m \in Mirrors : \E k \in DOMAIN epilogues : RunOf(epilogues[k]) = m
      BY <2>1 DEF HInv, IInv, Answered, Typed
    <3>2. Held(prologue) = FirstPushes[1] .. FirstPushes[2]
      <4>1. DOMAIN prologue = {1} /\ prologue[1] \in InstrSets /\ Holds(prologue[1], FirstPushes)
        BY <3>1, OnePrologue DEF FirstFound
      <4>2. QED
        BY <4>1, HeldIsRun DEF Held
    <3>3. Held(epilogues) = UNION {run[1] .. run[2] : run \in Mirrors}
      <4>1. \A k \in DOMAIN epilogues :
              /\ RunOf(epilogues[k]) \in Mirrors
              /\ Range(epilogues[k].instrs) = RunOf(epilogues[k])[1] .. RunOf(epilogues[k])[2]
        BY <3>1, HeldIsRun DEF MirrorsFound
      <4>2. \A m \in Mirrors : \E k \in DOMAIN epilogues :
              Range(epilogues[k].instrs) = m[1] .. m[2]
        BY <3>1, <4>1
      <4>3. QED
        BY <4>1, <4>2 DEF Held
    <3>4. heap.instrs = kept
      BY <3>1, <3>2, <3>3 DEF GivenOut, Has
    <3> HIDE DEF kept
    <3>5. QED
      BY <3>1, <3>4 DEF GivenOut, Has, Objects
  <2>2. ASSUME ret \in {"ETRANSFORM", "ENOMEM"}, heap # Nothing
        PROVE  heap = OnlyTf /\ TfIsLost
    BY <2>2 DEF HInv
  <2>3. pc = "closed" => heap = OnlyTf
    BY DEF HInv
  <2>4. QED
    BY <2>1, <2>2, <2>3 DEF KeepsWhatItOwns, OnlyTf, TfIsLost
<1>2. QED
  BY <1>1, HInvHolds, PTL


-----------------------------------------------------------------------------
(***************************************************************************)
(* A set of naturals that is not empty has a least member.                 *)
(***************************************************************************)
LEMMA LeastNat ==
  ASSUME NEW S \in SUBSET Nat, S # {}
  PROVE  \E m \in S : \A k \in S : m <= k
<1>1. IsWellFoundedOn(OpToRel(<, Nat), Nat)
  BY NatLessThanWellFounded
<1>2. PICK m \in S : \A k \in S : ~(<<k, m>> \in OpToRel(<, Nat))
  BY <1>1, WFMin
<1>3. \A k \in S : ~(k < m)
  BY <1>2 DEF OpToRel
<1>4. QED
  BY <1>3

(***************************************************************************)
(* Induction over the naturals, with a set for the formula.                *)
(***************************************************************************)
LEMMA ByInduction ==
  ASSUME NEW S, 0 \in S, \A k \in Nat : k \in S => k + 1 \in S
  PROVE  Nat \subseteq S
<1> SUFFICES ASSUME Nat \ S # {} PROVE FALSE
  OBVIOUS
<1>1. PICK m \in Nat \ S : \A k \in Nat \ S : m <= k
  BY LeastNat
<1>2. QED
  BY <1>1, m - 1 \in S

(***************************************************************************)
(* Induction over the subsets of a finite set: what holds of a subset if   *)
(* it holds of all that lack one member holds of all.                      *)
(***************************************************************************)
LEMMA BySize ==
  ASSUME NEW U, IsFiniteSet(U), NEW P, {} \in P,
         \A s \in SUBSET U : s # {} /\ (\A x \in s : s \ {x} \in P) => s \in P
  PROVE  SUBSET U \subseteq P
<1> DEFINE K == { k \in Nat : \A s \in SUBSET U : Cardinality(s) = k => s \in P }
<1>0. \A s \in SUBSET U : IsFiniteSet(s) /\ Cardinality(s) \in Nat
  BY FS_Subset, FS_CardinalityType
<1>1. 0 \in K
  BY <1>0, FS_EmptySet
<1>2. ASSUME NEW k \in Nat, k \in K
      PROVE  k + 1 \in K
  <2> SUFFICES ASSUME NEW s \in SUBSET U, Cardinality(s) = k + 1
               PROVE  s \in P
    OBVIOUS
  <2>1. s # {}
    <3>1. SUFFICES ASSUME s = {} PROVE FALSE
      OBVIOUS
    <3>2. Cardinality(s) = 0
      BY <3>1, FS_EmptySet
    <3>3. QED
      BY <3>2
  <2>2. ASSUME NEW x \in s
        PROVE  s \ {x} \in P
    <3>1. Cardinality(s \ {x}) = k
      BY <1>0, FS_RemoveElement
    <3>2. s \ {x} \in SUBSET U
      OBVIOUS
    <3>3. QED
      BY <1>2, <3>1, <3>2
  <2>3. QED
    BY <2>1, <2>2
<1> HIDE DEF K
<1>3. Nat \subseteq K
  BY <1>1, <1>2, ByInduction
<1>4. QED
  BY <1>0, <1>3 DEF K

-----------------------------------------------------------------------------
(***************************************************************************)
(* Sums over sets of runs.  MapThenSumSet takes the members one by one, in *)
(* an order it does not tell; g says what the subsets of U add up to.      *)
(***************************************************************************)
BytesIn(b, run) == OffsetIn(b, run[2] + 1) - OffsetIn(b, run[1])

SumIn(b, S) == MapThenSumSet(LAMBDA run : BytesIn(b, run), S)

Pick(s) == CHOOSE x \in s : TRUE

AddsUp(g, b, U) ==
  g = [s \in SUBSET U |->
         IF s = {} THEN 0 ELSE BytesIn(b, Pick(s)) + g[s \ {Pick(s)}]]

LEMMA SumIsOfBody ==
  ASSUME NEW S
  PROVE  MapThenSumSet(BytesOf, S) = SumIn(body, S)
BY DEF SumIn, BytesIn, BytesOf

LEMMA AddsUpIs ==
  ASSUME NEW g, NEW b, NEW U
  PROVE  AddsUp(g, b, U) =>
           /\ g[{}] = 0
           /\ \A s \in SUBSET U : s # {} => g[s] = BytesIn(b, Pick(s)) + g[s \ {Pick(s)}]
<1> SUFFICES ASSUME AddsUp(g, b, U)
             PROVE  /\ g[{}] = 0
                    /\ \A s \in SUBSET U :
                         s # {} => g[s] = BytesIn(b, Pick(s)) + g[s \ {Pick(s)}]
  OBVIOUS
<1>1. \A s \in SUBSET U :
        g[s] = IF s = {} THEN 0 ELSE BytesIn(b, Pick(s)) + g[s \ {Pick(s)}]
  BY Zenon DEF AddsUp
<1>2. {} \in SUBSET U
  OBVIOUS
<1>3. QED
  BY <1>1, <1>2

LEMMA PickIsIn ==
  ASSUME NEW s, s # {}
  PROVE  Pick(s) \in s
BY DEF Pick

(***************************************************************************)
(* There is such a g: it is made for the subsets of k members after those  *)
(* of fewer.                                                               *)
(***************************************************************************)
LEMMA SumsExist ==
  ASSUME NEW b, NEW U, IsFiniteSet(U)
  PROVE  \E g : AddsUp(g, b, U)
<1> DEFINE Small(k) == { s \in SUBSET U : Cardinality(s) <= k }
           More(g, s) == IF s = {} THEN 0 ELSE BytesIn(b, Pick(s)) + g[s \ {Pick(s)}]
           K == { k \in Nat : \E g : \A s \in Small(k) : g[s] = More(g, s) }
<1>0. \A s \in SUBSET U : IsFiniteSet(s) /\ Cardinality(s) \in Nat
  BY FS_Subset, FS_CardinalityType
<1>1. 0 \in K
  <2>1. \A s \in Small(0) : s = {}
    BY <1>0, FS_EmptySet
  <2>2. PICK g : g = [s \in {{}} |-> 0]
    OBVIOUS
  <2>3. \A s \in Small(0) : g[s] = More(g, s)
    BY <2>1, <2>2
  <2>4. QED
    BY <2>3
<1>2. ASSUME NEW k \in Nat, k \in K
      PROVE  k + 1 \in K
  <2>1. PICK g : \A s \in Small(k) : g[s] = More(g, s)
    BY <1>2
  <2>2. PICK h : h = [s \in Small(k + 1) |->
                        IF s \in Small(k) THEN g[s] ELSE More(g, s)]
    OBVIOUS
  <2>3. \A s \in Small(k) : s \in Small(k + 1) /\ h[s] = g[s]
    <3>1. \A s \in Small(k) : s \in Small(k + 1)
      BY <1>0
    <3> HIDE DEF Small, More
    <3>2. QED
      BY <2>2, <3>1
  <2>4. ASSUME NEW s \in Small(k + 1)
        PROVE  h[s] = More(h, s)
    <3>1. s # {} => s \ {Pick(s)} \in Small(k)
      <4>1. SUFFICES ASSUME s # {} PROVE s \ {Pick(s)} \in Small(k)
        OBVIOUS
      <4>2. Pick(s) \in s
        BY <4>1, PickIsIn
      <4>3. Cardinality(s \ {Pick(s)}) = Cardinality(s) - 1
        BY <1>0, <4>2, FS_RemoveElement
      <4>4. QED
        BY <1>0, <4>3
    <3>2. More(h, s) = More(g, s)
      <4> HIDE DEF Small
      <4>1. QED
        BY <2>3, <3>1
    <3>3. h[s] = More(g, s)
      <4> HIDE DEF Small, More
      <4>1. QED
        BY <2>1, <2>2
    <3>4. QED
      <4> HIDE DEF More
      <4>1. QED
        BY <3>2, <3>3
  <2>5. QED
    <3> HIDE DEF Small, More
    <3>1. QED
      BY <2>4
<1>3. Nat \subseteq K
  <2> HIDE DEF K
  <2>1. QED
    BY <1>1, <1>2, ByInduction
<1>4. PICK g : \A s \in Small(Cardinality(U)) : g[s] = More(g, s)
  BY <1>0, <1>3
<1>5. \A s \in SUBSET U : s \in Small(Cardinality(U))
  BY <1>0, FS_Subset
<1>6. PICK h : h = [s \in SUBSET U |-> g[s]]
  OBVIOUS
<1>7. \A s \in SUBSET U : h[s] = g[s]
  BY <1>6
<1>8. \A s \in SUBSET U : h[s] = More(h, s)
  <2>1. TAKE s \in SUBSET U
  <2>2. g[s] = More(g, s) /\ h[s] = g[s]
    <3> HIDE DEF Small, More
    <3>1. QED
      BY <1>4, <1>5, <1>7
  <2>3. h[s \ {Pick(s)}] = g[s \ {Pick(s)}]
    BY <1>7
  <2>4. QED
    BY <2>2, <2>3
<1>9. h = [s \in SUBSET U |-> More(h, s)]
  <2> HIDE DEF More
  <2>1. QED
    BY <1>6, <1>8
<1>10. AddsUp(h, b, U)
  BY <1>9, Zenon DEF AddsUp
<1>11. QED
  BY <1>10

(***************************************************************************)
(* What a set adds up to does not hang on the set it is seen in.           *)
(***************************************************************************)
LEMMA SumsAgree ==
  ASSUME NEW b, NEW U, NEW S \in SUBSET U, IsFiniteSet(S), NEW g, NEW h,
         AddsUp(g, b, U), AddsUp(h, b, S)
  PROVE  g[S] = h[S]
<1> DEFINE P == { s \in SUBSET S : g[s] = h[s] }
<1>1. {} \in P
  BY AddsUpIs
<1>2. ASSUME NEW s \in SUBSET S, s # {}, \A x \in s : s \ {x} \in P
      PROVE  s \in P
  <2>1. Pick(s) \in s
    BY <1>2, PickIsIn
  <2>2. g[s \ {Pick(s)}] = h[s \ {Pick(s)}]
    BY <1>2, <2>1
  <2>3. s \in SUBSET U
    OBVIOUS
  <2>4. /\ g[s] = BytesIn(b, Pick(s)) + g[s \ {Pick(s)}]
        /\ h[s] = BytesIn(b, Pick(s)) + h[s \ {Pick(s)}]
    BY <1>2, <2>3, AddsUpIs
  <2>5. QED
    BY <2>2, <2>4
<1> HIDE DEF P
<1>3. SUBSET S \subseteq P
  BY <1>1, <1>2, BySize
<1>4. QED
  BY <1>3 DEF P

LEMMA SumIsFound ==
  ASSUME NEW b, NEW U, NEW S \in SUBSET U, IsFiniteSet(U), NEW g, AddsUp(g, b, U)
  PROVE  SumIn(b, S) = g[S]
<1> DEFINE iter == CHOOSE f : f = [s \in SUBSET S |->
                       IF s = {} THEN 0
                       ELSE BytesIn(b, CHOOSE x \in s : TRUE) + f[s \ {CHOOSE x \in s : TRUE}]]
<1>1. SumIn(b, S) = iter[S]
  BY Zenon DEF SumIn, MapThenSumSet, MapThenFoldSet
<1>2. IsFiniteSet(S)
  BY FS_Subset
<1>3. PICK h : AddsUp(h, b, S)
  BY <1>2, SumsExist
<1>4. AddsUp(iter, b, S)
  <2>1. \E f : f = [s \in SUBSET S |->
                       IF s = {} THEN 0
                       ELSE BytesIn(b, CHOOSE x \in s : TRUE) + f[s \ {CHOOSE x \in s : TRUE}]]
    BY <1>3, Zenon DEF AddsUp, Pick
  <2>2. QED
    BY <2>1, Zenon DEF AddsUp, Pick
<1> HIDE DEF iter
<1>5. QED
  BY <1>1, <1>2, <1>4, SumsAgree

LEMMA SumsAreNat ==
  ASSUME NEW b, NEW U, IsFiniteSet(U), \A x \in U : BytesIn(b, x) \in Nat,
         NEW g, AddsUp(g, b, U)
  PROVE  \A s \in SUBSET U : g[s] \in Nat
<1> DEFINE P == { s \in SUBSET U : g[s] \in Nat }
<1>1. {} \in P
  BY AddsUpIs
<1>2. ASSUME NEW s \in SUBSET U, s # {}, \A x \in s : s \ {x} \in P
      PROVE  s \in P
  <2>1. Pick(s) \in s
    BY <1>2, PickIsIn
  <2>2. g[s \ {Pick(s)}] \in Nat /\ BytesIn(b, Pick(s)) \in Nat
    BY <1>2, <2>1
  <2>3. g[s] = BytesIn(b, Pick(s)) + g[s \ {Pick(s)}]
    BY <1>2, AddsUpIs
  <2>4. QED
    BY <2>2, <2>3
<1> HIDE DEF P
<1>3. SUBSET U \subseteq P
  BY <1>1, <1>2, BySize
<1>4. QED
  BY <1>3 DEF P

(***************************************************************************)
(* The order does not matter: any member may be taken out first.           *)
(***************************************************************************)
LEMMA SumsSplit ==
  ASSUME NEW b, NEW U, IsFiniteSet(U), \A x \in U : BytesIn(b, x) \in Nat,
         NEW g, AddsUp(g, b, U)
  PROVE  \A s \in SUBSET U : \A x \in s : g[s] = BytesIn(b, x) + g[s \ {x}]
<1> DEFINE P == { s \in SUBSET U : \A x \in s : g[s] = BytesIn(b, x) + g[s \ {x}] }
<1>1. {} \in P
  OBVIOUS
<1>2. ASSUME NEW s \in SUBSET U, s # {}, \A x \in s : s \ {x} \in P
      PROVE  s \in P
  <2>1. PICK c \in s : c = Pick(s)
    BY <1>2, PickIsIn
  <2>2. g[s] = BytesIn(b, c) + g[s \ {c}]
    BY <1>2, <2>1, AddsUpIs
  <2>3. ASSUME NEW x \in s
        PROVE  g[s] = BytesIn(b, x) + g[s \ {x}]
    <3>1. CASE x = c
      BY <2>2, <3>1
    <3>2. CASE x # c
      <4>1. x \in s \ {c} /\ c \in s \ {x}
        BY <3>2
      <4>2. (s \ {c}) \ {x} = (s \ {x}) \ {c}
        OBVIOUS
      <4>3. PICK r \in Nat : r = g[(s \ {c}) \ {x}]
        <5>1. (s \ {c}) \ {x} \in SUBSET U
          OBVIOUS
        <5>2. QED
          BY <5>1, SumsAreNat
      <4>4. g[s \ {c}] = BytesIn(b, x) + r
        BY <1>2, <4>1, <4>3
      <4>5. g[s \ {x}] = BytesIn(b, c) + r
        <5>1. g[s \ {x}] = BytesIn(b, c) + g[(s \ {x}) \ {c}]
          BY <1>2, <4>1
        <5>2. QED
          BY <5>1, <4>2, <4>3
      <4>6. BytesIn(b, x) \in Nat /\ BytesIn(b, c) \in Nat
        OBVIOUS
      <4>7. QED
        BY <2>2, <4>3, <4>4, <4>5, <4>6
    <3>3. QED
      BY <3>1, <3>2
  <2>4. QED
    BY <2>3
<1> HIDE DEF P
<1>3. SUBSET U \subseteq P
  BY <1>1, <1>2, BySize
<1>4. QED
  BY <1>3 DEF P

(***************************************************************************)
(* What is known of the sums: nothing adds up to 0, and a run that comes   *)
(* to a set adds its bytes.                                                *)
(***************************************************************************)
LEMMA SumOfNothing ==
  ASSUME NEW b
  PROVE  SumIn(b, {}) = 0
<1>1. IsFiniteSet({})
  BY FS_EmptySet
<1>2. PICK g : AddsUp(g, b, {})
  BY <1>1, SumsExist
<1>3. SumIn(b, {}) = g[{}]
  BY <1>1, <1>2, SumIsFound
<1>4. QED
  BY <1>2, <1>3, AddsUpIs

LEMMA SumIsNat ==
  ASSUME NEW b, NEW S, IsFiniteSet(S), \A r \in S : BytesIn(b, r) \in Nat
  PROVE  SumIn(b, S) \in Nat
<1>1. PICK g : AddsUp(g, b, S)
  BY SumsExist
<1>2. SumIn(b, S) = g[S]
  BY <1>1, SumIsFound
<1>3. QED
  BY <1>1, <1>2, SumsAreNat

LEMMA SumGrows ==
  ASSUME NEW b, NEW S, IsFiniteSet(S), NEW x, x \notin S,
         \A r \in S \cup {x} : BytesIn(b, r) \in Nat
  PROVE  /\ SumIn(b, S) \in Nat
         /\ SumIn(b, S \cup {x}) = SumIn(b, S) + BytesIn(b, x)
<1>1. PICK U : U = S \cup {x}
  OBVIOUS
<1>2. IsFiniteSet(U)
  BY <1>1, FS_AddElement
<1>3. PICK g : AddsUp(g, b, U)
  BY <1>2, SumsExist
<1>4. S \in SUBSET U /\ U \in SUBSET U /\ x \in U /\ U \ {x} = S
  BY <1>1
<1>5. SumIn(b, S) = g[S] /\ SumIn(b, U) = g[U]
  BY <1>2, <1>3, <1>4, SumIsFound
<1>6. \A r \in U : BytesIn(b, r) \in Nat
  BY <1>1
<1>7. g[S] \in Nat
  BY <1>2, <1>3, <1>4, <1>6, SumsAreNat
<1>8. g[U] = BytesIn(b, x) + g[U \ {x}]
  BY <1>2, <1>3, <1>4, <1>6, SumsSplit
<1>9. BytesIn(b, x) \in Nat
  BY <1>4, <1>6
<1>10. SumIn(b, U) = BytesIn(b, x) + SumIn(b, S)
  BY <1>4, <1>5, <1>8
<1>11. SumIn(b, S) \in Nat
  BY <1>5, <1>7
<1>12. SumIn(b, U) = SumIn(b, S) + BytesIn(b, x)
  BY <1>9, <1>10, <1>11
<1>13. QED
  BY <1>1, <1>11, <1>12

-----------------------------------------------------------------------------
(***************************************************************************)
(* Where sets are recorded: off their place by the bytes of every run of   *)
(* pops that was passed before, because *orig is moved on behind a         *)
(* candidate that it had already been moved over (transform.c:235, 370).   *)
(***************************************************************************)
OffBy(s, n) == /\ s.start = OffsetIn(body, RunOf(s)[1]) + n
               /\ s.end = OffsetIn(body, RunOf(s)[2] + 1) + n

Passed == { p \in PopRuns : p[2] < Boundary }

Earlier(run) == { p \in PopRuns : p[2] < run[1] }

Drift == IF prologue = <<>> THEN 0 ELSE SumIn(body, Passed)

DriftOf(s) == SumIn(body, Earlier(RunOf(s)))

Places ==
  /\ Active =>
       /\ orig = walk + Drift
       /\ Started => OffBy(set, Drift)
       /\ pc \in {"scan", "scanned"} /\ ~Started => set.start = orig /\ set.end = orig
  /\ prologue # <<>> => OffBy(prologue[1], 0)
  /\ \A i \in DOMAIN epilogues : OffBy(epilogues[i], DriftOf(epilogues[i]))

LEMMA PopsAreTyped ==
  ASSUME IInv, prologue # <<>>
  PROVE  /\ IsFiniteSet(PopRuns)
         /\ \A p \in PopRuns :
              /\ p[1] \in Nat /\ p[2] \in Nat /\ p[1] <= p[2]
              /\ body[p[2]].op = "pop"
              /\ OffsetIn(body, p[1]) \in Nat /\ OffsetIn(body, p[2] + 1) \in Nat
              /\ BytesIn(body, p) \in Nat
<1>1. From \in Nat \ {0} /\ Len(body) \in Nat /\ PopRuns = Runs("pop", From)
      /\ body \in Bodies /\ body \in Seq(Instructions)
  BY FromIsTyped, BodyIsTyped DEF IInv, PopRuns, From, Typed
<1>2. IsFiniteSet(PopRuns)
  <2>1. IsFiniteSet(From .. Len(body))
    BY <1>1, FS_Interval
  <2>2. IsFiniteSet((From .. Len(body)) \X (From .. Len(body)))
    BY <2>1, FS_Product
  <2>3. PopRuns \subseteq (From .. Len(body)) \X (From .. Len(body))
    BY <1>1 DEF Runs
  <2>4. QED
    BY <2>2, <2>3, FS_Subset
<1>3. ASSUME NEW p \in PopRuns
      PROVE  /\ p[1] \in Nat /\ p[2] \in Nat /\ p[1] <= p[2]
             /\ body[p[2]].op = "pop"
             /\ OffsetIn(body, p[1]) \in Nat /\ OffsetIn(body, p[2] + 1) \in Nat
             /\ BytesIn(body, p) \in Nat
  <2>1. /\ p[1] \in From .. Len(body) /\ p[2] \in From .. Len(body) /\ p[1] <= p[2]
        /\ \A k \in p[1] .. p[2] : body[k].op = "pop"
    BY <1>1, RunIsPair
  <2>2. p[1] \in Nat /\ p[2] \in Nat /\ p[1] \in 1 .. p[2] /\ p[2] \in p[1] .. p[2]
    BY <1>1, <2>1
  <2>3. p[1] \in DOMAIN body /\ p[2] \in DOMAIN body
    BY <1>1, <2>1
  <2>4. body[p[1]].at <= body[p[2]].at
    BY <1>1, <2>2, <2>3, BodiesAssumption
  <2>5. body[p[2]].len \in Nat
    <3>1. body[p[2]] \in Instructions
      BY <1>1, <2>3
    <3>2. QED
      BY <3>1 DEF Instructions
  <2>6. /\ OffsetIn(body, p[1]) = body[p[1]].at /\ OffsetIn(body, p[1]) \in Nat
        /\ OffsetIn(body, p[2]) = body[p[2]].at /\ OffsetIn(body, p[2]) \in Nat
        /\ OffsetIn(body, p[2] + 1) = OffsetIn(body, p[2]) + body[p[2]].len
    BY <1>1, <2>3, OffsetsRise
  <2>7. PICK x \in Nat, y \in Nat, n \in Nat :
          /\ x = OffsetIn(body, p[1]) /\ y = OffsetIn(body, p[2]) /\ n = body[p[2]].len
    BY <2>5, <2>6
  <2>8. x <= y /\ BytesIn(body, p) = (y + n) - x /\ OffsetIn(body, p[2] + 1) = y + n
    BY <2>4, <2>6, <2>7 DEF BytesIn
  <2>9. QED
    BY <2>1, <2>2, <2>7, <2>8, SMTT(30)
<1>4. QED
  BY <1>2, <1>3

LEMMA PopsAddUp ==
  ASSUME IInv, prologue # <<>>, NEW S \in SUBSET PopRuns
  PROVE  SumIn(body, S) \in Nat
<1>1. IsFiniteSet(S) /\ \A p \in S : BytesIn(body, p) \in Nat
  BY PopsAreTyped, FS_Subset
<1>2. QED
  BY <1>1, SumIsNat

LEMMA DriftIsNat ==
  ASSUME IInv
  PROVE  Drift \in Nat
BY PopsAddUp DEF Drift, Passed

LEMMA SamePlaces ==
  ASSUME Places, UNCHANGED <<prologue, epilogues, input>>
  PROVE  /\ prologue' # <<>> => OffBy(prologue[1], 0)'
         /\ \A i \in DOMAIN epilogues' : OffBy(epilogues[i], DriftOf(epilogues[i]))'
<1>1. body' = body /\ PopRuns' = PopRuns
  BY SameFunction DEF input
<1>2. \A i \in DOMAIN epilogues : DriftOf(epilogues[i])' = DriftOf(epilogues[i])
  <2>1. TAKE i \in DOMAIN epilogues
  <2>2. Earlier(RunOf(epilogues[i]))' = Earlier(RunOf(epilogues[i]))
    BY <1>1 DEF Earlier, RunOf
  <2>3. QED
    BY <1>1, <2>2 DEF DriftOf
<1>3. QED
  BY <1>1, <1>2 DEF Places, OffBy, RunOf, OffsetIn

LEMMA StoppedInPlace ==
  ASSUME Places, UNCHANGED <<prologue, epilogues, input>>, ~Active'
  PROVE  Places'
BY SamePlaces DEF Places

\* As long as the same runs have been passed, the code is as far off.
LEMMA DriftStays ==
  ASSUME UNCHANGED <<prologue, input>>,
         prologue # <<>> => \A p \in PopRuns : p[2] < Boundary' <=> p[2] < Boundary
  PROVE  Drift' = Drift
<1>1. body' = body /\ PopRuns' = PopRuns
  BY SameFunction DEF input
<1>2. prologue # <<>> => Passed' = Passed
  BY <1>1 DEF Passed
<1>3. QED
  BY <1>1, <1>2 DEF Drift

\* A scan that goes on.
LEMMA KeptInstruction ==
  ASSUME IInv, KeepInstruction
  PROVE  /\ set.instrs \in Seq(Instrs) /\ set'.instrs = Append(set.instrs, next)
         /\ set'.start = set.start /\ set'.end = orig' /\ Started'
         /\ set'.instrs[1] = IF Started THEN set.instrs[1] ELSE next
         /\ RunOf(set)'[1] = set'.instrs[1] /\ RunOf(set)'[2] = next
<1>1. /\ set' = [set EXCEPT !.end = orig', !.instrs = Append(set.instrs, next)]
      /\ set \in InstrSets
  BY DEF KeepInstruction, IInv, Typed
<1>2. /\ set'.start = set.start /\ set'.end = orig' /\ set'.instrs = Append(set.instrs, next)
      /\ set.instrs \in Seq(Instrs)
  BY <1>1 DEF InstrSets
<1> DEFINE e == set.instrs
<1>3. /\ Len(e) \in Nat /\ Append(e, next) # <<>> /\ Len(Append(e, next)) = Len(e) + 1
      /\ Append(e, next)[Len(e) + 1] = next
      /\ e # <<>> => Append(e, next)[1] = e[1]
      /\ e = <<>> => Append(e, next)[1] = next
  BY <1>2
<1>4. QED
  BY <1>2, <1>3 DEF Started, RunOf

LEMMA ScanInPlace ==
  ASSUME IInv, Places, KeepInstruction \/ SkipInstruction \/ EndOfSet
  PROVE  Places'
<1>1. /\ next \in Instrs /\ next' = next + 1 /\ next \in Nat
      /\ walk = OffsetIn(body, next) /\ walk' = OffsetIn(body, next + 1)
      /\ walk \in Nat /\ orig \in Nat /\ orig' = orig + (walk' - walk) /\ walk' \in Nat
      /\ pc = "scan" /\ Active /\ UNCHANGED <<prologue, epilogues, input>>
      /\ set \in InstrSets
  <2>1. Decode
    BY DEF KeepInstruction, SkipInstruction, EndOfSet
  <2>2. /\ next \in Instrs /\ next' = next + 1 /\ walk' = OffsetIn(body, next + 1)
        /\ pc = "scan" /\ Active /\ UNCHANGED <<prologue, epilogues, input>>
    BY <2>1, DecodeMoves DEF found
  <2>3. /\ walk = OffsetIn(body, next) /\ walk \in Nat /\ orig \in Nat /\ set \in InstrSets
        /\ body \in Bodies /\ body \in Seq(Instructions)
    BY BytesLeft, BodyIsTyped DEF IInv, Typed
  <2>4. next \in DOMAIN body
    BY <2>2, <2>3 DEF Instrs
  <2>5. body[next].len \in Nat
    <3>1. body[next] \in Instructions
      BY <2>3, <2>4
    <3>2. QED
      BY <3>1 DEF Instructions
  <2>6. walk' = walk + body[next].len /\ orig' = orig + body[next].len
    BY <2>1 DEF Decode
  <2>7. QED
    BY <2>2, <2>3, <2>5, <2>6 DEF Instrs
<1>2. body' = body
  BY <1>1 DEF input
<1>3. Drift' = Drift
  <2>1. CASE KeepInstruction
    <3>1. Started' /\ set'.instrs[1] = IF Started THEN set.instrs[1] ELSE next
      BY <2>1, KeptInstruction
    <3>2. Boundary' = Boundary
      BY <3>1 DEF Boundary
    <3>3. QED
      BY <1>1, <3>2, DriftStays
  <2>2. CASE SkipInstruction
    <3>1. Boundary = next /\ Boundary' = next + 1
      BY <1>1, <2>2 DEF SkipInstruction, EmptySet, Boundary, Started
    <3>2. prologue # <<>> => body[next].op # "pop"
      BY <2>2 DEF SkipInstruction, Wanted
    <3>3. ASSUME prologue # <<>>, NEW p \in PopRuns
          PROVE  p[2] < Boundary' <=> p[2] < Boundary
      <4>1. p[2] \in Nat /\ p[2] # next
        BY <3>2, <3>3, PopsAreTyped
      <4>2. QED
        BY <1>1, <3>1, <4>1
    <3>4. QED
      BY <1>1, <3>3, DriftStays
  <2>3. CASE EndOfSet
    <3>1. Boundary' = Boundary
      BY <2>3 DEF EndOfSet, Started, Boundary
    <3>2. QED
      BY <1>1, <3>1, DriftStays
  <2>4. QED
    BY <2>1, <2>2, <2>3
<1>4. Drift \in Nat
  BY DriftIsNat
<1>5. /\ orig = walk + Drift /\ (Started => OffBy(set, Drift))
      /\ ~Started => set.start = orig /\ set.end = orig
  BY <1>1 DEF Places
<1>6. orig' = walk' + Drift
  BY <1>1, <1>4, <1>5
<1>7. /\ Started' => OffBy(set, Drift)'
      /\ ~Started' => set'.start = orig' /\ set'.end = orig'
  <2>1. CASE KeepInstruction
    <3>1. /\ set'.end = orig' /\ set'.start = set.start /\ Started'
          /\ RunOf(set)'[1] = IF Started THEN set.instrs[1] ELSE next
          /\ RunOf(set)'[2] = next
      BY <2>1, KeptInstruction
    <3>2. Started => RunOf(set)[1] = set.instrs[1]
      BY BodyIsTyped DEF IInv
    <3>3. set'.start = OffsetIn(body, RunOf(set)'[1]) + Drift
      BY <1>1, <1>5, <3>1, <3>2 DEF OffBy
    <3>4. set'.end = OffsetIn(body, RunOf(set)'[2] + 1) + Drift
      BY <1>1, <1>6, <3>1
    <3>5. OffBy(set, Drift)'
      BY <1>2, <1>3, <3>3, <3>4 DEF OffBy, OffsetIn
    <3>6. QED
      BY <3>1, <3>5
  <2>2. CASE SkipInstruction
    BY <2>2 DEF SkipInstruction, EmptySet, Started
  <2>3. CASE EndOfSet
    <3>1. set' = set /\ Started
      BY <2>3 DEF EndOfSet, Started
    <3>2. QED
      BY <1>2, <1>3, <1>5, <3>1 DEF Started, OffBy, RunOf, OffsetIn
  <2>4. QED
    BY <2>1, <2>2, <2>3
<1>8. QED
  BY <1>1, <1>3, <1>6, <1>7, SamePlaces DEF Places

\* Steps that leave the scan's place alone.
LEMMA WaitingInPlace ==
  ASSUME IInv, Places, UNCHANGED <<next, walk, orig, prologue, epilogues, input>>, Active,
         \/ set' = set /\ (pc' \in {"scan", "scanned"} => pc \in {"scan", "scanned"})
         \/ ~Started /\ set' = EmptySet(orig)
  PROVE  Places'
<1>1. body' = body
  BY DEF input
<1>2. Boundary' = Boundary /\ (Started' <=> Started)
  BY DEF Boundary, Started, EmptySet
<1>3. Drift' = Drift
  BY <1>2, DriftStays
<1>4. /\ orig' = walk' + Drift'
      /\ Started' => OffBy(set, Drift)'
      /\ pc' \in {"scan", "scanned"} /\ ~Started' => set'.start = orig' /\ set'.end = orig'
  BY <1>1, <1>2, <1>3 DEF Places, OffBy, RunOf, OffsetIn, EmptySet
<1>5. QED
  BY <1>4, SamePlaces DEF Places

\* The scan for the prologue has passed no pops that are looked at later.
LEMMA PrologueInPlace ==
  ASSUME IInv, IInv', Places, pc = "scanned", prologue = <<>>, Started, prologue' = <<set>>,
         set'.instrs = <<>>, pc' = "loop", UNCHANGED <<next, walk, orig, epilogues, input>>
  PROVE  Places'
<1>1. body' = body /\ epilogues' = <<>> /\ Active /\ Drift = 0
  BY DEF input, IInv, FirstFound, Drift, Active
<1>2. OffBy(set, 0) /\ orig = walk + 0 /\ prologue'[1] = set /\ ~Started'
  BY <1>1 DEF Places, Started
<1>3. OffBy(prologue[1], 0)'
  BY <1>1, <1>2 DEF OffBy, RunOf, OffsetIn
<1>4. Drift' = 0
  <2>1. FirstPushes' = RunOf(set)
    BY <1>2 DEF IInv, FirstFound, Holds, RunOf
  <2>2. next <= RunOf(set)[2] + 2 /\ RunOf(set)[2] \in Nat /\ next \in Nat
    <3>1. RunOf(set)[2] \in Nat /\ next \in Nat
      BY BodyIsTyped DEF IInv, Instrs
    <3>2. RunOf(set)[2] = next - 1 \/ RunOf(set)[2] = next - 2
      BY DEF IInv, Filling, Active
    <3>3. QED
      BY <3>1, <3>2
  <2>3. Boundary' = next
    BY <1>2 DEF Boundary
  <2>4. PopRuns' = Runs("pop", RunOf(set)[2] + 2)
    BY <1>1, <2>1 DEF PopRuns, Runs
  <2>5. \A p \in PopRuns' : ~(p[2] < Boundary')
    <3>1. TAKE p \in PopRuns'
    <3>2. /\ p[1] \in (RunOf(set)[2] + 2) .. Len(body)
          /\ p[2] \in (RunOf(set)[2] + 2) .. Len(body)
      BY <2>2, <2>4, RunIsPair
    <3>3. QED
      BY <2>2, <2>3, <3>2
  <2>6. Passed' = {}
    BY <2>5 DEF Passed
  <2>7. QED
    BY <2>6, <1>1, SumOfNothing DEF Drift
<1>5. DOMAIN epilogues' = {}
  BY <1>1
<1>6. QED
  BY <1>2, <1>3, <1>4, <1>5 DEF Places

\* A candidate that has been scanned is counted twice.
LEMMA CandidateInPlace ==
  ASSUME IInv, Places, pc = "scanned", prologue # <<>>, orig' = Advanced(orig, set),
         set'.instrs = <<>>, pc' = "loop", UNCHANGED <<next, walk, prologue, input>>,
         epilogues' = epilogues \/ (Started /\ epilogues' = Append(epilogues, set))
  PROVE  Places'
<1>1. /\ body' = body /\ PopRuns' = PopRuns /\ Active /\ Typed /\ Filling /\ FirstFound
      /\ ~Started' /\ Boundary' = next /\ next \in Nat /\ orig \in Nat
      /\ epilogues \in Seq(InstrSets)
  BY SameFunction, BodyIsTyped DEF input, IInv, Active, Started, Boundary, Typed
<1>2. /\ Drift \in Nat /\ walk \in Nat /\ orig = walk + Drift
      /\ Drift = SumIn(body, Passed) /\ Drift' = SumIn(body, Passed')
  BY <1>1, DriftIsNat, BytesLeft DEF Places, Drift, IInv
<1>3. ASSUME Started
      PROVE  /\ RunOf(set) \in PopRuns /\ RunOf(set)[1] = Boundary
             /\ RunOf(set)[2] < next /\ OffBy(set, Drift)
  BY <1>1, <1>3, SetIsRun DEF Kind, From, PopRuns, Places
<1>4. orig' = walk' + Drift'
  <2>1. CASE Started
    <3> DEFINE r == RunOf(set)
    <3>1. /\ r \in PopRuns /\ r[1] = Boundary /\ r[2] < next /\ OffBy(set, Drift)
          /\ r[1] \in Nat /\ r[2] \in Nat /\ r[1] <= r[2]
      BY <1>3, <2>1, PopsAreTyped
    <3>2. /\ set.start = OffsetIn(body, r[1]) + Drift
          /\ set.end = OffsetIn(body, r[2] + 1) + Drift
          /\ OffsetIn(body, r[1]) \in Nat /\ OffsetIn(body, r[2] + 1) \in Nat
          /\ BytesIn(body, r) \in Nat
      BY <3>1, PopsAreTyped DEF OffBy
    <3> HIDE DEF r
    <3>3. Bytes(set) = BytesIn(body, r)
      BY <1>2, <3>2 DEF Bytes, BytesIn
    <3>4. Passed' = Passed \cup {r}
      <4>1. \A p \in PopRuns : p[2] < next <=> (p[2] < Boundary \/ p = r)
        <5>1. TAKE p \in PopRuns
        <5>2. p[2] \in Nat
          BY PopsAreTyped
        <5>3. CASE p[2] < next /\ ~(p[2] < Boundary)
          BY <1>1, <5>3, PassedRuns DEF r
        <5>4. CASE p[2] < Boundary
          BY <1>1, <3>1, <5>2, <5>4
        <5>5. CASE p = r
          BY <3>1, <5>5
        <5>6. QED
          BY <5>3, <5>4, <5>5
      <4>2. QED
        BY <1>1, <3>1, <4>1 DEF Passed
    <3>5. Drift' = Drift + BytesIn(body, r)
      <4>1. IsFiniteSet(Passed)
        BY PopsAreTyped, FS_Subset DEF Passed
      <4>2. r \notin Passed
        BY <3>1 DEF Passed
      <4>3. \A p \in Passed \cup {r} : BytesIn(body, p) \in Nat
        BY <3>1, PopsAreTyped DEF Passed
      <4>4. QED
        BY <1>2, <3>4, <4>1, <4>2, <4>3, SumGrows
    <3>6. orig' = orig + BytesIn(body, r)
      BY <3>3 DEF Advanced
    <3>7. QED
      BY <1>2, <3>2, <3>5, <3>6
  <2>2. CASE ~Started
    <3>1. Boundary = next /\ set.start = orig /\ set.end = orig
      BY <1>1, <2>2 DEF Boundary, Places
    <3>2. Drift' = Drift
      BY <1>1, <3>1, DriftStays
    <3>3. Advanced(orig, set) = orig
      BY <1>1, <3>1 DEF Advanced, Bytes
    <3>4. QED
      BY <1>2, <3>2, <3>3
  <2>3. QED
    BY <2>1, <2>2
<1>5. ASSUME NEW i \in DOMAIN epilogues'
      PROVE  OffBy(epilogues'[i], DriftOf(epilogues'[i]))
  <2>1. CASE i \in DOMAIN epilogues /\ epilogues'[i] = epilogues[i]
    BY <2>1 DEF Places
  <2>2. CASE Started /\ epilogues'[i] = set
    <3>1. Earlier(RunOf(set)) = Passed
      BY <1>3, <2>2 DEF Earlier, Passed
    <3>2. DriftOf(set) = Drift
      BY <1>2, <3>1 DEF DriftOf
    <3>3. QED
      BY <1>3, <2>2, <3>2
  <2>3. QED
    BY <1>1, <2>1, <2>2
<1>6. \A i \in DOMAIN epilogues' : OffBy(epilogues[i], DriftOf(epilogues[i]))'
  <2>1. TAKE i \in DOMAIN epilogues'
  <2>2. Earlier(RunOf(epilogues[i]))' = Earlier(RunOf(epilogues'[i]))
    BY <1>1 DEF Earlier, RunOf
  <2>3. DriftOf(epilogues[i])' = DriftOf(epilogues'[i])
    BY <1>1, <2>2 DEF DriftOf
  <2>4. QED
    BY <1>1, <1>5, <2>3 DEF OffBy, RunOf, OffsetIn
<1>7. OffBy(prologue[1], 0)'
  BY <1>1 DEF Places, OffBy, RunOf, OffsetIn
<1>8. QED
  BY <1>1, <1>4, <1>6, <1>7 DEF Places

LEMMA PlacesHold == Spec => [](IInv /\ Places)
<1>1. Init => Places
  BY DEF Init, Places, Drift, EmptySet, Started
<1>2. IInv /\ Places /\ [Next]_vars => Places'
  <2> SUFFICES ASSUME IInv, IInv', Places, [Next]_vars PROVE Places'
    BY NextHolds
  <2>1. CASE UNCHANGED vars
    <3>1. /\ UNCHANGED <<next, walk, orig, prologue, epilogues, input>> /\ set' = set /\ pc' = pc
      BY <2>1 DEF vars, scan, found
    <3>2. CASE Active
      BY <3>1, <3>2, WaitingInPlace
    <3>3. CASE ~Active
      <4>1. ~Active'
        BY <3>1, <3>3 DEF Active
      <4>2. QED
        BY <3>1, <4>1, StoppedInPlace
    <3>4. QED
      BY <3>2, <3>3
  <2>2. CASE CloseTransform \/ Accept
    <3>1. UNCHANGED <<prologue, epilogues, input>> /\ ~Active'
      BY <2>2 DEF CloseTransform, Accept, Leave, Stale, Undefined, found, Active
    <3>2. QED
      BY <3>1, StoppedInPlace
  <2>3. ASSUME NEW code, GivesUp(code), UNCHANGED input PROVE Places'
    <3>1. UNCHANGED <<prologue, epilogues, input>> /\ ~Active'
      BY <2>3 DEF GivesUp, found, Active
    <3>2. QED
      BY <3>1, StoppedInPlace
  <2>4. ASSUME Undefined("stale") \/ Undefined("unset") \/ Leave("ENOMEM", heap), UNCHANGED input
        PROVE  Places'
    <3>1. UNCHANGED <<prologue, epilogues, input>> /\ ~Active'
      BY <2>4 DEF Undefined, Leave, found, Active
    <3>2. QED
      BY <3>1, StoppedInPlace
  <2>5. CASE BadInstruction \/ KeepRefused \/ EnterRefused \/ TooSmall \/ Unsound
    <3>1. UNCHANGED input
      BY <2>5 DEF BadInstruction, KeepRefused, EnterRefused, TooSmall, Unsound
    <3>2. CASE BadInstruction \/ KeepRefused
      BY <2>3, <2>4, <3>1, <3>2, ScanGivesUp DEF BadInstruction, KeepRefused
    <3>3. CASE EnterRefused
      BY <2>3, <2>4, <3>1, <3>3, ErrGivesUp DEF EnterRefused
    <3>4. CASE TooSmall \/ Unsound
      BY <2>3, <3>1, <3>4, ErrGivesUp DEF TooSmall, Unsound
    <3>5. QED
      BY <2>5, <3>2, <3>3, <3>4
  <2>6. CASE CreateTransformable \/ EnterScan \/ MoreBytes \/ EndOfFunction
    <3>1. CASE Leave("ENOMEM", heap) /\ UNCHANGED input
      BY <2>4, <3>1
    <3>2. CASE /\ UNCHANGED <<next, walk, orig, prologue, epilogues, set, input>>
               /\ \/ pc \in {"create", "loop"} /\ pc' = "enter"
                  \/ pc = "scan" /\ pc' = "scanned"
      BY <3>2, WaitingInPlace DEF Active
    <3>3. CASE EnterScan
      <4>1. /\ UNCHANGED <<next, walk, orig, prologue, epilogues, input>>
            /\ pc = "enter" /\ set' = EmptySet(orig)
        BY <3>3 DEF EnterScan, found
      <4>2. Active /\ ~Started
        BY <4>1 DEF IInv, Filling, Active
      <4>3. QED
        BY <4>1, <4>2, WaitingInPlace
    <3>4. QED
      BY <2>6, <3>1, <3>2, <3>3
         DEF CreateTransformable, MoreBytes, EndOfFunction, ScanEnds, scan, found
  <2>7. CASE KeepInstruction \/ SkipInstruction \/ EndOfSet
    BY <2>7, ScanInPlace
  <2>8. CASE HasPrologue
    <3>1. CASE Err("ENOMEM", heap, <<set>>) /\ UNCHANGED input
      BY <2>3, <3>1, ErrGivesUp
    <3>2. CASE /\ pc = "scanned" /\ prologue = <<>> /\ Len(set.instrs) >= 2 /\ NewCandidate
               /\ prologue' = <<set>> /\ pc' = "loop"
               /\ UNCHANGED <<next, walk, orig, epilogues, input>>
      <4>1. Started /\ set'.instrs = <<>>
        BY <3>2 DEF Started, NewCandidate, EmptySet
      <4>2. QED
        BY <3>2, <4>1, PrologueInPlace
    <3>3. QED
      BY <2>8, <3>1, <3>2 DEF HasPrologue
  <2>9. CASE KeepEpilogue \/ DropCandidate
    <3>1. pc = "scanned" /\ prologue # <<>> /\ UNCHANGED input /\ set \in InstrSets
      BY <2>9 DEF KeepEpilogue, DropCandidate, IInv, Typed
    <3>2. CASE Err("ENOMEM", heap, <<set>>) \/ Stale(<<set>>)
      BY <2>3, <2>4, <3>1, <3>2, ErrGivesUp DEF Stale
    <3>3. CASE /\ IsEpilogue(prologue[1], set) /\ NewCandidate /\ orig' = Advanced(orig, set)
               /\ epilogues' = Append(epilogues, set) /\ pc' = "loop"
               /\ UNCHANGED <<next, walk, prologue>>
      <4>1. Started /\ set'.instrs = <<>>
        BY <3>1, <3>3, EpilogueIsMirror DEF NewCandidate, EmptySet, IInv, Active
      <4>2. QED
        BY <3>1, <3>3, <4>1, CandidateInPlace
    <3>4. CASE /\ orig' = Advanced(orig, set) /\ set' = [set EXCEPT !.instrs = <<>>]
               /\ pc' = "loop" /\ UNCHANGED <<next, walk, found>>
      <4>1. set'.instrs = <<>> /\ UNCHANGED <<prologue, epilogues>>
        BY <3>1, <3>4 DEF InstrSets, found
      <4>2. QED
        BY <3>1, <3>4, <4>1, CandidateInPlace
    <3>5. QED
      BY <2>9, <3>2, <3>3, <3>4 DEF KeepEpilogue, DropCandidate
  <2>10. QED
    BY <2>1, <2>2, <2>5, <2>6, <2>7, <2>8, <2>9 DEF Next, Step, Returned
<1>3. QED
  BY <1>1, <1>2, InitHolds, NextHolds, PTL DEF Spec

(***************************************************************************)
(* The prologue is recorded where it is, and every epilogue is recorded    *)
(* past its place by exactly the bytes of the runs of pops before it,      *)
(* whatever they are and however many (transform.c:235, 259 and 370).      *)
(***************************************************************************)
THEOREM DriftHolds == Spec => []DriftIsEarlierPops
<1>1. IInv /\ Places => DriftIsEarlierPops
  <2> SUFFICES ASSUME IInv, Places, ret = "SUCCESS"
               PROVE  /\ prologue[1].start = OffsetIn(body, FirstPushes[1])
                      /\ Bytes(prologue[1]) = BytesOf(FirstPushes)
                      /\ \A i \in DOMAIN epilogues :
                           LET run     == RunOf(epilogues[i])
                               earlier == { p \in PopRuns : p[2] < run[1] }
                           IN  /\ Bytes(epilogues[i]) = BytesOf(run)
                               /\ epilogues[i].start =
                                    OffsetIn(body, run[1]) + MapThenSumSet(BytesOf, earlier)
    BY DEF DriftIsEarlierPops
  <2>1. prologue # <<>> /\ RunOf(prologue[1]) = FirstPushes
    BY DEF IInv, Answered, FirstFound, Holds
  <2>2. /\ OffsetIn(body, FirstPushes[1]) \in Nat
        /\ OffsetIn(body, FirstPushes[2] + 1) \in Nat
    <3>1. FirstPushes \in Runs("push", 1) /\ body \in Bodies /\ Len(body) \in Nat
      BY <2>1, BodyIsTyped DEF IInv, FirstFound, Typed
    <3>2. FirstPushes[1] \in 1 .. Len(body) /\ FirstPushes[2] \in 1 .. Len(body)
      BY <3>1, RunIsPair
    <3>3. FirstPushes[1] \in 1 .. Len(body) + 1 /\ FirstPushes[2] + 1 \in 1 .. Len(body) + 1
      BY <3>1, <3>2
    <3>4. QED
      BY <3>1, <3>3, OffsetsAreNat
  <2>3. /\ prologue[1].start = OffsetIn(body, FirstPushes[1])
        /\ prologue[1].end = OffsetIn(body, FirstPushes[2] + 1)
    BY <2>1, <2>2 DEF Places, OffBy
  <2>4. Bytes(prologue[1]) = BytesOf(FirstPushes)
    BY <2>3 DEF Bytes, BytesOf
  <2>5. ASSUME NEW i \in DOMAIN epilogues
        PROVE  LET run     == RunOf(epilogues[i])
                   earlier == { p \in PopRuns : p[2] < run[1] }
               IN  /\ Bytes(epilogues[i]) = BytesOf(run)
                   /\ epilogues[i].start =
                        OffsetIn(body, run[1]) + MapThenSumSet(BytesOf, earlier)
    <3>1. PICK s : s = epilogues[i]
      OBVIOUS
    <3>2. OffBy(s, DriftOf(s)) /\ RunOf(s) \in PopRuns
      BY <3>1 DEF Places, IInv, MirrorsFound, Mirrors
    <3>3. /\ OffsetIn(body, RunOf(s)[1]) \in Nat
          /\ OffsetIn(body, RunOf(s)[2] + 1) \in Nat
          /\ BytesIn(body, RunOf(s)) \in Nat
      BY <2>1, <3>2, PopsAreTyped
    <3>4. DriftOf(s) \in Nat
      <4>1. Earlier(RunOf(s)) \in SUBSET PopRuns
        BY DEF Earlier
      <4>2. QED
        BY <2>1, <4>1, PopsAddUp DEF DriftOf
    <3>5. PICK n \in Nat : n = DriftOf(s)
      BY <3>4
    <3>6. /\ s.start = OffsetIn(body, RunOf(s)[1]) + n
          /\ s.end = OffsetIn(body, RunOf(s)[2] + 1) + n
      BY <3>2, <3>5 DEF OffBy
    <3>7. Bytes(s) = BytesOf(RunOf(s))
      BY <3>3, <3>5, <3>6 DEF Bytes, BytesOf, BytesIn
    <3>8. MapThenSumSet(BytesOf, Earlier(RunOf(s))) = n
      BY <3>5, SumIsOfBody DEF DriftOf
    <3>9. MapThenSumSet(BytesOf, { p \in PopRuns : p[2] < RunOf(s)[1] }) = n
      BY <3>8, Zenon DEF Earlier
    <3>10. QED
      BY <3>1, <3>6, <3>7, <3>9
  <2>6. QED
    BY <2>3, <2>4, <2>5
<1>2. QED
  BY <1>1, PlacesHold, PTL

(***************************************************************************)
(* So the prologue, and an epilogue that is the first run of pops after    *)
(* it, are recorded where they are, whatever comes behind: a function with *)
(* a single run of pops is what Permute calls InPlace.                     *)
(***************************************************************************)
ExactlyAt(s) == /\ s.start = OffsetIn(body, RunOf(s)[1])
                /\ s.end = OffsetIn(body, RunOf(s)[2] + 1)

FirstPops(run) == \A p \in PopRuns : ~(p[2] < run[1])

FirstPopsAreExact ==
  ret = "SUCCESS" =>
    /\ ExactlyAt(prologue[1])
    /\ \A i \in DOMAIN epilogues : FirstPops(RunOf(epilogues[i])) => ExactlyAt(epilogues[i])

THEOREM FirstPopsAreInPlace == Spec => []FirstPopsAreExact
<1>1. IInv /\ Places => FirstPopsAreExact
  <2> SUFFICES ASSUME IInv, Places, ret = "SUCCESS"
               PROVE  /\ ExactlyAt(prologue[1])
                      /\ \A i \in DOMAIN epilogues :
                           FirstPops(RunOf(epilogues[i])) => ExactlyAt(epilogues[i])
    BY DEF FirstPopsAreExact
  <2>1. prologue # <<>> /\ RunOf(prologue[1]) = FirstPushes
    BY DEF IInv, Answered, FirstFound, Holds
  <2>2. \A k \in 1 .. Len(body) + 1 : OffsetIn(body, k) \in Nat
    BY OffsetsAreNat DEF IInv, Typed
  <2>3. FirstPushes[1] \in 1 .. Len(body) + 1 /\ FirstPushes[2] + 1 \in 1 .. Len(body) + 1
    <3>1. FirstPushes \in Runs("push", 1) /\ Len(body) \in Nat
      BY <2>1, BodyIsTyped DEF IInv, FirstFound
    <3>2. FirstPushes[1] \in 1 .. Len(body) /\ FirstPushes[2] \in 1 .. Len(body)
      BY <3>1, RunIsPair
    <3>3. QED
      BY <3>1, <3>2
  <2>4. ExactlyAt(prologue[1])
    BY <2>1, <2>2, <2>3 DEF Places, OffBy, ExactlyAt
  <2>5. ASSUME NEW i \in DOMAIN epilogues, FirstPops(RunOf(epilogues[i]))
        PROVE  ExactlyAt(epilogues[i])
    <3>1. PICK s : s = epilogues[i]
      OBVIOUS
    <3>2. OffBy(s, DriftOf(s)) /\ RunOf(s) \in PopRuns
      BY <3>1 DEF Places, IInv, MirrorsFound, Mirrors
    <3>3. Earlier(RunOf(s)) = {}
      BY <2>5, <3>1 DEF FirstPops, Earlier
    <3>4. DriftOf(s) = 0
      BY <3>3, SumOfNothing DEF DriftOf
    <3>5. /\ OffsetIn(body, RunOf(s)[1]) \in Nat
          /\ OffsetIn(body, RunOf(s)[2] + 1) \in Nat
      BY <2>1, <3>2, PopsAreTyped
    <3>6. QED
      BY <3>1, <3>2, <3>4, <3>5 DEF OffBy, ExactlyAt
  <2>6. QED
    BY <2>4, <2>5
<1>2. QED
  BY <1>1, PlacesHold, PTL

-----------------------------------------------------------------------------
(***************************************************************************)
(* How far the call still has to go: ten for every instruction that is     *)
(* left, and less than that for the decisions before the next one is       *)
(* decoded, which are fewer once the last byte has been reached.           *)
(***************************************************************************)
Decisions ==
  CASE pc = "create"                  -> 7
    [] pc = "scanned" /\ walk < size  -> 6
    [] pc = "loop" /\ walk < size     -> 5
    [] pc = "enter"                   -> 4
    [] pc = "scan"                    -> 3
    [] pc = "scanned" /\ walk >= size -> 2
    [] pc = "loop" /\ walk >= size    -> 1
    [] OTHER                          -> 0

Remaining == 10 * (Len(body) + 1 - next) + Decisions

EveryStepIsProgress == Step => Remaining' < Remaining

LEMMA DecisionsAreFew ==
  ASSUME IInv
  PROVE  /\ Decisions \in 0 .. 7 /\ Remaining \in Nat
         /\ Active => Decisions > 0
         /\ ~Active => Decisions = 0
<1>1. walk \in Nat /\ size \in Nat
  BY BytesLeft
<1>2. /\ Decisions \in 0 .. 7
      /\ Active => Decisions > 0
      /\ ~Active => Decisions = 0
  BY <1>1 DEF Decisions, Active
<1>3. next \in 1 .. Len(body) + 1 /\ Len(body) \in Nat
  BY BodyIsTyped DEF IInv, Typed
<1>4. QED
  BY <1>2, <1>3 DEF Remaining

(***************************************************************************)
(* A call that gives up has nothing more to do, one that decodes has an    *)
(* instruction less, and any other decision is one fewer.                  *)
(***************************************************************************)
LEMMA StoppingIsProgress ==
  ASSUME IInv, Active, ~Active', UNCHANGED <<next, body>>
  PROVE  Remaining' < Remaining
<1>1. Decisions > 0 /\ Decisions \in Nat
  BY DecisionsAreFew
<1>2. Decisions' = 0
  BY DEF Decisions, Active
<1>3. next \in Nat /\ Len(body) \in Nat
  BY BodyIsTyped DEF IInv, Typed
<1>4. QED
  BY <1>1, <1>2, <1>3 DEF Remaining

LEMMA DecodingIsProgress ==
  ASSUME IInv, Decode
  PROVE  Remaining' < Remaining
<1>1. next' = next + 1 /\ body' = body
  BY DecodeMoves DEF input
<1>2. Decisions \in 0 .. 7
  BY DecisionsAreFew
<1>3. Decisions' \in 0 .. 7
  BY DEF Decisions
<1>4. next \in Nat /\ Len(body) \in Nat
  BY BodyIsTyped DEF IInv, Typed
<1>5. QED
  BY <1>1, <1>2, <1>3, <1>4 DEF Remaining

LEMMA DecidingIsProgress ==
  ASSUME IInv, UNCHANGED <<next, walk, input>>,
         \/ pc = "create" /\ pc' = "enter"
         \/ pc = "enter" /\ pc' = "scan"
         \/ pc = "scan" /\ walk >= size /\ pc' = "scanned"
         \/ pc = "scanned" /\ pc' = "loop"
         \/ pc = "loop" /\ walk < size /\ pc' = "enter"
  PROVE  Remaining' < Remaining
<1>1. walk \in Nat /\ size \in Nat /\ size' = size /\ walk' = walk /\ body' = body
  BY BytesLeft DEF input
<1>2. Decisions' < Decisions /\ Decisions \in Nat /\ Decisions' \in Nat
  BY <1>1 DEF Decisions
<1>3. next \in Nat /\ next' = next /\ Len(body) \in Nat
  BY BodyIsTyped DEF IInv, Typed
<1>4. QED
  BY <1>1, <1>2, <1>3 DEF Remaining

(***************************************************************************)
(* No function, however long, keeps the analysis busy for ever: every step *)
(* brings the call closer to its return, so that it takes no more than     *)
(* ten steps an instruction and seven.  In particular next_set() consumes  *)
(* an instruction each time that it is entered before the last byte, and   *)
(* the loop over the epilogues never enters it after (transform.c:362).    *)
(***************************************************************************)
THEOREM AnalysisComesToAnEnd ==
  Spec => /\ [](Remaining \in Nat)
          /\ [][EveryStepIsProgress]_vars
<1>1. ASSUME IInv, Step PROVE Remaining' < Remaining
  <2>1. ASSUME NEW code, GivesUp(code), UNCHANGED input, Active
        PROVE  Remaining' < Remaining
    BY <1>1, <2>1, StoppingIsProgress DEF GivesUp, scan, input, Active
  <2>2. ASSUME NEW why \in {"stale", "unset"}, Undefined(why), UNCHANGED input, Active
        PROVE  Remaining' < Remaining
    BY <1>1, <2>2, StoppingIsProgress DEF Undefined, scan, input, Active
  <2>3. ASSUME NEW code, NEW kept, Leave(code, kept), UNCHANGED input, Active
        PROVE  Remaining' < Remaining
    BY <1>1, <2>3, StoppingIsProgress DEF Leave, scan, input, Active
  <2>4. ASSUME NEW code, NEW h, NEW candidate, Err(code, h, candidate), UNCHANGED input, Active
        PROVE  Remaining' < Remaining
    BY <2>1, <2>4, ErrGivesUp
  <2>5. CASE CreateTransformable
    BY <1>1, <2>3, <2>5, DecidingIsProgress DEF CreateTransformable, Active, scan
  <2>6. CASE EnterScan
    BY <1>1, <2>6, DecidingIsProgress DEF EnterScan
  <2>7. CASE EnterRefused
    BY <2>2, <2>3, <2>4, <2>7 DEF EnterRefused, Active
  <2>8. CASE BadInstruction
    BY <2>1, <2>8, ScanGivesUp DEF BadInstruction, Decoding, Active
  <2>9. CASE KeepRefused
    BY <2>1, <2>2, <2>9, ScanGivesUp DEF KeepRefused, Decoding, Active
  <2>10. CASE KeepInstruction \/ SkipInstruction \/ EndOfSet
    BY <1>1, <2>10, DecodingIsProgress DEF KeepInstruction, SkipInstruction, EndOfSet
  <2>11. CASE EndOfFunction
    BY <1>1, <2>11, DecidingIsProgress DEF EndOfFunction, ScanEnds, scan
  <2>12. CASE TooSmall
    BY <2>4, <2>12 DEF TooSmall, Active
  <2>13. CASE HasPrologue
    BY <1>1, <2>4, <2>13, DecidingIsProgress DEF HasPrologue, Active
  <2>14. CASE MoreBytes
    BY <1>1, <2>14, DecidingIsProgress DEF MoreBytes, scan
  <2>15. CASE KeepEpilogue
    BY <1>1, <2>4, <2>15, DecidingIsProgress DEF KeepEpilogue, Active
  <2>16. CASE DropCandidate
    BY <1>1, <2>2, <2>16, DecidingIsProgress DEF DropCandidate, Stale, Active
  <2>17. CASE Unsound
    BY <2>4, <2>17 DEF Unsound, Active
  <2>18. CASE Accept
    BY <2>3, <2>18 DEF Accept, Active
  <2>19. QED
    BY <1>1, <2>5, <2>6, <2>7, <2>8, <2>9, <2>10, <2>11, <2>12, <2>13, <2>14, <2>15,
       <2>16, <2>17, <2>18 DEF Step
<1>2. IInv => EveryStepIsProgress
  BY <1>1 DEF EveryStepIsProgress
<1>3. IInv => Remaining \in Nat
  BY DecisionsAreFew
<1>4. QED
  BY <1>2, <1>3, IInvHolds, PTL DEF Spec

=============================================================================
