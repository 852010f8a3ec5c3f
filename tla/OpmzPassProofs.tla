--------------------------- MODULE OpmzPassProofs ---------------------------
(* What holds of the passes of xx_opmz for every piece, every table and     *)
(* every way of merging trees.                                             *)
EXTENDS OpmzRefinement, TLAPS

-----------------------------------------------------------------------------
(* The inductive invariant.                                                *)

\* Until lv1 ends, an instruction is the recorded one or a pop that lv1 hid.
Renamed ==
    /\ prog \in Programs
    /\ pc \in {"creg", "tree"} => \A i \in 1..N : ~Hidden(i)
    /\ pc \in {"creg", "tree", "lv1"} =>
         \A i \in 1..N : inst[i] = IF Hidden(i) THEN AsFlagPop(prog[i]) ELSE prog[i]

\* An analysis runs on the instructions from low to its root, which has its
\* mark, and none of those it has passed is a boundary.
Passed(b) == tree[b] # NoTree /\ flag[b] # -1
Confined ==
    Running => /\ n <= root
               /\ flag[root] = TMP
               /\ \A b \in low+1..root : Passed(b)
               /\ pc = "check" => Passed(low)

IInv == TypeOK /\ MarksConfined /\ BoundariesHold /\ Renamed /\ Confined

-----------------------------------------------------------------------------
(* Each action preserves the invariant.                                    *)

USE DEF Running, Hidden, data, ctl, hist

LEMMA FlagFacts ==
    /\ Levels = {20, 30, 40} /\ LV4 = 40 /\ LV2 = 20 /\ TMP = 1 /\ LV1 = 10
    /\ Flags = {-1, 0, 1, 10, 20, 30, 40}
BY DEF Levels, Flags, TMP, LV1, LV2, LV3, LV4

LEMMA InitInv == Init => IInv
<1> SUFFICES ASSUME Init PROVE IInv
  OBVIOUS
<1> USE NAssumption, ProgramsAssumption, FlagFacts DEF Init
<1>1. TypeOK
  BY DEF TypeOK
<1>2. \A i \in 1..N : flag[i] \in {-1, 0}
  OBVIOUS
<1>3. MarksConfined /\ BoundariesHold
  BY <1>2 DEF MarksConfined, BoundariesHold
<1>4. Renamed
  BY <1>2 DEF Renamed
<1>5. Confined
  BY DEF Confined
<1> QED
  BY <1>1, <1>3, <1>4, <1>5 DEF IInv

LEMMA CregInv == IInv /\ Creg => IInv'
<1> SUFFICES ASSUME IInv, Creg PROVE IInv'
  OBVIOUS
<1> USE DEF IInv, Creg
<1>1. TypeOK'
  BY DEF TypeOK
<1>2. MarksConfined' /\ BoundariesHold'
  BY DEF MarksConfined, BoundariesHold
<1>3. Renamed' /\ Confined'
  BY DEF Renamed, Confined
<1> QED
  BY <1>1, <1>2, <1>3

LEMMA TreeInstInv == IInv /\ TreeInst => IInv'
<1> SUFFICES ASSUME IInv, TreeInst PROVE IInv'
  OBVIOUS
<1> USE DEF IInv, TreeInst
<1>1. TypeOK'
  BY DEF TypeOK
<1>2. MarksConfined'
  BY DEF MarksConfined
<1>3. BoundariesHold'
  BY DEF BoundariesHold, Renamed
<1>4. Renamed' /\ Confined'
  BY DEF Renamed, Confined
<1> QED
  BY <1>1, <1>2, <1>3, <1>4

\* lv1 hides pops that are still listed: a pop it hid before was renamed.
LEMMA HideFlagPopIsNew ==
    ASSUME IInv, pc = "lv1", NEW k \in 1..N, NEW m \in FlagPops(k)
    PROVE  m \in 1..N /\ k < m /\ ~Hidden(m) /\ inst[m] = prog[m]
<1>1. n \in Int /\ m \in k+1..N /\ FlagSize(inst[m]) # 0
  BY DEF FlagPops, IInv, TypeOK
<1>2. m \in 1..N /\ k < m
  BY <1>1, NAssumption
<1>3. ~Hidden(m)
  BY <1>1, <1>2, RenameAssumption DEF IInv, Renamed
<1> QED
  BY <1>2, <1>3 DEF IInv, Renamed

LEMMA HideFlagPopInv == IInv /\ HideFlagPop => IInv'
<1> SUFFICES ASSUME IInv, HideFlagPop PROVE IInv'
  OBVIOUS
<1> USE FlagFacts, NAssumption DEF IInv
<1>1. n \in 1..N+1 /\ pc = "lv1"
  BY DEF HideFlagPop, TypeOK
<1>2. PICK k \in Pushers : \E m \in FlagPops(k) \ Unknowns(k) :
         /\ flag' = [flag EXCEPT ![m] = LV2]
         /\ inst' = [inst EXCEPT ![m] = AsFlagPop(inst[m])]
         /\ owner' = [owner EXCEPT ![m] = k]
         /\ n' = k + 1
  BY DEF HideFlagPop
<1>3. PICK m \in FlagPops(k) \ Unknowns(k) :
         /\ flag' = [flag EXCEPT ![m] = LV2]
         /\ inst' = [inst EXCEPT ![m] = AsFlagPop(inst[m])]
         /\ owner' = [owner EXCEPT ![m] = k]
         /\ n' = k + 1
  BY <1>2
<1>4. k \in 1..N /\ k >= n
  BY <1>1 DEF Pushers
<1>5. m \in 1..N /\ k < m /\ ~Hidden(m) /\ inst[m] = prog[m]
  BY <1>1, <1>4, HideFlagPopIsNew
<1>6. UNCHANGED <<prog, tree, base, line, creg, pc, lv, root, low, work, out, ignored>>
  BY DEF HideFlagPop
<1>7. TypeOK'
  BY <1>1, <1>3, <1>4, <1>5, <1>6 DEF TypeOK
<1>8. MarksConfined'
  BY <1>1, <1>3, <1>5, <1>6 DEF MarksConfined, TypeOK
<1>9. BoundariesHold'
  <2> SUFFICES ASSUME NEW i \in 1..N, Hidden(i)', owner'[i] > i,
                      NEW b \in i..owner'[i]
               PROVE  tree'[b] # NoTree /\ flag'[b] # -1
    BY DEF BoundariesHold
  <2>1. i # m
    BY <1>3, <1>4, <1>5 DEF TypeOK
  <2>2. tree[b] # NoTree /\ flag[b] # -1
    BY <2>1, <1>3, <1>5 DEF BoundariesHold, TypeOK
  <2> QED
    BY <2>1, <2>2, <1>3, <1>5, <1>6 DEF TypeOK
<1>10. Renamed'
  BY <1>1, <1>3, <1>5, <1>6 DEF Renamed, TypeOK
<1>11. Confined'
  BY <1>1, <1>6 DEF Confined
<1> QED
  BY <1>7, <1>8, <1>9, <1>10, <1>11

\* The steps of lv1 that change no instruction, and the end of a level.
LEMMA NoFlagPopInv == IInv /\ NoFlagPop => IInv'
<1> SUFFICES ASSUME IInv, NoFlagPop PROVE IInv'
  OBVIOUS
<1> USE NAssumption DEF IInv, NoFlagPop
<1>1. n' \in 1..N+1
  BY DEF Pushers, TypeOK
<1>2. TypeOK'
  BY <1>1 DEF TypeOK
<1>3. MarksConfined' /\ BoundariesHold'
  BY DEF MarksConfined, BoundariesHold
<1>4. Renamed' /\ Confined'
  BY DEF Renamed, Confined
<1> QED
  BY <1>2, <1>3, <1>4

LEMMA Lv1EndsInv == IInv /\ (Lv1LookupFails \/ Lv1Done) => IInv'
<1> SUFFICES ASSUME IInv, Lv1LookupFails \/ Lv1Done PROVE IInv'
  OBVIOUS
<1> USE NAssumption DEF IInv, Lv1LookupFails, Lv1Done
<1>1. TypeOK'
  <2>1. CASE Lv1LookupFails
    BY <2>1 DEF TypeOK
  <2>2. CASE Lv1Done
    BY <2>2 DEF TypeOK
  <2> QED
    BY <2>1, <2>2
<1>2. MarksConfined' /\ BoundariesHold'
  BY DEF MarksConfined, BoundariesHold
<1>3. Renamed' /\ Confined'
  BY DEF Renamed, Confined
<1> QED
  BY <1>1, <1>2, <1>3

LEMMA LvDoneInv == IInv /\ LvDone => IInv'
<1> SUFFICES ASSUME IInv, LvDone PROVE IInv'
  OBVIOUS
<1> USE NAssumption, FlagFacts DEF IInv, LvDone
<1>1. TypeOK'
  BY DEF TypeOK
<1>2. MarksConfined' /\ BoundariesHold'
  BY DEF MarksConfined, BoundariesHold
<1>3. Renamed' /\ Confined'
  BY DEF Renamed, Confined
<1> QED
  BY <1>1, <1>2, <1>3

LEMMA StartInv == IInv /\ Start => IInv'
<1> SUFFICES ASSUME IInv, Start PROVE IInv'
  OBVIOUS
<1> USE NAssumption, FlagFacts DEF IInv
<1>1. PICK r \in Roots :
         /\ root' = r /\ low' = r - 1 /\ work' = tree[r]
         /\ IF tree[r] = NoTree
            THEN pc' = "failed" /\ UNCHANGED flag
            ELSE pc' = "merge" /\ flag' = [flag EXCEPT ![r] = TMP]
  BY DEF Start
<1>2. r \in 1..N /\ n <= r /\ ~Hidden(r)
  BY DEF Roots, TypeOK
<1>3. pc = "lv" /\ UNCHANGED <<prog, data, creg, lv, n, out, hist>>
  BY DEF Start
<1>4. \A i \in 1..N : flag[i] # TMP
  BY <1>3 DEF MarksConfined
<1>5. TypeOK'
  <2>1. root' \in 1..N /\ low' \in 0..N /\ low' < root'
    BY <1>1, <1>2
  <2>2. flag' \in [1..N -> Flags] /\ pc' \in {"failed", "merge"}
    BY <1>1, <1>2 DEF TypeOK
  <2> QED
    BY <2>1, <2>2, <1>3 DEF TypeOK
<1>6. MarksConfined'
  BY <1>1, <1>2, <1>3, <1>4 DEF MarksConfined, TypeOK
<1>7. BoundariesHold'
  <2> SUFFICES ASSUME NEW i \in 1..N, Hidden(i)', owner'[i] > i,
                      NEW b \in i..owner'[i]
               PROVE  tree'[b] # NoTree /\ flag'[b] # -1
    BY DEF BoundariesHold
  <2>1. Hidden(i) /\ owner[i] > i /\ b \in i..owner[i]
    BY <1>1, <1>2, <1>3 DEF TypeOK
  <2>2. tree[b] # NoTree /\ flag[b] # -1 /\ b \in 1..N
    BY <2>1 DEF BoundariesHold, TypeOK
  <2> QED
    BY <2>2, <1>1, <1>2, <1>3 DEF TypeOK
<1>8. Renamed'
  BY <1>1, <1>3 DEF Renamed
<1>9. Confined'
  <2>1. CASE tree[r] = NoTree
    BY <2>1, <1>1 DEF Confined
  <2>2. CASE tree[r] # NoTree
    BY <2>2, <1>1, <1>2, <1>3 DEF Confined, Passed, TypeOK
  <2> QED
    BY <2>1, <2>2
<1> QED
  BY <1>5, <1>6, <1>7, <1>8, <1>9

LEMMA SkipHiddenInv == IInv /\ SkipHidden => IInv'
<1> SUFFICES ASSUME IInv, SkipHidden PROVE IInv'
  OBVIOUS
<1> USE NAssumption, FlagFacts DEF IInv
<1>1. low \in 1..N /\ low < root /\ low' = low - 1 /\ pc = "merge" /\ Passed(low)
  BY DEF SkipHidden, Stops, TypeOK, Passed
<1>2. UNCHANGED <<prog, flag, data, creg, pc, lv, n, root, work, out, hist>>
  BY DEF SkipHidden
<1>3. TypeOK'
  BY <1>1, <1>2 DEF TypeOK
<1>4. MarksConfined'
  BY <1>1, <1>2 DEF MarksConfined, TypeOK, SkipHidden
<1>5. BoundariesHold' /\ Renamed'
  BY <1>1, <1>2 DEF BoundariesHold, Renamed
<1>6. Confined'
  <2>1. \A b \in low..root : Passed(b)
    BY <1>1 DEF Confined, TypeOK
  <2> QED
    BY <2>1, <1>1, <1>2 DEF Confined, Passed, TypeOK
<1> QED
  BY <1>3, <1>4, <1>5, <1>6

LEMMA MergeStepInv == IInv /\ MergeStep => IInv'
<1> SUFFICES ASSUME IInv, MergeStep PROVE IInv'
  OBVIOUS
<1> USE NAssumption, FlagFacts DEF IInv
<1>1. low \in 1..N /\ low < root /\ root \in 1..N /\ pc = "merge" /\ Passed(low) /\ ~Hidden(low)
  BY DEF MergeStep, Stops, TypeOK, Passed
<1>2. UNCHANGED <<prog, base, line, creg, lv, n, root, out, hist>>
  BY DEF MergeStep
<1>3. PICK x \in {0, 1, 10} : flag' = [flag EXCEPT ![low] = x]
  BY DEF MergeStep
<1>4. \/ pc' = "check" /\ low' = low
      \/ pc' = "merge" /\ low' = low - 1 /\ flag'[low] = 0
  BY <1>1 DEF MergeStep, TypeOK
<1>5. DOMAIN inst' = 1..N /\ DOMAIN tree' = 1..N
  BY DEF MergeStep, TypeOK
<1>6. \A b \in 1..N : tree[b] # NoTree => tree'[b] # NoTree
  BY DEF MergeStep, TypeOK
<1>7. TypeOK'
  <2>1. flag' \in [1..N -> Flags]
    BY <1>1, <1>3 DEF TypeOK
  <2> QED
    BY <2>1, <1>1, <1>2, <1>4, <1>5 DEF TypeOK
<1>8. MarksConfined'
  BY <1>1, <1>2, <1>3, <1>4 DEF MarksConfined, TypeOK
<1>9. BoundariesHold'
  <2> SUFFICES ASSUME NEW i \in 1..N, Hidden(i)', owner'[i] > i,
                      NEW b \in i..owner'[i]
               PROVE  tree'[b] # NoTree /\ flag'[b] # -1
    BY DEF BoundariesHold
  <2>1. Hidden(i) /\ owner[i] > i /\ b \in i..owner[i]
    BY <1>1, <1>2, <1>3 DEF TypeOK
  <2>2. tree[b] # NoTree /\ flag[b] # -1 /\ b \in 1..N
    BY <2>1 DEF BoundariesHold, TypeOK
  <2> QED
    BY <2>2, <1>1, <1>3, <1>6 DEF TypeOK
<1>10. Renamed'
  BY <1>1, <1>2, <1>4 DEF Renamed
<1>11. Confined'
  <2>1. n <= root /\ flag[root] = TMP /\ \A b \in low..root : Passed(b)
    BY <1>1 DEF Confined, TypeOK
  <2>2. \A b \in low..root : tree'[b] # NoTree /\ flag'[b] # -1
    BY <2>1, <1>1, <1>3, <1>6 DEF Passed, TypeOK
  <2>3. flag'[root] = TMP
    BY <2>1, <1>1, <1>3 DEF TypeOK
  <2> QED
    BY <2>1, <2>2, <2>3, <1>1, <1>2, <1>4 DEF Confined, Passed, TypeOK
<1> QED
  BY <1>7, <1>8, <1>9, <1>10, <1>11

LEMMA IncompleteInv == IInv /\ Incomplete => IInv'
<1> SUFFICES ASSUME IInv, Incomplete PROVE IInv'
  OBVIOUS
<1> USE NAssumption, FlagFacts DEF IInv
<1>1. low \in 1..N /\ low < root /\ low' = low - 1 /\ pc = "check" /\ pc' = "merge"
  BY DEF Incomplete, TypeOK
<1>2. UNCHANGED <<prog, flag, data, creg, lv, n, root, work, out, hist>>
  BY DEF Incomplete
<1>3. TypeOK'
  BY <1>1, <1>2 DEF TypeOK
<1>4. MarksConfined'
  BY <1>1, <1>2 DEF MarksConfined, TypeOK
<1>5. BoundariesHold' /\ Renamed'
  BY <1>1, <1>2 DEF BoundariesHold, Renamed
<1>6. Confined'
  <2>1. \A b \in low..root : Passed(b)
    BY <1>1 DEF Confined, TypeOK
  <2> QED
    BY <2>1, <1>1, <1>2 DEF Confined, Passed, TypeOK
<1> QED
  BY <1>3, <1>4, <1>5, <1>6

LEMMA CrashInv == IInv /\ Crash => IInv'
<1> SUFFICES ASSUME IInv, Crash PROVE IInv'
  OBVIOUS
<1> USE NAssumption DEF IInv, Crash
<1>1. TypeOK'
  BY DEF TypeOK
<1>2. MarksConfined' /\ BoundariesHold'
  BY DEF MarksConfined, BoundariesHold
<1>3. Renamed' /\ Confined'
  BY DEF Renamed, Confined
<1> QED
  BY <1>1, <1>2, <1>3

LEMMA LogInv == IInv /\ Log => IInv'
<1> SUFFICES ASSUME IInv, Log PROVE IInv'
  OBVIOUS
<1> USE NAssumption DEF IInv, Log
<1>1. TypeOK'
  BY DEF TypeOK
<1>2. MarksConfined' /\ BoundariesHold'
  BY DEF MarksConfined, BoundariesHold
<1>3. Renamed' /\ Confined'
  BY DEF Renamed, Confined
<1> QED
  BY <1>1, <1>2, <1>3

-----------------------------------------------------------------------------
(* The ends of an analysis.                                                *)

Ends == Exhausted \/ Unmatched \/ Ignore \/ Middle \/ Asm

\* However an analysis ends, a mark becomes the level, on account of the root,
\* or is taken back, and what had no mark stays as it is.
LEMMA EndsFacts ==
    ASSUME IInv, Ends
    PROVE  /\ Running /\ root \in 1..N /\ low \in 0..N
           /\ flag' \in [1..N -> Flags] /\ owner' \in [1..N -> 0..N]
           /\ \A i \in 1..N : flag[i] # TMP => flag'[i] = flag[i] /\ owner'[i] = owner[i]
           /\ \A i \in 1..N : flag[i] = TMP =>
                 \/ flag'[i] = 0
                 \/ flag'[i] = lv /\ owner'[i] = root /\ pc = "check"
           /\ n' = root + 1 /\ pc' = "lv" /\ root' = 0 /\ low' = 0
           /\ UNCHANGED <<prog, creg, lv, out>>
<1> USE FlagFacts, NAssumption DEF IInv
<1>1. Running /\ root \in 1..N /\ low \in 0..N
  <2>1. pc = "merge" \/ pc = "check"
    BY DEF Ends, Exhausted, Unmatched, Ignore, Middle, Asm
  <2> QED
    BY <2>1 DEF TypeOK
<1>2. lv \in {20, 30, 40} /\ flag[root] = TMP /\ flag \in [1..N -> Flags]
      /\ owner \in [1..N -> 0..N] /\ \A i \in 1..N : flag[i] = TMP => i <= root
  BY <1>1 DEF TypeOK, Confined, MarksConfined
<1>3. CASE Finish(flag, FALSE)
  BY <1>1, <1>2, <1>3 DEF Finish
<1>4. CASE pc = "check" /\ Finish(flag, TRUE)
  BY <1>1, <1>2, <1>4 DEF Finish
<1>5. CASE pc = "check" /\ Finish([flag EXCEPT ![root] = 0], TRUE)
  BY <1>1, <1>2, <1>5 DEF Finish
<1> QED
  BY <1>3, <1>4, <1>5 DEF Ends, Exhausted, Unmatched, Ignore, Middle, Asm

LEMMA EndsKeepTrees ==
    ASSUME IInv, Ends
    PROVE  /\ DOMAIN inst' = 1..N /\ DOMAIN line' = 1..N /\ DOMAIN tree' = 1..N
           /\ ignored' \subseteq 1..N
           /\ \A b \in 1..N : tree[b] # NoTree => tree'[b] # NoTree
<1>1. root \in 1..N
  BY EndsFacts
<1>2. CASE Exhausted \/ Unmatched
  BY <1>2 DEF Exhausted, Unmatched, IInv, TypeOK
<1>3. CASE Ignore
  BY <1>1, <1>3 DEF Ignore, IInv, TypeOK
<1>4. CASE Middle
  <2>1. PICK off \in StartOffsets :
          LET r == Restore(work, lv, creg)
          IN  /\ inst' = [inst EXCEPT ![root].idef = r.idef, ![root].var = r.var]
              /\ tree' = [tree EXCEPT ![root] = Gen(inst'[root], off)]
              /\ tree'[root] # NoTree
    BY <1>4 DEF Middle
  <2>2. DOMAIN inst' = 1..N
    BY <2>1 DEF IInv, TypeOK
  <2>3. DOMAIN tree' = 1..N /\ \A b \in 1..N : tree[b] # NoTree => tree'[b] # NoTree
    BY <2>1, <1>1 DEF IInv, TypeOK
  <2> QED
    BY <2>2, <2>3, <1>4 DEF Middle, IInv, TypeOK
<1>5. CASE Asm
  BY <1>1, <1>5 DEF Asm, IInv, TypeOK
<1> QED
  BY <1>2, <1>3, <1>4, <1>5 DEF Ends

LEMMA EndsInv == IInv /\ Ends => IInv'
<1> SUFFICES ASSUME IInv, Ends PROVE IInv'
  OBVIOUS
<1> USE FlagFacts, NAssumption
<1>a. /\ Running /\ root \in 1..N /\ low \in 0..N
      /\ flag' \in [1..N -> Flags] /\ owner' \in [1..N -> 0..N]
      /\ \A i \in 1..N : flag[i] # TMP => flag'[i] = flag[i] /\ owner'[i] = owner[i]
      /\ \A i \in 1..N : flag[i] = TMP =>
            \/ flag'[i] = 0
            \/ flag'[i] = lv /\ owner'[i] = root /\ pc = "check"
      /\ n' = root + 1 /\ pc' = "lv" /\ root' = 0 /\ low' = 0
      /\ UNCHANGED <<prog, creg, lv, out>>
  BY EndsFacts
<1>b. /\ DOMAIN inst' = 1..N /\ DOMAIN line' = 1..N /\ DOMAIN tree' = 1..N
      /\ ignored' \subseteq 1..N
      /\ \A b \in 1..N : tree[b] # NoTree => tree'[b] # NoTree
  BY EndsKeepTrees
<1>c. lv \in {20, 30, 40} /\ flag \in [1..N -> Flags]
  BY DEF IInv, TypeOK
<1>1. TypeOK'
  BY <1>a, <1>b, <1>c DEF TypeOK
<1>2. MarksConfined'
  BY <1>a, <1>c DEF MarksConfined
<1>3. BoundariesHold'
  <2> SUFFICES ASSUME NEW i \in 1..N, Hidden(i)', owner'[i] > i,
                      NEW b \in i..owner'[i]
               PROVE  tree'[b] # NoTree /\ flag'[b] # -1
    BY DEF BoundariesHold
  <2>1. b \in 1..N
    BY <1>a
  <2>2. tree[b] # NoTree /\ flag[b] # -1
    <3>1. CASE flag[i] = TMP
      <4>1. pc = "check" /\ owner'[i] = root /\ low <= i
        BY <3>1, <1>a, <1>c DEF IInv, MarksConfined
      <4>2. \A x \in low..root : Passed(x)
        BY <4>1, <1>a DEF IInv, Confined
      <4> QED
        BY <4>1, <4>2, <1>a DEF Passed
    <3>2. CASE flag[i] # TMP
      BY <3>2, <1>a DEF IInv, BoundariesHold
    <3> QED
      BY <3>1, <3>2
  <2>3. flag'[b] = flag[b] \/ flag'[b] \in {0, lv}
    BY <2>1, <1>a
  <2> QED
    BY <2>1, <2>2, <2>3, <1>b, <1>c
<1>4. Renamed'
  BY <1>a DEF IInv, Renamed
<1>5. Confined'
  BY <1>a DEF Confined
<1> QED
  BY <1>1, <1>2, <1>3, <1>4, <1>5 DEF IInv

-----------------------------------------------------------------------------
LEMMA StutterInv == IInv /\ UNCHANGED vars => IInv'
BY DEF IInv, vars, TypeOK, MarksConfined, BoundariesHold, Renamed, Confined, Passed

LEMMA StepInv == IInv /\ [Next]_vars => IInv'
BY CregInv, TreeInstInv, HideFlagPopInv, NoFlagPopInv, Lv1EndsInv, StartInv, LvDoneInv,
   SkipHiddenInv, MergeStepInv, IncompleteInv, CrashInv, EndsInv, LogInv, StutterInv
   DEF Next, Lv1, StartLoop, Ends, Terminating

THEOREM Invariant == Spec => []IInv
BY InitInv, StepInv, PTL DEF Spec

\* The control state, the flags and the owners have their types.
THEOREM TypeCorrect == Spec => []TypeOK
BY Invariant, PTL DEF IInv

\* Marks of an analysis stay between its lowest instruction and its root,
\* and none is left when it ends.
THEOREM MarksAreConfined == Spec => []MarksConfined
BY Invariant, PTL DEF IInv

\* Whatever the trees and the tables are, no restoration consumes an
\* instruction across a boundary of the piece.
THEOREM BoundariesAlwaysHold == Spec => []BoundariesHold
BY Invariant, PTL DEF IInv

-----------------------------------------------------------------------------
(* What left the listing stays out of it.                                  *)

KeptAt(i) == /\ flag'[i] = flag[i] /\ owner'[i] = owner[i]
             /\ line'[i] = line[i] /\ inst'[i] = inst[i] /\ tree'[i] = tree[i]

LEMMA HiddenIsKept ==
    ASSUME IInv, [Next]_vars, NEW i \in 1..N, Hidden(i)
    PROVE  KeptAt(i)
<1> USE FlagFacts, NAssumption DEF KeptAt
<1>a. flag[i] # TMP /\ flag \in [1..N -> Flags] /\ owner \in [1..N -> 0..N]
      /\ DOMAIN inst = 1..N /\ DOMAIN line = 1..N /\ DOMAIN tree = 1..N
  BY DEF IInv, TypeOK
<1>1. CASE Creg \/ NoFlagPop \/ Lv1LookupFails \/ Lv1Done \/ LvDone \/ SkipHidden
           \/ Incomplete \/ Crash \/ Log \/ UNCHANGED vars
  BY <1>1 DEF Creg, NoFlagPop, Lv1LookupFails, Lv1Done, LvDone, SkipHidden, Incomplete,
              Crash, Log, vars
<1>2. CASE TreeInst
  BY <1>2 DEF TreeInst, IInv, Renamed
<1>3. CASE HideFlagPop
  <2>1. PICK k \in Pushers : \E m \in FlagPops(k) :
           /\ flag' = [flag EXCEPT ![m] = LV2]
           /\ inst' = [inst EXCEPT ![m] = AsFlagPop(inst[m])]
           /\ owner' = [owner EXCEPT ![m] = k]
    BY <1>3 DEF HideFlagPop
  <2>2. PICK m \in FlagPops(k) :
           /\ flag' = [flag EXCEPT ![m] = LV2]
           /\ inst' = [inst EXCEPT ![m] = AsFlagPop(inst[m])]
           /\ owner' = [owner EXCEPT ![m] = k]
    BY <2>1
  <2>3. pc = "lv1" /\ k \in 1..N
    BY <1>3 DEF HideFlagPop, Pushers, IInv, TypeOK
  <2>4. ~Hidden(m)
    BY <2>3, HideFlagPopIsNew
  <2> QED
    BY <2>2, <2>4, <1>3, <1>a DEF HideFlagPop
<1>4. CASE Start
  <2>1. \E r \in Roots : ~Hidden(r) /\ (flag' = flag \/ flag' = [flag EXCEPT ![r] = TMP])
    BY <1>4 DEF Start, Roots
  <2> QED
    BY <2>1, <1>4, <1>a DEF Start
<1>5. CASE MergeStep
  <2>1. \E x \in {0, 1, 10} : flag' = [flag EXCEPT ![low] = x]
    BY <1>5 DEF MergeStep
  <2>2. ~Hidden(low)
    BY <1>5 DEF MergeStep
  <2> QED
    BY <2>1, <2>2, <1>5, <1>a DEF MergeStep
<1>6. CASE Ends
  <2>1. flag'[i] = flag[i] /\ owner'[i] = owner[i] /\ Running
    BY <1>6, <1>a, EndsFacts
  <2>2. i # root
    BY <2>1, <1>a DEF IInv, Confined
  <2>3. line'[i] = line[i] /\ inst'[i] = inst[i] /\ tree'[i] = tree[i]
    BY <2>2, <1>6, <1>a DEF Ends, Exhausted, Unmatched, Ignore, Middle, Asm
  <2> QED
    BY <2>1, <2>3
<1> QED
  BY <1>1, <1>2, <1>3, <1>4, <1>5, <1>6 DEF Next, Lv1, StartLoop, Ends, Terminating

LEMMA HiddenStep ==
    IInv /\ [Next]_vars =>
      [\A i \in 1..N : Hidden(i) =>
         /\ flag'[i] = flag[i] /\ owner'[i] = owner[i]
         /\ line'[i] = line[i] /\ inst'[i] = inst[i] /\ tree'[i] = tree[i]]_vars
BY HiddenIsKept DEF KeptAt

\* An instruction that is no longer listed keeps its mark, owner, line,
\* definition and tree for good.
THEOREM FinalityOfHidden == Spec => HiddenIsFinal
BY Invariant, HiddenStep, PTL DEF Spec, HiddenIsFinal

-----------------------------------------------------------------------------
(* Where what left the listing went: an invariant on top of IInv.           *)

\* An instruction that is listed is the recorded one or was rewritten.
MadeUpAt(i) == inst[i].idef \in MadeUp
Rewrites ==
    \A i \in 1..N : ~Hidden(i) => /\ "idef" \in DOMAIN inst[i]
                                  /\ inst[i] = prog[i] \/ MadeUpAt(i)

\* An analysis never starts at a definition that the optimizer made up.
FreshRoot == Running => ~MadeUpAt(root)

\* The owner of an instruction pushed the flags that it took, or restored it
\* for good, or became a middle instruction and is never analysed again.
Restored(k) == Hidden(k) /\ (line[k] # NoLine \/ k \in ignored)
Accounts(k, i) ==
    \/ k < i /\ Rflag(prog[k])
    \/ k >= i /\ (Restored(k) \/ (MadeUpAt(k) /\ k # i))
Accounted ==
    \A i \in 1..N : /\ Hidden(i) => owner[i] # 0
                    /\ owner[i] # 0 => Accounts(owner[i], i)

AInv == Rewrites /\ FreshRoot /\ Accounted /\ LinesCoverOwned

LEMMA AInit == Init => AInv
<1> SUFFICES ASSUME Init PROVE AInv
  OBVIOUS
<1> USE NAssumption, ProgramsAssumption, FlagFacts DEF Init
<1>1. Rewrites /\ FreshRoot
  BY DEF Rewrites, FreshRoot
<1>2. \A i \in 1..N : owner[i] = 0 /\ line[i] = NoLine /\ flag[i] \in {-1, 0}
  OBVIOUS
<1>3. Accounted /\ LinesCoverOwned
  BY <1>2 DEF Accounted, LinesCoverOwned
<1> QED
  BY <1>1, <1>3 DEF AInv

\* The arrays stay as they are and no analysis begins.
LEMMA QuietAInv ==
    ASSUME AInv, UNCHANGED <<prog, inst, line, flag, owner, ignored>>,
           Running' => Running /\ root' = root
    PROVE  AInv'
BY DEF AInv, Rewrites, FreshRoot, Accounted, Accounts, Restored, MadeUpAt, LinesCoverOwned

Quiet == Creg \/ TreeInst \/ NoFlagPop \/ Lv1LookupFails \/ Lv1Done \/ LvDone \/ SkipHidden
         \/ Incomplete \/ Crash \/ Log \/ UNCHANGED vars

LEMMA QuietActionsAInv == AInv /\ Quiet => AInv'
<1> SUFFICES ASSUME AInv, Quiet PROVE AInv'
  OBVIOUS
<1>1. UNCHANGED <<prog, inst, line, flag, owner, ignored>>
  BY DEF Quiet, Creg, TreeInst, NoFlagPop, Lv1LookupFails, Lv1Done, LvDone, SkipHidden,
         Incomplete, Crash, Log, vars
<1>2. Running' => Running /\ root' = root
  BY DEF Quiet, Creg, TreeInst, NoFlagPop, Lv1LookupFails, Lv1Done, LvDone, SkipHidden,
         Incomplete, Crash, Log, vars
<1> QED
  BY <1>1, <1>2, QuietAInv

\* The tables never make up what was recorded, nor analyse what they made up.
LEMMA RecordedFacts ==
    ASSUME IInv, NEW i \in 1..N
    PROVE  /\ prog[i].idef \notin MadeUp
           /\ ~Rflag(AsFlagPop(prog[i])) /\ FlagSize(AsFlagPop(prog[i])) = 0
BY RenameAssumption, MadeUpAssumption DEF IInv, Renamed

LEMMA HideFlagPopAInv == IInv /\ AInv /\ HideFlagPop => AInv'
<1> SUFFICES ASSUME IInv, AInv, HideFlagPop PROVE AInv'
  OBVIOUS
<1> USE NAssumption, FlagFacts
<1>1. n \in 1..N+1 /\ pc = "lv1"
  BY DEF HideFlagPop, IInv, TypeOK
<1>2. PICK k \in Pushers : \E m \in FlagPops(k) :
         /\ flag' = [flag EXCEPT ![m] = LV2]
         /\ inst' = [inst EXCEPT ![m] = AsFlagPop(inst[m])]
         /\ owner' = [owner EXCEPT ![m] = k]
  BY DEF HideFlagPop
<1>3. PICK m \in FlagPops(k) :
         /\ flag' = [flag EXCEPT ![m] = LV2]
         /\ inst' = [inst EXCEPT ![m] = AsFlagPop(inst[m])]
         /\ owner' = [owner EXCEPT ![m] = k]
  BY <1>2
<1>4. k \in 1..N /\ Rflag(inst[k])
  BY <1>1 DEF Pushers
<1>5. m \in 1..N /\ k < m /\ ~Hidden(m) /\ inst[m] = prog[m]
  BY <1>1, <1>4, HideFlagPopIsNew
<1>6. UNCHANGED <<prog, line, pc, root, ignored>>
  BY DEF HideFlagPop
<1>7. Rflag(prog[k])
  BY <1>1, <1>4, RecordedFacts DEF IInv, Renamed
<1>a. flag \in [1..N -> Flags] /\ owner \in [1..N -> 0..N] /\ DOMAIN inst = 1..N
  BY DEF IInv, TypeOK
<1>8. /\ Hidden(m)' /\ owner'[m] = k /\ inst'[m] = AsFlagPop(prog[m])
      /\ \A i \in 1..N : i # m => flag'[i] = flag[i] /\ owner'[i] = owner[i] /\ inst'[i] = inst[i]
  BY <1>3, <1>5, <1>a
<1>9. \A i \in 1..N : MadeUpAt(i) => i # m /\ MadeUpAt(i)'
  BY <1>5, <1>8, RecordedFacts DEF MadeUpAt
<1>10. Rewrites'
  BY <1>5, <1>6, <1>8, <1>9 DEF AInv, Rewrites
<1>11. FreshRoot'
  BY <1>1, <1>6 DEF FreshRoot
<1>12. \A i \in 1..N : Hidden(i) => Hidden(i)'
  BY <1>8
<1>13. Accounted'
  <2> SUFFICES ASSUME NEW i \in 1..N, i # m
               PROVE  /\ Hidden(i)' => owner'[i] # 0
                      /\ owner'[i] # 0 => Accounts(owner[i], i)'
    BY <1>4, <1>5, <1>6, <1>7, <1>8 DEF Accounted, Accounts
  <2>1. owner[i] # 0 => owner[i] \in 1..N /\ Accounts(owner[i], i)
    BY DEF AInv, Accounted, IInv, TypeOK
  <2>2. owner[i] # 0 => Accounts(owner[i], i)'
    BY <2>1, <1>6, <1>8, <1>9, <1>12 DEF Accounts, Restored
  <2>3. Hidden(i) => owner[i] # 0
    BY DEF AInv, Accounted
  <2> QED
    BY <2>2, <2>3, <1>8
<1>14. LinesCoverOwned'
  BY <1>5, <1>6, <1>8, <1>12 DEF AInv, LinesCoverOwned
<1> QED
  BY <1>10, <1>11, <1>13, <1>14 DEF AInv

LEMMA StartAInv == IInv /\ AInv /\ Start => AInv'
<1> SUFFICES ASSUME IInv, AInv, Start PROVE AInv'
  OBVIOUS
<1> USE NAssumption, FlagFacts
<1>1. PICK r \in Roots :
         /\ root' = r
         /\ IF tree[r] = NoTree
            THEN pc' = "failed" /\ UNCHANGED flag
            ELSE pc' = "merge" /\ flag' = [flag EXCEPT ![r] = TMP]
  BY DEF Start
<1>2. r \in 1..N /\ ~Hidden(r) /\ Analyze(inst[r].idef, lv) /\ lv \in Levels
  BY DEF Roots, IInv, TypeOK
<1>3. UNCHANGED <<prog, inst, line, owner, ignored>>
  BY DEF Start
<1>4. ~MadeUpAt(r)
  BY <1>2, MadeUpAssumption DEF MadeUpAt
<1>5. \A i \in 1..N : Hidden(i)' <=> Hidden(i)
  BY <1>1, <1>2 DEF IInv, TypeOK
<1>6. Rewrites' /\ Accounted' /\ LinesCoverOwned'
  <2>1. \A i \in 1..N : MadeUpAt(i)' <=> MadeUpAt(i)
    BY <1>3 DEF MadeUpAt
  <2>2. Rewrites'
    BY <2>1, <1>3, <1>5 DEF AInv, Rewrites
  <2>3. LinesCoverOwned'
    BY <1>3, <1>5 DEF AInv, LinesCoverOwned
  <2>4. Accounted'
    BY <2>1, <1>3, <1>5 DEF AInv, Accounted, Accounts, Restored, IInv, TypeOK
  <2> QED
    BY <2>2, <2>3, <2>4
<1>7. FreshRoot'
  BY <1>1, <1>3, <1>4 DEF FreshRoot, MadeUpAt
<1> QED
  BY <1>6, <1>7 DEF AInv

LEMMA MergeStepAInv == IInv /\ AInv /\ MergeStep => AInv'
<1> SUFFICES ASSUME IInv, AInv, MergeStep PROVE AInv'
  OBVIOUS
<1> USE NAssumption, FlagFacts
<1>1. low \in 1..N /\ low < root /\ root \in 1..N /\ ~Hidden(low)
  BY DEF MergeStep, Stops, IInv, TypeOK
<1>2. UNCHANGED <<prog, line, root, owner, ignored>> /\ Running
  BY DEF MergeStep
<1>3. PICK x \in {0, 1, 10} : flag' = [flag EXCEPT ![low] = x]
  BY DEF MergeStep
<1>a. flag \in [1..N -> Flags] /\ DOMAIN inst = 1..N
  BY DEF IInv, TypeOK
<1>4. \A i \in 1..N : Hidden(i)' <=> Hidden(i)
  BY <1>1, <1>3, <1>a
<1>5. inst' = inst \/ \E d \in MadeUp : inst' = [inst EXCEPT ![low].idef = d]
  BY DEF MergeStep
<1>6. /\ \A i \in 1..N : i # low => inst'[i] = inst[i]
      /\ "idef" \in DOMAIN inst'[low]
      /\ inst'[low] = inst[low] \/ inst'[low].idef \in MadeUp
  <2>1. "idef" \in DOMAIN inst[low]
    BY <1>1 DEF AInv, Rewrites
  <2>2. CASE inst' = inst
    BY <2>1, <2>2
  <2>3. ASSUME NEW d \in MadeUp, inst' = [inst EXCEPT ![low].idef = d]
        PROVE  /\ \A i \in 1..N : i # low => inst'[i] = inst[i]
               /\ "idef" \in DOMAIN inst'[low] /\ inst'[low].idef = d
    <3>1. /\ inst'[low] = [inst[low] EXCEPT !.idef = d]
          /\ \A i \in 1..N : i # low => inst'[i] = inst[i]
      BY <2>3, <1>1, <1>a
    <3> QED
      BY <3>1, <2>1
  <2> QED
    BY <1>5, <2>2, <2>3
<1>7. \A i \in 1..N : MadeUpAt(i) => MadeUpAt(i)'
  BY <1>6 DEF MadeUpAt
<1>8. Rewrites'
  BY <1>1, <1>2, <1>4, <1>6, <1>7 DEF AInv, Rewrites, MadeUpAt
<1>9. FreshRoot'
  BY <1>1, <1>2, <1>6 DEF AInv, FreshRoot, MadeUpAt
<1>10. Accounted'
  BY <1>2, <1>4, <1>7 DEF AInv, Accounted, Accounts, Restored, IInv, TypeOK
<1>11. LinesCoverOwned'
  BY <1>2, <1>4 DEF AInv, LinesCoverOwned
<1> QED
  BY <1>8, <1>9, <1>10, <1>11 DEF AInv

\* An analysis that ends well hides what it marked on account of its root:
\* the root has a line or is ignored, or it becomes a middle instruction.
LEMMA EndsRows ==
    ASSUME IInv, AInv, Ends, NEW k, k = root
    PROVE  /\ k \in 1..N /\ flag[k] = TMP
           /\ \A i \in 1..N : i # k => line'[i] = line[i] /\ inst'[i] = inst[i]
           /\ ignored \subseteq ignored'
           /\ inst'[k] = inst[k] \/ ("idef" \in DOMAIN inst'[k] /\ MadeUpAt(k)')
           /\ \/ line'[k] = line[k]
              \/ /\ line'[k] # NoLine /\ line'[k].first = low /\ line'[k].last = k
                 /\ flag'[k] = lv /\ pc = "check"
           /\ \A i \in 1..N : flag[i] = TMP => \/ owner'[i] = owner[i] /\ flag'[i] = 0
                                               \/ owner'[i] = k /\ flag'[i] = lv
           /\ \A i \in 1..N : flag[i] = TMP /\ Hidden(i)' =>
                \/ flag'[k] = lv /\ (line'[k] # NoLine \/ k \in ignored')
                \/ MadeUpAt(k)' /\ k # i
<1> USE FlagFacts, NAssumption DEF MadeUpAt
<1>1. /\ k \in 1..N /\ flag[k] = TMP /\ low \in 0..N
      /\ \A i \in 1..N : flag[i] = TMP => i <= root
      /\ flag \in [1..N -> Flags] /\ owner \in [1..N -> 0..N] /\ lv \in {20, 30, 40}
      /\ DOMAIN inst = 1..N /\ DOMAIN line = 1..N
  BY EndsFacts DEF IInv, TypeOK, Confined, MarksConfined
<1>2. "idef" \in DOMAIN inst[k]
  BY <1>1 DEF AInv, Rewrites
<1>3. CASE Exhausted \/ Unmatched
  <2>1. Finish(flag, FALSE) /\ UNCHANGED <<inst, line, ignored>>
    BY <1>3 DEF Exhausted, Unmatched
  <2> QED
    BY <2>1, <1>1 DEF Finish
<1>4. CASE Ignore
  <2>1. Finish(flag, TRUE) /\ UNCHANGED <<inst, line>> /\ ignored' = ignored \cup {root}
    BY <1>4 DEF Ignore
  <2> QED
    BY <2>1, <1>1 DEF Finish
<1>5. CASE Middle
  <2>1. /\ Finish([flag EXCEPT ![root] = 0], TRUE) /\ UNCHANGED <<line, ignored>>
        /\ \E d \in MadeUp : \E v : inst' = [inst EXCEPT ![root].idef = d, ![root].var = v]
    BY <1>5 DEF Middle
  <2>2. PICK d \in MadeUp : \E v : inst' = [inst EXCEPT ![k].idef = d, ![k].var = v]
    BY <2>1
  <2>3. PICK v : inst' = [inst EXCEPT ![k].idef = d, ![k].var = v]
    BY <2>2
  <2>4. /\ inst'[k] = [inst[k] EXCEPT !.idef = d, !.var = v]
        /\ \A i \in 1..N : i # k => inst'[i] = inst[i]
    BY <2>3, <1>1
  <2>5. "idef" \in DOMAIN inst'[k] /\ inst'[k].idef = d
    BY <2>4, <1>2
  <2> QED
    BY <2>1, <2>4, <2>5, <1>1 DEF Finish
<1>6. CASE Asm
  <2>1. /\ Finish(flag, TRUE) /\ UNCHANGED <<inst, ignored>> /\ pc = "check"
        /\ \E a : line' = [line EXCEPT ![root] = [first |-> low, last |-> root, asm |-> a]]
    BY <1>6 DEF Asm
  <2>2. line'[k] # NoLine /\ line'[k].first = low /\ line'[k].last = k
        /\ \A i \in 1..N : i # k => line'[i] = line[i]
    BY <2>1, <1>1 DEF NoLine, IInv, TypeOK
  <2> QED
    BY <2>1, <2>2, <1>1 DEF Finish
<1> QED
  BY <1>3, <1>4, <1>5, <1>6 DEF Ends

LEMMA EndsAInv == IInv /\ AInv /\ Ends => AInv'
<1> SUFFICES ASSUME IInv, AInv, Ends PROVE AInv'
  OBVIOUS
<1> USE FlagFacts, NAssumption
<1>1. PICK k : k = root
  OBVIOUS
<1>2. /\ k \in 1..N /\ flag[k] = TMP
      /\ \A i \in 1..N : i # k => line'[i] = line[i] /\ inst'[i] = inst[i]
      /\ ignored \subseteq ignored'
      /\ inst'[k] = inst[k] \/ ("idef" \in DOMAIN inst'[k] /\ MadeUpAt(k)')
      /\ \/ line'[k] = line[k]
         \/ /\ line'[k] # NoLine /\ line'[k].first = low /\ line'[k].last = k
            /\ flag'[k] = lv /\ pc = "check"
      /\ \A i \in 1..N : flag[i] = TMP => \/ owner'[i] = owner[i] /\ flag'[i] = 0
                                          \/ owner'[i] = k /\ flag'[i] = lv
      /\ \A i \in 1..N : flag[i] = TMP /\ Hidden(i)' =>
           \/ flag'[k] = lv /\ (line'[k] # NoLine \/ k \in ignored')
           \/ MadeUpAt(k)' /\ k # i
  BY <1>1, EndsRows
<1>3. /\ \A i \in 1..N : flag[i] # TMP => flag'[i] = flag[i] /\ owner'[i] = owner[i]
      /\ prog' = prog /\ pc' = "lv" /\ Running
  BY EndsFacts
<1>4. /\ flag \in [1..N -> Flags] /\ owner \in [1..N -> 0..N] /\ lv \in {20, 30, 40}
      /\ \A i \in 1..N : flag[i] = TMP => i <= k /\ i >= low
  BY <1>1, <1>3 DEF IInv, TypeOK, MarksConfined
<1>5. ~Hidden(k) /\ ~MadeUpAt(k)
  BY <1>1, <1>2, <1>3 DEF AInv, FreshRoot, MadeUpAt
<1>6. \A i \in 1..N : /\ Hidden(i) => Hidden(i)'
                      /\ MadeUpAt(i) => MadeUpAt(i)'
  BY <1>2, <1>3, <1>5 DEF MadeUpAt
<1>7. Rewrites'
  BY <1>2, <1>3, <1>6 DEF AInv, Rewrites, MadeUpAt
<1>8. FreshRoot'
  BY <1>3 DEF FreshRoot
<1>9. Accounted'
  <2> SUFFICES ASSUME NEW i \in 1..N
               PROVE  /\ Hidden(i)' => owner'[i] # 0
                      /\ owner'[i] # 0 => Accounts(owner[i], i)'
    BY DEF Accounted
  <2>1. owner[i] # 0 => owner[i] \in 1..N /\ Accounts(owner[i], i)
    BY <1>4 DEF AInv, Accounted
  <2>2. \A j \in 1..N : Restored(j) => Restored(j)'
    BY <1>2, <1>5, <1>6 DEF Restored
  <2>3. CASE owner'[i] = owner[i] /\ (Hidden(i)' => Hidden(i))
    <3>1. \A j \in 1..N : Accounts(j, i) => Accounts(j, i)'
      BY <2>2, <1>3, <1>6 DEF Accounts
    <3>2. Hidden(i) => owner[i] # 0
      BY DEF AInv, Accounted
    <3> QED
      BY <2>1, <2>3, <3>1, <3>2
  <2>4. CASE flag[i] = TMP /\ owner'[i] = k /\ flag'[i] = lv
    <3>1. Hidden(i)' /\ k >= i /\ k # 0
      BY <2>4, <1>2, <1>4
    <3>2. Accounts(k, i)'
      BY <3>1, <2>4, <1>2, <1>4 DEF Accounts, Restored
    <3> QED
      BY <3>1, <3>2, <2>4
  <2> QED
    BY <2>3, <2>4, <1>2, <1>3
<1>10. LinesCoverOwned'
  <2> SUFFICES ASSUME NEW j \in 1..N, line'[j] # NoLine
               PROVE  /\ Hidden(j)' /\ line'[j].last = j
                      /\ \A i \in 1..N : owner'[i] = j /\ i <= j => line'[j].first <= i
    BY DEF LinesCoverOwned
  <2>1. CASE j # k
    BY <2>1, <1>2, <1>3, <1>6 DEF AInv, LinesCoverOwned
  <2>2. CASE j = k
    <3>1. line[k] = NoLine
      BY <1>2, <1>5 DEF AInv, LinesCoverOwned
    <3>2. line'[k].first = low /\ line'[k].last = k /\ flag'[k] = lv
      BY <3>1, <2>2, <1>2
    <3>3. \A i \in 1..N : owner[i] = k => k < i
      BY <1>2, <1>5 DEF AInv, Accounted, Accounts, Restored
    <3> QED
      BY <3>2, <3>3, <2>2, <1>2, <1>3, <1>4
  <2> QED
    BY <2>1, <2>2
<1> QED
  BY <1>7, <1>8, <1>9, <1>10 DEF AInv

LEMMA AStep == IInv /\ AInv /\ [Next]_vars => AInv'
BY QuietActionsAInv, HideFlagPopAInv, StartAInv, MergeStepAInv, EndsAInv
   DEF Next, Lv1, StartLoop, Ends, Quiet, Terminating

\* What the optimizer does not list is accounted for, on every path.
THEOREM AccountInvariant == Spec => []AInv
BY AInit, AStep, Invariant, PTL DEF Spec

LEMMA NothingLostFromAInv == IInv /\ AInv => NothingLost
<1> SUFFICES ASSUME IInv, AInv, NEW i \in 1..N, Hidden(i)
             PROVE  /\ owner[i] # 0
                    /\ \/ owner[i] < i /\ Rflag(prog[owner[i]])
                       \/ /\ owner[i] >= i
                          /\ \/ line[owner[i]] # NoLine
                             \/ owner[i] \in ignored
                             \/ inst[owner[i]] # prog[owner[i]] /\ owner[i] # i
  BY DEF NothingLost
<1>1. owner[i] # 0 /\ owner[i] \in 1..N /\ Accounts(owner[i], i)
  BY DEF AInv, Accounted, IInv, TypeOK
<1>2. MadeUpAt(owner[i]) => inst[owner[i]] # prog[owner[i]]
  BY <1>1, RecordedFacts DEF MadeUpAt
<1> QED
  BY <1>1, <1>2 DEF Accounts, Restored

\* An instruction leaves the listing only because a flag push, a line, an
\* ignored root or a middle instruction accounts for it (xx_opmz_lv1 and
\* xx_opmz_start), for every piece and every table.
THEOREM NothingIsLost == Spec => []NothingLost
BY Invariant, AccountInvariant, NothingLostFromAInv, PTL

\* A line replaces an instruction that is hidden, and the range kept with it
\* covers all that it consumed, whatever was analysed before or after
\* (popmz_inst[] in xx_opmz_start).
THEOREM LinesAlwaysCover == Spec => []LinesCoverOwned
<1>1. AInv => LinesCoverOwned
  BY DEF AInv
<1> QED
  BY <1>1, AccountInvariant, PTL


-----------------------------------------------------------------------------
(* Every step makes progress.                                              *)

LEMMA Later ==
    \A a1, a2, a3, a4, b1, b2, b3, b4 \in Int :
       (\/ a1 < b1
        \/ a1 = b1 /\ a2 < b2
        \/ a1 = b1 /\ a2 = b2 /\ a3 < b3
        \/ a1 = b1 /\ a2 = b2 /\ a3 = b3 /\ a4 < b4)
       => Precedes(<<a1, a2, a3, a4>>, <<b1, b2, b3, b4>>)
<1> SUFFICES ASSUME NEW a1 \in Int, NEW a2 \in Int, NEW a3 \in Int, NEW a4 \in Int,
                    NEW b1 \in Int, NEW b2 \in Int, NEW b3 \in Int, NEW b4 \in Int,
                    \/ a1 < b1
                    \/ a1 = b1 /\ a2 < b2
                    \/ a1 = b1 /\ a2 = b2 /\ a3 < b3
                    \/ a1 = b1 /\ a2 = b2 /\ a3 = b3 /\ a4 < b4
             PROVE  Precedes(<<a1, a2, a3, a4>>, <<b1, b2, b3, b4>>)
  OBVIOUS
<1> DEFINE a == <<a1, a2, a3, a4>>
           b == <<b1, b2, b3, b4>>
<1>1. ASSUME NEW i \in 1..4, a[i] < b[i], \A j \in 1..i-1 : a[j] = b[j]
      PROVE  Precedes(a, b)
  BY <1>1 DEF Precedes
<1>2. CASE a1 < b1
  BY <1>1, <1>2
<1>3. CASE a1 = b1 /\ a2 < b2
  BY <1>1, <1>3
<1>4. CASE a1 = b1 /\ a2 = b2 /\ a3 < b3
  BY <1>1, <1>4
<1>5. CASE a1 = b1 /\ a2 = b2 /\ a3 = b3 /\ a4 < b4
  BY <1>1, <1>5
<1> QED
  BY <1>2, <1>3, <1>4, <1>5

LEMMA ProgressTypes == IInv => Phase[pc] \in Int /\ lv \in Int /\ n \in Int /\ Loop \in Int
<1> SUFFICES ASSUME IInv PROVE Phase[pc] \in Int /\ lv \in Int /\ n \in Int /\ Loop \in Int
  OBVIOUS
<1>1. lv \in Int /\ n \in Int /\ root \in Int /\ low \in Int
  BY FlagFacts, NAssumption DEF IInv, TypeOK
<1>2. Phase[pc] \in Int
  BY DEF IInv, TypeOK, Phase
<1> QED
  BY <1>1, <1>2 DEF Loop

LEMMA ProgressStep == IInv /\ Next => Precedes(Progress, Progress') \/ UNCHANGED vars
<1> SUFFICES ASSUME IInv, Next, ~UNCHANGED vars PROVE Precedes(Progress, Progress')
  OBVIOUS
<1> USE FlagFacts, NAssumption
<1>1. IInv'
  BY StepInv
<1>2. /\ Phase[pc] \in Int /\ lv \in Int /\ n \in Int /\ Loop \in Int
  BY ProgressTypes
<1>2a. (Phase[pc] \in Int /\ lv \in Int /\ n \in Int /\ Loop \in Int)'
  BY <1>1, ProgressTypes, PTL
<1>3. /\ n \in 1..N+1 /\ root \in 0..N /\ low \in 0..N /\ lv \in {20, 30, 40}
      /\ (Running => low < root /\ n <= root)
  BY DEF IInv, TypeOK, Confined
<1>4. SUFFICES \/ Phase[pc] < Phase[pc']
               \/ Phase[pc] = Phase[pc'] /\ lv < lv'
               \/ Phase[pc] = Phase[pc'] /\ lv = lv' /\ n < n'
               \/ Phase[pc] = Phase[pc'] /\ lv = lv' /\ n = n' /\ Loop < Loop'
  BY <1>2, <1>2a, Later DEF Progress
<1>5. CASE Creg \/ TreeInst \/ Lv1LookupFails \/ Lv1Done \/ Log \/ Crash
  BY <1>5 DEF Creg, TreeInst, Lv1LookupFails, Lv1Done, Log, Crash, Phase
<1>6. CASE HideFlagPop
  <2>1. \E k \in n..N : n' = k + 1
    BY <1>6 DEF HideFlagPop, Pushers
  <2> QED
    BY <2>1, <1>3, <1>6 DEF HideFlagPop
<1>7. CASE NoFlagPop
  <2>1. \E k \in n..N : n' = k + 1
    BY <1>7 DEF NoFlagPop, Pushers
  <2> QED
    BY <2>1, <1>3, <1>7 DEF NoFlagPop
<1>8. CASE Start
  <2>1. \E r \in Roots : root' = r /\ low' = r - 1 /\ pc' \in {"failed", "merge"}
    BY <1>8 DEF Start
  <2>2. root' \in Int /\ low' = root' - 1
    BY <2>1, <1>3 DEF Roots
  <2>3. pc' = "merge" => Loop' = 2 /\ Loop = 0
    BY <2>2, <1>8 DEF Loop, Start
  <2> QED
    BY <2>1, <2>3, <1>8 DEF Start, Phase
<1>9. CASE LvDone
  BY <1>9, <1>3 DEF LvDone, Phase
<1>10. CASE SkipHidden
  BY <1>10, <1>3 DEF SkipHidden, Loop, Phase
<1>11. CASE MergeStep
  <2>1. pc = "merge" /\ n' = n /\ lv' = lv /\ root' = root
    BY <1>11 DEF MergeStep
  <2>2. (pc' = "check" /\ low' = low) \/ (pc' = "merge" /\ low' = low - 1)
    BY <1>11 DEF MergeStep
  <2> QED
    BY <2>1, <2>2, <1>3 DEF Loop, Phase
<1>12. CASE Incomplete
  BY <1>12, <1>3 DEF Incomplete, Loop, Phase
<1>13. CASE Ends
  <2>1. Running /\ n' = root + 1 /\ pc' = "lv" /\ lv' = lv
    BY <1>13, EndsFacts
  <2> QED
    BY <2>1, <1>3 DEF Phase
<1> QED
  BY <1>5, <1>6, <1>7, <1>8, <1>9, <1>10, <1>11, <1>12, <1>13
     DEF Next, Lv1, StartLoop, Ends, Terminating

\* The four components of Progress grow lexicographically, and each is
\* bounded: xx_opmz makes finitely many steps on every piece.
THEOREM AlwaysAdvances == Spec => Advances
BY Invariant, ProgressStep, PTL DEF Spec, Advances

-----------------------------------------------------------------------------
(* The passes implement the abstract listing.                              *)

Shown == {i \in 1..N : ~Hidden(i)}
Lined == {i \in 1..N : line[i] # NoLine}

LEMMA ListingInit == Init => Listing!Init
<1> SUFFICES ASSUME Init PROVE Listing!Init
  OBVIOUS
<1>1. Shown = 1..N
  BY FlagFacts, NAssumption DEF Init, Shown
<1>2. Lined = {}
  BY NAssumption DEF Init, Lined
<1>3. owner = [i \in 1..N |-> 0]
  BY DEF Init
<1> QED
  BY <1>1, <1>2, <1>3 DEF Listing!Init, Shown, Lined

\* Steps that change no mark across LV2, no owner and no line.
LEMMA ListingStutters ==
    ASSUME IInv, IInv', owner' = owner, line' = line,
           \A i \in 1..N : Hidden(i) <=> Hidden(i)'
    PROVE  UNCHANGED Listing!listing
<1>1. Shown' = Shown
  BY DEF Shown
<1>2. Lined' = Lined
  BY DEF Lined
<1> QED
  BY <1>1, <1>2 DEF Listing!listing, Shown, Lined

LEMMA HideFlagPopListing == IInv /\ HideFlagPop => Listing!HideFlags
<1> SUFFICES ASSUME IInv, HideFlagPop PROVE Listing!HideFlags
  OBVIOUS
<1> USE FlagFacts, NAssumption
<1>1. PICK k \in Pushers : \E m \in FlagPops(k) :
         flag' = [flag EXCEPT ![m] = LV2] /\ owner' = [owner EXCEPT ![m] = k]
  BY DEF HideFlagPop
<1>2. PICK m \in FlagPops(k) :
         flag' = [flag EXCEPT ![m] = LV2] /\ owner' = [owner EXCEPT ![m] = k]
  BY <1>1
<1>3. pc = "lv1" /\ k \in 1..N /\ line' = line
  BY DEF HideFlagPop, Pushers, IInv, TypeOK
<1>4. m \in 1..N /\ k < m /\ ~Hidden(m)
  BY <1>3, HideFlagPopIsNew
<1>5. flag \in [1..N -> Flags] /\ owner \in [1..N -> 0..N]
  BY DEF IInv, TypeOK
<1>6. m \in Shown /\ k \in 1..m-1
  BY <1>3, <1>4 DEF Shown
<1>7. Shown' = Shown \ {m}
  BY <1>2, <1>4, <1>5 DEF Shown
<1>8. owner' = [i \in 1..N |-> IF i \in {m} THEN k ELSE owner[i]]
  BY <1>2, <1>4, <1>5
<1>9. Lined' = Lined
  BY <1>3 DEF Lined
<1> QED
  BY <1>6, <1>7, <1>8, <1>9 DEF Listing!HideFlags, Listing!Leave, Shown, Lined

\* What an analysis consumed: the marked instructions, without the root when
\* it becomes a middle instruction.
Marked == {i \in 1..N : flag[i] = TMP}

LEMMA FinishListing ==
    ASSUME IInv, Running,
           NEW S \in {Marked, Marked \ {root}},
           flag' = [i \in 1..N |-> IF i \in S THEN lv
                                   ELSE IF i \in Marked THEN 0 ELSE flag[i]],
           owner' = [i \in 1..N |-> IF i \in S THEN root ELSE owner[i]]
    PROVE  /\ root \in Shown /\ root \in Marked
           /\ Marked \subseteq {i \in Shown : i <= root}
           /\ Shown' = Shown \ S
<1> USE FlagFacts, NAssumption DEF IInv
<1>1. lv \in {20, 30, 40} /\ flag \in [1..N -> Flags] /\ root \in 1..N
  BY DEF TypeOK
<1>2. root \in Marked /\ root \in Shown
  BY <1>1 DEF Confined, Marked, Shown
<1>3. Marked \subseteq {i \in Shown : i <= root}
  BY <1>1 DEF MarksConfined, Marked, Shown
<1>4. Shown' = Shown \ S
  BY <1>1, <1>3 DEF Marked, Shown
<1> QED
  BY <1>2, <1>3, <1>4

LEMMA IgnoreListing == IInv /\ Ignore => Listing!Consume
<1> SUFFICES ASSUME IInv, Ignore PROVE Listing!Consume
  OBVIOUS
<1>1. Running /\ Finish(flag, TRUE) /\ line' = line
  BY DEF Ignore
<1>2. \A i \in 1..N : flag[i] = TMP => i <= root
  BY <1>1 DEF IInv, MarksConfined
<1>3. /\ flag' = [i \in 1..N |-> IF i \in Marked THEN lv
                                 ELSE IF i \in Marked THEN 0 ELSE flag[i]]
      /\ owner' = [i \in 1..N |-> IF i \in Marked THEN root ELSE owner[i]]
  BY <1>1, <1>2 DEF Finish, Marked
<1>4. /\ root \in Shown /\ root \in Marked
      /\ Marked \subseteq {i \in Shown : i <= root}
      /\ Shown' = Shown \ Marked
  BY <1>1, <1>3, FinishListing
<1>5. Lined' = Lined
  BY <1>1 DEF Lined
<1> QED
  BY <1>3, <1>4, <1>5 DEF Listing!Consume, Listing!Leave, Listing!UpTo, Shown, Lined

LEMMA AsmListing == IInv /\ Asm => Listing!Consume
<1> SUFFICES ASSUME IInv, Asm PROVE Listing!Consume
  OBVIOUS
<1>1. Running /\ Finish(flag, TRUE)
  BY DEF Asm
<1>2. \A i \in 1..N : flag[i] = TMP => i <= root
  BY <1>1 DEF IInv, MarksConfined
<1>3. /\ flag' = [i \in 1..N |-> IF i \in Marked THEN lv
                                 ELSE IF i \in Marked THEN 0 ELSE flag[i]]
      /\ owner' = [i \in 1..N |-> IF i \in Marked THEN root ELSE owner[i]]
  BY <1>1, <1>2 DEF Finish, Marked
<1>4. /\ root \in Shown /\ root \in Marked
      /\ Marked \subseteq {i \in Shown : i <= root}
      /\ Shown' = Shown \ Marked
  BY <1>1, <1>3, FinishListing
<1>5. Lined' = Lined \cup {root}
  <2>1. line' = [line EXCEPT ![root] = [first |-> low, last |-> root,
                                        asm |-> Restore(work, lv, creg).asm]]
    BY DEF Asm
  <2>2. root \in 1..N /\ DOMAIN line = 1..N /\ root # 0
    BY <1>1, NAssumption DEF IInv, TypeOK
  <2>3. line'[root].last # NoLine.last
    BY <2>1, <2>2 DEF NoLine
  <2>4. line'[root] # NoLine
    BY <2>3
  <2> QED
    BY <2>1, <2>2, <2>4 DEF Lined
<1> QED
  BY <1>3, <1>4, <1>5 DEF Listing!Consume, Listing!Leave, Listing!UpTo, Shown, Lined

LEMMA MiddleListing == IInv /\ Middle => Listing!Replace
<1> SUFFICES ASSUME IInv, Middle PROVE Listing!Replace
  OBVIOUS
<1> DEFINE S == Marked \ {root}
<1>1. Running /\ Finish([flag EXCEPT ![root] = 0], TRUE) /\ line' = line
  BY DEF Middle
<1>2. /\ \A i \in 1..N : flag[i] = TMP => i <= root
      /\ flag \in [1..N -> Flags] /\ root \in 1..N /\ flag[root] = TMP
  BY <1>1, NAssumption DEF IInv, MarksConfined, TypeOK, Confined
<1>3. /\ flag' = [i \in 1..N |-> IF i \in S THEN lv
                                 ELSE IF i \in Marked THEN 0 ELSE flag[i]]
      /\ owner' = [i \in 1..N |-> IF i \in S THEN root ELSE owner[i]]
  BY <1>1, <1>2, FlagFacts DEF Finish, Marked
<1>4. /\ root \in Shown /\ root \in Marked
      /\ Marked \subseteq {i \in Shown : i <= root}
      /\ Shown' = Shown \ S
  BY <1>1, <1>3, FinishListing
<1>5. Lined' = Lined
  BY <1>1 DEF Lined
<1>6. S \in SUBSET {i \in Shown : i <= root-1}
  BY <1>2, <1>4 DEF Marked
<1> QED
  BY <1>3, <1>4, <1>5, <1>6 DEF Listing!Replace, Listing!Leave, Listing!UpTo, Shown, Lined

LEMMA ListingStep == IInv /\ IInv' /\ [Next]_vars => [Listing!Next]_(Listing!listing)
<1> SUFFICES ASSUME IInv, IInv', [Next]_vars
             PROVE  Listing!Next \/ UNCHANGED Listing!listing
  OBVIOUS
<1> USE FlagFacts, NAssumption
<1>a. flag \in [1..N -> Flags] /\ lv \in {20, 30, 40} /\ owner \in [1..N -> 0..N]
  BY DEF IInv, TypeOK
<1>1. CASE Creg \/ TreeInst \/ NoFlagPop \/ Lv1LookupFails \/ Lv1Done \/ LvDone
           \/ SkipHidden \/ Incomplete \/ Crash \/ Log \/ UNCHANGED vars
  <2>1. flag' = flag /\ owner' = owner /\ line' = line
    BY <1>1 DEF Creg, TreeInst, NoFlagPop, Lv1LookupFails, Lv1Done, LvDone, SkipHidden,
                Incomplete, Crash, Log, vars
  <2> QED
    BY <2>1, ListingStutters
<1>2. CASE HideFlagPop
  BY <1>2, HideFlagPopListing DEF Listing!Next
<1>3. CASE Start
  <2>1. \E r \in Roots : ~Hidden(r) /\ (flag' = flag \/ flag' = [flag EXCEPT ![r] = TMP])
    BY <1>3 DEF Start, Roots
  <2>2. \A i \in 1..N : Hidden(i) <=> Hidden(i)'
    BY <2>1, <1>a
  <2> QED
    BY <2>2, <1>3, ListingStutters DEF Start
<1>4. CASE MergeStep
  <2>1. \E x \in {0, 1, 10} : flag' = [flag EXCEPT ![low] = x]
    BY <1>4 DEF MergeStep
  <2>2. \A i \in 1..N : Hidden(i) <=> Hidden(i)'
    BY <2>1, <1>4, <1>a DEF MergeStep
  <2> QED
    BY <2>2, <1>4, ListingStutters DEF MergeStep
<1>5. CASE Exhausted \/ Unmatched
  <2>1. Finish(flag, FALSE) /\ line' = line /\ Running
    BY <1>5 DEF Exhausted, Unmatched
  <2>2. owner' = owner
    BY <2>1, <1>a DEF Finish
  <2>3. \A i \in 1..N : Hidden(i) <=> Hidden(i)'
    BY <2>1, <1>a DEF Finish
  <2> QED
    BY <2>1, <2>2, <2>3, ListingStutters
<1>6. CASE Ignore \/ Asm
  BY <1>6, IgnoreListing, AsmListing DEF Listing!Next
<1>7. CASE Middle
  BY <1>7, MiddleListing DEF Listing!Next
<1> QED
  BY <1>1, <1>2, <1>3, <1>4, <1>5, <1>6, <1>7 DEF Next, Lv1, StartLoop, Terminating

\* For every piece, table and way of merging, the passes refine the listing:
\* an instruction leaves once, on account of one that is still listed, and
\* the line is at the last instruction it stands for.
THEOREM Refinement == Spec => ImplementsListing
BY ListingInit, ListingStep, Invariant, PTL DEF Spec, ImplementsListing, Listing!Spec
=============================================================================
