------------------------------ MODULE OpmzPass ------------------------------
(***************************************************************************)
(* One call of xx_opmz() (xx_opmz/opmz_main.c): the optimizer restores one  *)
(* piece of VM pseudo instructions.  The passes run in a fixed order        *)
(*                                                                         *)
(*    creg -> tree_inst -> lv1 -> lv(LV2) -> lv(LV3) -> lv(LV4) -> log      *)
(*                                                                         *)
(* and share three arrays: the instructions (their definition and their    *)
(* opmz_flag), the instruction trees and the restored lines.  This module   *)
(* models the control of these passes: which instruction is visited, what   *)
(* the flags mean, when an instruction is consumed and what is printed.     *)
(* What a tree is and how two trees merge is a parameter; OpmzTrees gives   *)
(* the definitions of the code.                                            *)
(*                                                                         *)
(* Indexes are the C ones plus one: instruction n of the code is n + 1.     *)
(***************************************************************************)
EXTENDS Integers, OpmzDef

CONSTANTS
    N,                  \* number of instructions of the piece
    Programs,           \* the pieces: functions from 1..N to instructions
    NoTree,             \* the null pointer in ptree_inst[]
    CregInit,           \* constant register left by the piece before
    MarksFrom,          \* where the splitter starts to mark: at 2 in the first
                        \* piece of a recording, at 1 in the others
    Known(_),           \* def_api_get_iseq finds the instruction
    Boundary(_),        \* the splitter marks it -1 (12xx, 00xx, 0fxx)
    OpensCreg(_),       \* entry or jmp, the instructions that open a piece
    PopReg(_),          \* pop dreg or pop qreg
    RegOf(_),           \* the constant register that such a pop sets
    Rflag(_),           \* the instruction pushes rflags
    SpDelta(_),         \* change of sp it makes
    FlagSize(_),        \* bytes that a pop of a register takes, 0 for the rest
    AsFlagPop(_),       \* that pop renamed "mov reg,flag" (a200, a201)
    Analyze(_, _),      \* the definition starts an analysis at this level
    MadeUp,             \* definitions that only the optimizer makes: halves of
                        \* expanded results, middle instructions of exp_tbl
    Gen(_, _),          \* xx_opmz_tree_gen(instruction, sp before it)
    TreeOff(_),         \* data.offset of the root of a tree
    Stray,              \* offsets that ptree_inst[-1] may be taken to hold
    Merge(_, _, _),     \* xx_opmz_tree_merge(work, tree, lv)
    Complete(_),        \* xx_tree_low_check
    Restore(_, _, _)    \* rules, expression and xx_exp_to_asm(work, lv, creg)

ASSUME NAssumption == N \in Nat \ {0}
ASSUME MarksFromAssumption == MarksFrom \subseteq 1..2
ASSUME ProgramsAssumption ==
    \A p \in Programs : DOMAIN p = 1..N /\ \A i \in 1..N : "idef" \in DOMAIN p[i]
\* The idefs that lv1 renames a pop to are not those it looks for.
ASSUME RenameAssumption ==
    \A p \in Programs : \A i \in 1..N :
        FlagSize(AsFlagPop(p[i])) = 0 /\ ~Rflag(AsFlagPop(p[i]))
\* The recorder writes none of the definitions that the optimizer makes up,
\* and none of these starts an analysis (column tree_analyze of the tables).
ASSUME MadeUpAssumption ==
    /\ \A p \in Programs : \A i \in 1..N : p[i].idef \notin MadeUp
    /\ \A d \in MadeUp, l \in Levels : ~Analyze(d, l)

VARIABLES
    prog,       \* the piece as it was recorded
    inst,       \* pvm_inst[].idef and .var
    flag,       \* pvm_inst[].opmz_flag
    tree,       \* ptree_inst[]
    base,       \* in_offset each tree was generated with
    line,       \* popmz_inst[]
    creg,       \* constant register and its value
    pc,         \* the pass that runs
    lv,         \* its level
    n,          \* loop index of lv1 and of lv
    root,       \* num - 1 of xx_opmz_start
    low,        \* its loop index n
    work,       \* its tree ptree
    out,        \* what xx_opmz_log printed for each instruction
    owner,      \* history: the instruction that made this one disappear
    ignored     \* history: roots of restorations that print nothing

data == <<inst, tree, base, line>>
ctl  == <<pc, lv, n, root, low, work>>
hist == <<owner, ignored>>
vars == <<prog, flag, data, creg, ctl, out, hist>>

Hidden(i) == flag[i] >= LV2
\* The null pointer in popmz_inst[].
NoLine == [first |-> 0, last |-> 0, asm |-> <<>>]
IsFirst(i, S) == i \in S /\ \A j \in S : i <= j

-----------------------------------------------------------------------------

Init ==
    /\ prog \in Programs
    /\ inst = prog
    /\ \E from \in MarksFrom :
         flag = [i \in 1..N |-> IF i >= from /\ Boundary(prog[i]) THEN -1 ELSE 0]
    /\ tree = [i \in 1..N |-> NoTree]
    /\ base = [i \in 1..N |-> 0]
    /\ line = [i \in 1..N |-> NoLine]
    /\ creg = CregInit
    /\ pc = "creg" /\ lv = LV2 /\ n = 1
    /\ root = 0 /\ low = 0 /\ work = NoTree
    /\ out = [i \in 1..N |-> {}]
    /\ owner = [i \in 1..N |-> 0]
    /\ ignored = {}

\* xx_opmz_creg: the first pop after an entry or a jmp names the register
\* whose value the rules may take for a constant.
Creg ==
    /\ pc = "creg"
    /\ creg' = IF N >= 2 /\ OpensCreg(inst[1]) /\ PopReg(inst[2])
               THEN RegOf(inst[2]) ELSE creg
    /\ pc' = "tree"
    /\ UNCHANGED <<prog, flag, data, lv, n, root, low, work, out, hist>>

\* sp before instruction i, as xx_opmz_tree_inst accumulates it: the change
\* of sp of an instruction without a tree is not counted.
SpBefore ==
    LET sp[i \in 1..N+1] ==
          IF i = 1 THEN 0
          ELSE LET before == sp[i-1]
               IN  before + IF Gen(inst[i-1], before) = NoTree
                            THEN 0 ELSE SpDelta(inst[i-1])
    IN  sp

TreeInst ==
    /\ pc = "tree"
    /\ base' = [i \in 1..N |-> SpBefore[i]]
    /\ tree' = [i \in 1..N |-> Gen(inst[i], SpBefore[i])]
    /\ pc' = "lv1"
    /\ UNCHANGED <<prog, inst, flag, line, creg, lv, n, root, low, work, out, hist>>

-----------------------------------------------------------------------------
(* xx_opmz_lv1: every instruction that pushes rflags hides its flag pop.   *)

SpSince(k, m) ==
    LET sum[i \in k..N] == IF i = k THEN 0 ELSE sum[i-1] + SpDelta(inst[i])
    IN  sum[m]

FlagPops(k) == {m \in k+1..N : FlagSize(inst[m]) # 0 /\ SpSince(k, m) = FlagSize(inst[m])}

\* The search gives up with an error at an instruction no table defines.
Unknowns(k) == {m \in k+1..N : ~Known(inst[m])}

Pushers == {k \in n..N : Rflag(inst[k])}

HideFlagPop ==
    /\ pc = "lv1"
    /\ \E k \in Pushers : \E m \in FlagPops(k) \ Unknowns(k) :
         /\ IsFirst(k, Pushers) /\ IsFirst(m, FlagPops(k) \cup Unknowns(k))
         /\ flag' = [flag EXCEPT ![m] = LV2]
         /\ inst' = [inst EXCEPT ![m] = AsFlagPop(inst[m])]
         /\ owner' = [owner EXCEPT ![m] = k]
         /\ n' = k + 1
    /\ UNCHANGED <<prog, tree, base, line, creg, pc, lv, root, low, work, out, ignored>>

\* No pop takes the flags: an error is logged and the pass goes on.
NoFlagPop ==
    /\ pc = "lv1"
    /\ \E k \in Pushers :
         /\ IsFirst(k, Pushers) /\ FlagPops(k) = {} /\ Unknowns(k) = {}
         /\ n' = k + 1
    /\ UNCHANGED <<prog, flag, data, creg, pc, lv, root, low, work, out, hist>>

Lv1LookupFails ==
    /\ pc = "lv1"
    /\ \E k \in Pushers : \E u \in Unknowns(k) :
         IsFirst(k, Pushers) /\ IsFirst(u, FlagPops(k) \cup Unknowns(k))
    /\ pc' = "failed"
    /\ UNCHANGED <<prog, flag, data, creg, lv, n, root, low, work, out, hist>>

Lv1Done ==
    /\ pc = "lv1" /\ Pushers = {}
    /\ pc' = "lv" /\ n' = 1
    /\ UNCHANGED <<prog, flag, data, creg, lv, root, low, work, out, hist>>

Lv1 == HideFlagPop \/ NoFlagPop \/ Lv1LookupFails \/ Lv1Done

-----------------------------------------------------------------------------
(* xx_opmz_lv: from the first instruction to the last, analyse the listed  *)
(* instructions that the level lets start an analysis.                     *)

\* Mutant: the pass also starts from instructions that are no longer listed.
RootsEvenHidden == {i \in n..N : Analyze(inst[i].idef, lv)}

Roots == {i \in n..N : ~Hidden(i) /\ Analyze(inst[i].idef, lv)}

\* Entry of xx_opmz_start: copy the tree of the root, mark it.
Start ==
    /\ pc = "lv"
    /\ \E r \in Roots :
         /\ IsFirst(r, Roots)
         /\ root' = r /\ low' = r - 1 /\ work' = tree[r]
         /\ IF tree[r] = NoTree
            THEN pc' = "failed" /\ UNCHANGED flag
            ELSE pc' = "merge" /\ flag' = [flag EXCEPT ![r] = TMP]
    /\ UNCHANGED <<prog, data, creg, lv, n, out, hist>>

\* Mutant: the last level is not recognised.
LvDoneTooLate ==
    /\ pc = "lv" /\ Roots = {}
    /\ IF lv > LV4 THEN pc' = "log" /\ UNCHANGED <<lv, n>>
                   ELSE pc' = "lv" /\ lv' = lv + 10 /\ n' = 1
    /\ UNCHANGED <<prog, flag, data, creg, root, low, work, out, hist>>

LvDone ==
    /\ pc = "lv" /\ Roots = {}
    /\ IF lv = LV4 THEN pc' = "log" /\ UNCHANGED <<lv, n>>
                   ELSE pc' = "lv" /\ lv' = lv + 10 /\ n' = 1
    /\ UNCHANGED <<prog, flag, data, creg, root, low, work, out, hist>>

-----------------------------------------------------------------------------
(* The loop of xx_opmz_start: merge the instructions before the root, from *)
(* the nearest to the first, until the tree is complete.                   *)

\* Mutant: an analysis that restored nothing leaves its marks.
FinishKeepsMarks(f, found) ==
    /\ flag' = [i \in 1..N |-> IF i <= root /\ f[i] = TMP /\ found THEN lv ELSE f[i]]
    /\ owner' = [i \in 1..N |-> IF found /\ f[i] = TMP THEN root ELSE owner[i]]
    /\ n' = root + 1
    /\ pc' = "lv" /\ root' = 0 /\ low' = 0 /\ work' = NoTree
    /\ UNCHANGED <<prog, creg, lv, out>>

\* Mutant: the pass starts again after each analysis.
FinishRestarts(f, found) ==
    /\ flag' = [i \in 1..N |-> IF i <= root /\ f[i] = TMP
                               THEN IF found THEN lv ELSE 0
                               ELSE f[i]]
    /\ owner' = [i \in 1..N |-> IF found /\ f[i] = TMP THEN root ELSE owner[i]]
    /\ n' = 1
    /\ pc' = "lv" /\ root' = 0 /\ low' = 0 /\ work' = NoTree
    /\ UNCHANGED <<prog, creg, lv, out>>

\* The end of xx_opmz_start: the temporary marks become the level when a
\* line was restored, and are taken back otherwise.
Finish(f, found) ==
    /\ flag' = [i \in 1..N |-> IF i <= root /\ f[i] = TMP
                               THEN IF found THEN lv ELSE 0
                               ELSE f[i]]
    /\ owner' = [i \in 1..N |-> IF found /\ f[i] = TMP THEN root ELSE owner[i]]
    /\ n' = root + 1
    /\ pc' = "lv" /\ root' = 0 /\ low' = 0 /\ work' = NoTree
    /\ UNCHANGED <<prog, creg, lv, out>>

Stops(i) == i > 0 => tree[i] = NoTree \/ flag[i] = -1

Exhausted ==
    /\ pc = "merge" /\ Stops(low)
    /\ Finish(flag, FALSE)
    /\ UNCHANGED <<data, ignored>>

\* Mutant: the loop skips an instruction without a tree.
SkipBoundary ==
    /\ pc = "merge" /\ low > 0 /\ (Stops(low) \/ Hidden(low))
    /\ low' = low - 1
    /\ UNCHANGED <<prog, flag, data, creg, pc, lv, n, root, work, out, hist>>

SkipHidden ==
    /\ pc = "merge" /\ ~Stops(low) /\ Hidden(low)
    /\ low' = low - 1
    /\ UNCHANGED <<prog, flag, data, creg, pc, lv, n, root, work, out, hist>>

\* A merge that expands the instruction rewrites it for good, whether or not
\* the analysis succeeds in the end.  The half that is kept has a made up
\* definition and a tree.
MergeStep ==
    /\ pc = "merge" /\ ~Stops(low) /\ ~Hidden(low)
    /\ LET m == Merge(work, tree[low], lv)
       IN  /\ work' = m.work
           /\ IF m.ok
              THEN /\ m.expanded => m.idef \in MadeUp /\ m.tree # NoTree
                   /\ pc' = "check" /\ low' = low
                   /\ flag' = [flag EXCEPT ![low] = IF m.expanded THEN LV1 ELSE TMP]
                   /\ tree' = IF m.expanded THEN [tree EXCEPT ![low] = m.tree] ELSE tree
                   /\ inst' = IF m.expanded THEN [inst EXCEPT ![low].idef = m.idef] ELSE inst
              ELSE /\ pc' = "merge" /\ low' = low - 1
                   /\ flag' = [flag EXCEPT ![low] = 0]
                   /\ UNCHANGED <<tree, inst>>
    /\ UNCHANGED <<prog, base, line, creg, lv, n, root, out, hist>>

Incomplete ==
    /\ pc = "check" /\ ~Complete(work)
    /\ pc' = "merge" /\ low' = low - 1
    /\ UNCHANGED <<prog, flag, data, creg, lv, n, root, work, out, hist>>

\* The offset at which the restored instruction starts is read from the tree
\* of the instruction before it.  Before the first instruction of the piece
\* that is ptree_inst[-1]: the code logs an error and reads it all the same,
\* and finds a null pointer, some offset, or an address it cannot read.
StartOffsets == IF low = 1 THEN Stray
                ELSE IF tree[low-1] = NoTree THEN {} ELSE {TreeOff(tree[low-1])}

Crash ==
    /\ pc = "check" /\ Complete(work) /\ low = 1
    /\ pc' = "crashed"
    /\ UNCHANGED <<prog, flag, data, creg, lv, n, root, low, work, out, hist>>

\* Mutant: a tree that no row matches hides what it consumed.
UnmatchedHides ==
    /\ pc = "check" /\ Complete(work)
    /\ low = 1 \/ StartOffsets = {} \/ Restore(work, lv, creg).kind = "none"
    /\ Finish(flag, TRUE)
    /\ UNCHANGED <<data, ignored>>

Unmatched ==
    /\ pc = "check" /\ Complete(work)
    /\ low = 1 \/ StartOffsets = {} \/ Restore(work, lv, creg).kind = "none"
    /\ Finish(flag, FALSE)
    /\ UNCHANGED <<data, ignored>>

\* mark_flag: the expression is known and prints nothing.
Ignore ==
    /\ pc = "check" /\ Complete(work) /\ StartOffsets # {}
    /\ Restore(work, lv, creg).kind = "ignore"
    /\ ignored' = ignored \cup {root}
    /\ Finish(flag, TRUE)
    /\ UNCHANGED data

\* The root becomes a middle instruction: a new definition and a new tree,
\* listed again and open to the analyses that follow.  Every definition that
\* exp_tbl names for one is made up and has a tree.
Middle ==
    /\ pc = "check" /\ Complete(work)
    /\ \E off \in StartOffsets :
       LET r == Restore(work, lv, creg)
       IN  /\ r.kind = "middle" /\ r.idef \in MadeUp
           /\ inst' = [inst EXCEPT ![root].idef = r.idef, ![root].var = r.var]
           /\ tree' = [tree EXCEPT ![root] = Gen(inst'[root], off)]
           /\ tree'[root] # NoTree
           /\ base' = [base EXCEPT ![root] = off]
    /\ Finish([flag EXCEPT ![root] = 0], TRUE)
    /\ UNCHANGED <<line, ignored>>

\* Mutant: the loop index has moved on when the line is kept.
AsmOffByOne ==
    /\ pc = "check" /\ Complete(work) /\ StartOffsets # {}
    /\ LET r == Restore(work, lv, creg)
       IN  /\ r.kind = "asm"
           /\ line' = [line EXCEPT ![root] = [first |-> low + 1, last |-> root, asm |-> r.asm]]
    /\ Finish(flag, TRUE)
    /\ UNCHANGED <<inst, tree, base, ignored>>

\* A restored line, kept at the root with the first and last instruction.
Asm ==
    /\ pc = "check" /\ Complete(work) /\ StartOffsets # {}
    /\ LET r == Restore(work, lv, creg)
       IN  /\ r.kind = "asm"
           /\ line' = [line EXCEPT ![root] = [first |-> low, last |-> root, asm |-> r.asm]]
    /\ Finish(flag, TRUE)
    /\ UNCHANGED <<inst, tree, base, ignored>>

StartLoop == Exhausted \/ SkipHidden \/ MergeStep \/ Incomplete
             \/ Crash \/ Unmatched \/ Ignore \/ Middle \/ Asm

-----------------------------------------------------------------------------
(* xx_opmz_log: the restored line, if there is one, then the instruction   *)
(* itself unless it is hidden; an instruction no table defines ends it.     *)

Fatal == {i \in 1..N : ~Hidden(i) /\ ~Known(inst[i])}

Log ==
    /\ pc = "log"
    /\ out' = [i \in 1..N |->
                 IF \E u \in Fatal : u < i THEN {}
                 ELSE (IF line[i] # NoLine THEN {"asm"} ELSE {})
                      \cup (IF ~Hidden(i) /\ i \notin Fatal THEN {"inst"} ELSE {})]
    /\ pc' = IF Fatal = {} THEN "done" ELSE "failed"
    /\ UNCHANGED <<prog, flag, data, creg, lv, n, root, low, work, hist>>

Returned == pc \in {"done", "failed", "crashed"}
Terminating == Returned /\ UNCHANGED vars

Next == Creg \/ TreeInst \/ Lv1 \/ Start \/ LvDone \/ StartLoop \/ Log \/ Terminating

\* The piece is one thread of one process: it runs until it returns.
Spec == Init /\ [][Next]_vars /\ WF_vars(Next)

-----------------------------------------------------------------------------
Running  == pc \in {"merge", "check"}

\* Types of the control state and of the flags.
TypeOK ==
    /\ flag \in [1..N -> Flags]
    /\ owner \in [1..N -> 0..N]
    /\ ignored \subseteq 1..N
    /\ pc \in {"creg", "tree", "lv1", "lv", "merge", "check", "log", "done",
               "failed", "crashed"}
    /\ lv \in Levels
    /\ n \in 1..N+1
    /\ root \in 0..N /\ low \in 0..N
    /\ Running => low < root
    /\ pc = "check" => low >= 1
    /\ DOMAIN inst = 1..N /\ DOMAIN line = 1..N /\ DOMAIN tree = 1..N

\* A temporary mark never outlives the analysis that made it, and while it
\* runs only the root and instructions it has already visited carry one
\* (xx_opmz_start, the two loops at its end).
MarksConfined ==
    \A i \in 1..N : flag[i] = TMP =>
        /\ Running \/ pc = "crashed"
        /\ i <= root /\ i >= low /\ (pc = "merge" => i > low)

\* An instruction leaves the listing only because some line accounts for it:
\* it is a flag pop, or belongs to a restoration whose root printed a line,
\* was ignored on purpose, or became a middle instruction (opmz_flag >= LV2
\* is all that xx_opmz_log looks at).
NothingLost ==
    \A i \in 1..N : Hidden(i) =>
        /\ owner[i] # 0
        /\ \/ owner[i] < i /\ Rflag(prog[owner[i]])
           \/ /\ owner[i] >= i
              /\ \/ line[owner[i]] # NoLine
                 \/ owner[i] \in ignored
                 \/ inst[owner[i]] # prog[owner[i]] /\ owner[i] # i

\* The listing never shows an instruction beside the line that replaces it,
\* and the range kept with a line covers everything the line consumed.
LinesCoverOwned ==
    \A k \in 1..N : line[k] # NoLine =>
        /\ Hidden(k) /\ line[k].last = k
        /\ \A i \in 1..N : owner[i] = k /\ i <= k => line[k].first <= i

\* No restoration reaches across an instruction without a tree or with flag
\* -1: pieces are not analysed across an entry, a jmp or a retn.
BoundariesHold ==
    \A i \in 1..N : Hidden(i) /\ owner[i] > i =>
        \A b \in i..owner[i] : tree[b] # NoTree /\ flag[b] # -1

\* What left the listing stays out of it: its mark, its line, its owner and
\* its tree are never touched again, whatever is analysed later.
HiddenIsFinal ==
    [][\A i \in 1..N : Hidden(i) =>
         /\ flag'[i] = flag[i] /\ owner'[i] = owner[i]
         /\ line'[i] = line[i] /\ inst'[i] = inst[i] /\ tree'[i] = tree[i]]_vars

\* Every step makes progress: the passes, their levels, their loop indexes
\* and the loop of an analysis only go forward, although middle instructions
\* and rewritten ones are listed again.  The four components are bounded, so
\* xx_opmz ends.
Phase == [creg |-> 0, tree |-> 1, lv1 |-> 2, lv |-> 3, merge |-> 3, check |-> 3,
          log |-> 4, done |-> 5, failed |-> 5, crashed |-> 5]
Loop == IF Running THEN 2 * (root - low) + (IF pc = "check" THEN 1 ELSE 0) ELSE 0
Progress == <<Phase[pc], lv, n, Loop>>
Precedes(a, b) == \E i \in 1..4 : a[i] < b[i] /\ \A j \in 1..i-1 : a[j] = b[j]
Advances == [][Precedes(Progress, Progress')]_vars

\* xx_opmz returns on every piece: middle instructions that re-enter the
\* analysis do not make it loop.
Returns == <>Returned

=============================================================================
